CONSTANTS
  t1 = t1
  t2 = t2
  t3 = t3
  t4 = t4
  u = u
  v = v
  admin = admin
  main = main
  side = side
  n1 = n1
  n2 = n2
  u1 = u1
  u2 = u2
  k1 = k1
  k2 = k2
  r1 = r1
  r2 = r2
  User = {u, v, admin}
  Admin = admin
  Chain = {main, side}
  Req = {r1, r2}
  NoChain = NoChain
  Tx = {t1, t2, t3, t4}
  From <- MCFrom
  Offers <- MCOffers
  MaxTotal = 2
  MaxPerSender = 1
  Nobody = Nobody
  Nonce = {n1, n2}
  Token = {k1, k2}
  Nothing = Nothing
  Message <- MCMessage
  Url = {u1, u2}
  NoUrl = NoUrl
  Change <- MCChange
  Seed <- MCSeed
  NonceTtl = 1
  SessionTtl = 1
  Drift = 0
  MaxTime = 2
SYMMETRY Symmetry
SPECIFICATION BothSpec
INVARIANTS
  OvershootIsBounded
  OneSessionPerChallenge
  RegistryIsTheAdmins
  MapIsTheTable
PROPERTIES
  NothingVanishes
