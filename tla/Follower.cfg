CONSTANTS
  a1 = a1
  a2 = a2
  a3 = a3
  b1 = b1
  b2 = b2
  c2 = c2
  g = g
  k = k
  m = m
  even = even
  odd = odd
  count = count
  tail = tail
  Base = g
  Blocks = {a1, a2, a3, b1, b2, c2}
  Parent <- MCParent
  Number <- MCNumber
  Txs <- MCTxs
  Slots = {k, m, even, odd, count, tail}
  Ring <- MCRing
  Queue = {count, tail}
  Dequeued <- MCDequeued
  Retain = 1
  MaxMoves = 3
  MaxFails = 1
SPECIFICATION Spec
INVARIANTS
  CacheIsOfItsBranch
  LinksAreSound
PROPERTIES
  ComesToAnEnd
