CONSTANTS
  c = c
  n = n
  p = p
  s = s
  Contract = {c}
  New = {n}
  Pre = {p}
  Sender = s
  W = 4
  MaxNonce = 3
  Limit = 16
  Ratio = 8
  CallCost = 1
  ValueCost = 3
  CreateCost = 1
  DepositCost = 1
  DestroyCost = 1
  WarmCost = 1
  SetCost = 1
  ResetCost = 1
  Stipend = 2
  Clears = 3
  Unsets = 7
  Resets = 4
  Ask = {8}
  Uses = {1}
  Values = {0, 1}
  Word = {0, 1, 2}
  MaxDepth = 2
  MaxSteps = 5
  Genesis <- MCGenesis
SPECIFICATION Spec
INVARIANTS
  GasIsLent
  StaticIsFrozen
  RefundIsEarned
  EtherIsMoved
  NoncesAreUsedUp
  FailedTxLeavesNoTrace
PROPERTIES
  GasNeverGrows
