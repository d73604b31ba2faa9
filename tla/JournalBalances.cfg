CONSTANTS
  Contract = Contract
  Fresh = Fresh
  Acc = {Contract, Fresh}
  Key = {k1}
  NoKey = NoKey
  NoLoc = NoLoc
  Absent = Absent
  MaxVal = 2
  Input <- MCInput
  Touched <- MCTouched
  Chain <- MCChain
  Held = {Contract, Fresh}
  MaxEvents = 4
  MaxFrames = 2
SPECIFICATION Spec
INVARIANTS RevertKeepsBalances
