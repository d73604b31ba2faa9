CONSTANTS
  ByteBits = 2
  Bytes = 2
  U = 8
  StackLimit = 8
  MemLimit = 6
  Quad = 2
  A = 8
  This = 1
  Pre = {6}
  Blank = {0, 5}
  Auth <- MCAuth
  Bal <- MCBal
  Org <- MCOrg
  Given = 1
  Height = 3
  Window = 2
  Jobs <- MCJobs
  RetSizes = {0, 2}
SPECIFICATION Spec
INVARIANTS
  TypeOK
  MemoryIsPaid
  ColdIsPaidAsReached
  ArithmeticIsExact
PROPERTIES
  GasIsNotMade
  Ends
  RunsAsIfWhole
