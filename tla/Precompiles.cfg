CONSTANTS
  Base = 2
  HeadLen = 3
  Chunk = 1
  MinGas = 20
  MaxU = 20000000
  MaxI = 10000000
  Ids = {1, 2, 3, 4, 5, 6, 7, 8, 9, 10, 11, 12, 13, 14, 15, 16, 17, 256}
  Inputs <- MCInputs
  Gases = {19, 60, 300, 3000, 50000, 9000000}
SPECIFICATION Spec
INVARIANTS
  BatchingPays
  ModexpIsOfPaddedInput
