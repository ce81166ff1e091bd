CONSTANTS
  Start = 32
  PageSize = 32
  BinSize = 32
  SizeMax = 63
  Sizes = {0, 8, 16}
  Counts = {2}
  ReSizes = {1, 14}
  MaxBrk = 64
SPECIFICATION Spec
CHECK_DEADLOCK FALSE
INVARIANTS ReallocReturnsBlock
