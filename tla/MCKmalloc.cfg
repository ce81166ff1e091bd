CONSTANTS
  Start = 16
  PageSize = 16
  BinSize = 16
  SizeMax = 31
  Sizes = {0, 7, 16, 32}
  Counts = {2}
  ReSizes = {1, 10, 32}
  MaxBrk = 48
SPECIFICATION Spec
CHECK_DEADLOCK FALSE
INVARIANTS ListWhole  Coalesced OwnedInUse SizesFit PointersAligned
PROPERTIES ImplementsAllocator
