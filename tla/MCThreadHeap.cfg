CONSTANTS
  Start = 1024
  PageSize = 256
  BinSize = 256
  SizeMax = 16383
  StackSize = 44
  MaxThreads = 9
SPECIFICATION Spec
CHECK_DEADLOCK FALSE
INVARIANTS StacksApart
