CONSTANTS
  Start = 1048576
  PageSize = 512
  BinSize = 8192
  SizeMax = 536870911
  StackSize = 512
  MaxThreads = 4
SPECIFICATION Spec
CHECK_DEADLOCK FALSE
INVARIANTS RecordAllocated
