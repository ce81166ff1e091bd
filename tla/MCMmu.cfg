CONSTANTS
  Mmap <- Memory
  BootInfos <- Layouts
  InfoAddr = 64
  KernelStart = 16
  KernelEnd = 19
  MapInit = 24
  HeapRanges = 2
  Fanout = 5
  Regions <- TwoRegions
  RegionStart <- StartOf
  Increments = {1, 4}
  MaxPages = 3
  MaxFrames = 3
SPECIFICATION Spec
CHECK_DEADLOCK FALSE
INVARIANTS MemoryMapFound FramesUsedOnce NoFrameLost FramesBeginInMemory
PROPERTIES MappingStable AccessServed
