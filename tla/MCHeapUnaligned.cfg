SPECIFICATION SpaceSpec
CONSTANTS
  PDIR_LEN = 5
  PTAB_LEN = 10
  PAGE_SIZE = 2
  InfoTable = 1
  WorkTable = 2
  StackTable = 4
  Frames = 22
  Slot = {0, 1}
  Image <- MCImage
  Incr = {1, 3}
  RangeSize = {2}
  MaxCreated = 3
  MaxRanges = 1
  MaxBrk = 69
  SizeMod = 65536
INVARIANT
  HeapBacked
