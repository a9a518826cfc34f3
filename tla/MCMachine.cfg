SPECIFICATION MachineSpec
CONSTANTS
  PDIR_LEN = 5
  PTAB_LEN = 10
  PAGE_SIZE = 2
  InfoTable = 1
  WorkTable = 2
  StackTable = 4
  Frames = 22
  Slot = {0, 1}
  Image <- MCImage
  Incr = {1, 3}
  RangeSize = {2}
  MaxCreated = 3
  MaxRanges = 1
  MaxBrk = 69
  SizeMod = 65536
  Proc = {a, b, c}
  idle = idle
  Sectors = 4
  LBA_SIZE = 4
  MAX_COUNT = 2
  DMA_MAX = 2
  Starts = {1}
  Counts = {1, 3}
  ATA_READY_TIMEOUT = 1
  ATA_IRQ_TIMEOUT = 1
  dma_use = {TRUE, FALSE}
  Context = "CX_PROC"
INVARIANTS
  Isolation
  NoFreeInUse
  KernelMappingsExact
  HeapEndsAtBrkPage
  RunningIsCurrent
  SavedOnOwnStack
  SuccessExact
  WritesAsAsked
  InterruptNotMissed
PROPERTIES
  ForkIsComplete
  RequestEnds
