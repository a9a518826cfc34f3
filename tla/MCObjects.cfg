SPECIFICATION ObjectsSpec
CONSTANTS
  Device = {"tty0", "hd0"}
  StdDevice = "tty0"
  UserProc = {p1, p2}
  FirstProc = p1
  NumFiles = 1
  NumStd = 1
  Length = 2
  OpenPaths <- MCOpenPaths
  DirPaths <- MCDirPaths
  ReadSizes = {1, 2}
  MaxFiles = 2
  FileName = {"a", "b"}
  NameLen <- MCNameLen
  FileData <- MCFileData
  HeaderSize = 2
  EntrySize = 3
  MaxEntries = 4
  block_size = 2
  DiskBlocks = 4
  partition_start = 1
  MAX_ALIVE = 4
  DriverError = 1
  DiskByte = {0, 1}
  Addr = {x, y}
  NULL = null
  Offsets = {0, 1, 4}
  Sizes = {0, 1, 4}
  Source <- MCSource
  MMAP_BITS = 2
  Available = {0,2,3,4,5,6,7,8,9}
  Reserved = {5,6}
  dma_start = 2
  NUM_DMA = 1
  DMA_RANGE_LENGTH = 3
  PAGE_SIZE = 3
  MaxNum = 2
  Size = {1,4}
  Byte = {0,1}
  maxcnt = 3
  override = FALSE
  SizeMod = 16
  Item = {a, b}
  MaxBatch = 4
  Entries = 3
  MaxSize = 6
  Data = {1, 2, 3}
INVARIANTS
  FilesPrivate
  LookupExact
  DataOnce
  ImageReadBack
  Exclusive
  FindsContiguous
  NothingLost
  MemoryAccounted
  VisitsContent
PROPERTIES
  IsByteDevice
  IsAllocator
  IsFifo
