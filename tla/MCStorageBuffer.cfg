SPECIFICATION StorageSpec
CONSTANTS
  block_size = 2
  DiskBlocks = 4
  partition_start = 1
  MAX_ALIVE = 4
  DriverError = 1
  DiskByte = {0, 1}
  Addr = {x, y}
  NULL = null
  Offsets = {0, 1, 4}
  Sizes = {1, 3, 4}
  Source <- MCSource
INVARIANT
  BlockbufferKept
