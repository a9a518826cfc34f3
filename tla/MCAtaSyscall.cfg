SPECIFICATION AtaSpec
CONSTANTS
  Sectors = 4
  LBA_SIZE = 4
  MAX_COUNT = 2
  DMA_MAX = 2
  Starts = {1}
  Counts = {1, 3}
  ATA_READY_TIMEOUT = 1
  ATA_IRQ_TIMEOUT = 1
  dma_use = {FALSE}
  Context = "CX_SYSCALL"
PROPERTY
  RequestEnds
