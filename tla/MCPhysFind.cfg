SPECIFICATION Spec
CONSTANTS
  MMAP_BITS = 3
  Available = {0,1,2,3,4,5,6,7,8,9,10}
  Reserved = {4}
  dma_start = 1
  NUM_DMA = 1
  DMA_RANGE_LENGTH = 2
  PAGE_SIZE = 2
  MaxNum = 3
INVARIANT
  FindsContiguous
