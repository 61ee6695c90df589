SPECIFICATION Spec
CONSTANTS
  PageSize = 4
  WordPages = 16
  HeapStart = 5
  HeapSize = 17
  MinAlign = 2
  MaxBlocks = 4
  Sizes <- MCHugeSizes
  Aligns <- MCAligns
  PmmFrames <- MCPmmFrames
INVARIANTS
  BlocksInHeap
CHECK_DEADLOCK FALSE
