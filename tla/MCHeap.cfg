SPECIFICATION Spec
CONSTANTS
  PageSize = 4
  WordPages = 16
  HeapStart = 5
  HeapSize = 17
  MinAlign = 2
  MaxBlocks = 4
  Sizes <- MCSizes
  Aligns <- MCAligns
  PmmFrames <- MCPmmFrames
INVARIANTS
  TypeOK
  BlocksInHeap
  BlocksDisjoint
  BytesPaid
PROPERTIES
  Monotone
  KmallocEnds
CHECK_DEADLOCK FALSE
