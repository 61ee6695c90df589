SPECIFICATION Spec
CONSTANTS
  FrameSize = 4
  WordFrames = 16
  LowEnd = 4
  KernelStart = 0
  KernelEnd = 7
  BitmapAlign = 2
  BitsPerByte = 8
  Mmaps <- MCMmaps
  ModuleLists <- MCModuleLists
INVARIANTS
  TypeOK
  FreeCountExact
  HandedUsable
PROPERTIES
  ImplementsFrameAllocator
CHECK_DEADLOCK FALSE
