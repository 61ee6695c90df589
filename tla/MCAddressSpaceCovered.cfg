SPECIFICATION Spec
CONSTANTS
  Absent = Absent
  None = Absent
  KernelPdes = 2
  Pdes = 3
  Ptes = 16
  FirstFrame = 1
  LastFrame = 21
  PageSize = 2
  Own <- MCOwn
  SlurpFrames = 1
  MaxSlurps = 3
  Images <- MCImages
  StackPages <- MCStackPages
INVARIANTS
  TablesIdentityMapped
CHECK_DEADLOCK FALSE
