SPECIFICATION Spec
CONSTANTS
  Boot = Boot
  User = User
  Int80 = Int80
  NoByte = NoByte
  Lines <- MCLines
INVARIANTS
  TypeOK
  InServiceStacked
  OneCommand
  ResumePoint
PROPERTIES
  ImplementsSession
  SessionEnds
  TicksServed
CHECK_DEADLOCK FALSE
