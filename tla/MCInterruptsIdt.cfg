SPECIFICATION Spec
CONSTANTS
  Boot = Boot
  User = User
  Int80 = Int80
  NoByte = NoByte
  Lines <- MCLines
INVARIANTS
  IrqsMapped
CHECK_DEADLOCK FALSE
