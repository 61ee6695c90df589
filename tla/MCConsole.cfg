CONSTANTS
  Width = 3
  Height = 3
  LineMax = 3
  Overrun = 2
  Nul = Nul
  a = a
  one = one
  lshift = lshift
  rshift = rshift
  Keys <- MCKeys
  Letters <- MCLetters
  Shifts <- MCShifts
SPECIFICATION Spec
SYMMETRY MCSymmetry
INVARIANTS
  TypeOK
  CursorSettles
  LineIsTyped
CHECK_DEADLOCK FALSE
