SPECIFICATION Spec
CONSTANTS
  s1 = s1
  s2 = s2
  Server = {s1, s2}
  Order <- MCOrder
  Whole = whole
  MaxForeign = 2
INVARIANTS TaskInv ExitTells LinesRelayed
PROPERTY StopEnds
CHECK_DEADLOCK FALSE
