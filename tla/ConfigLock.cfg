SPECIFICATION LockSpec
CONSTANTS
  Proc = {p1, p2, p3}
  None = none
INVARIANTS LockInv OverlapNeedsLoss
PROPERTIES FreedOnlyByItsHolder WaitEnds
CHECK_DEADLOCK FALSE
