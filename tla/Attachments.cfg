SPECIFICATION Spec
CONSTANTS
  Name <- MCName
  Number = {"12", "7"}
  Level = {"bucket_1"}
  NoName = NoName
  ATTEMPTS = 4
  MaxRuns = 3
  MaxFaults = 4
INVARIANTS AttachmentsInv SuccessWhole
CHECK_DEADLOCK FALSE
