SPECIFICATION Spec
CONSTANTS
  Attempt = {a1, a2}
  None = none
  Table = {settings, events, ledger}
  Kept = {ledger}
  Settings = settings
  FlagSets <- MCFlagSets
  MaxLost = 1
SYMMETRY AttemptSymmetry
INVARIANTS MigrateInv RecordsTell
PROPERTY TargetKept
CHECK_DEADLOCK FALSE
