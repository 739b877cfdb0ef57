SPECIFICATION Spec
CONSTANTS
  Attempt = {a1, a2}
  None = none
  Table = {settings, events, ledger}
  Kept = {ledger}
  Settings = settings
  FlagSets <- MCFlagSets
  MaxLost = 0
INVARIANT FilesCopied
CHECK_DEADLOCK FALSE
