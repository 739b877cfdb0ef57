SPECIFICATION Spec
CONSTANTS
  None = none
  Value <- MCValue
  Env <- MCEnv
  Database <- MCDatabase
  DefaultEmail = "admin@admin.test"
  DefaultOrg = "ORGNAME"
  MaxRuns = 3
  MaxFaults = 2
  MaxOrgs = 3
INVARIANTS AdminInv SetupTells
CHECK_DEADLOCK FALSE
