SPECIFICATION Spec
CONSTANTS
  None = none
  Value <- MCValue
  Env <- MCEnv
  Database <- MCDatabase
  DefaultEmail = "admin@admin.test"
  DefaultOrg = "ORGNAME"
  MaxRuns = 3
  MaxFaults = 0
  MaxOrgs = 3
INVARIANT CredentialsSet
CHECK_DEADLOCK FALSE
