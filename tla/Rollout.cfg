SPECIFICATION Spec
CONSTANTS
  j1 = j1
  j2 = j2
  w1 = w1
  Proc <- MCJob
  Pod <- MCPod
  Revision <- MCRevision
  Wanted <- MCWanted
  Installed <- MCInstalled
  None = none
  Keep = 2
  Retries = 2
  MaxLost = 1
INVARIANTS RolloutInv RunsOverlapOnlyAfterLoss RecordedMeansConfigured RecordComplete
PROPERTIES AdminKeepsLive PromiseKept PodsServe
CHECK_DEADLOCK FALSE
