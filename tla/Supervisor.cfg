SPECIFICATION Spec
CONSTANTS
  Worker = {w1, w2}
  Relay = relay
  RapidExit = 2
  MaxDelay = 2
  Grace = 1
  RelayGrace = 1
  MaxFailures = 2
INVARIANTS SupervisorInv LastLinesRelayed
PROPERTIES BackoffExact Restarted Stops
CHECK_DEADLOCK FALSE
