\* One node, one incarnation; three edits, a fault and a restart.
SPECIFICATION Spec
CONSTANTS
  Nodes = {n1}
  TaintKeys = {"startup"}
  ConfigTaints <- OneTaint
  MaxRetries = 2
  DeleteFailedNodes = TRUE
  Claimed = {}
  Refused = {}
  MaxTaints = 1
  MaxSeconds = 2
  MaxIncarnations = 1
  MaxChanges = 3
  MaxJobLosses = 0
  MaxFaults = 1
  MaxCrashes = 1
INVARIANTS
  TypeOK
  StateMatchesJob
  NewNodeIsScheduled
CHECK_DEADLOCK FALSE
