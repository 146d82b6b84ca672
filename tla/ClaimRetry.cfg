\* A first job fails; the taint comes off and on again.
SPECIFICATION Spec
CONSTANTS
  Nodes = {n1}
  TaintKeys = {"startup"}
  ConfigTaints <- OneTaint
  MaxRetries = 2
  DeleteFailedNodes = TRUE
  Claimed = {}
  Refused = {}
  MaxTaints = 1
  MaxSeconds = 2
  MaxIncarnations = 1
  MaxChanges = 2
  MaxJobLosses = 0
  MaxFaults = 0
  MaxCrashes = 0
INVARIANT RetryIsScheduled
CHECK_DEADLOCK FALSE
