\* A job ends and the node itself does not change.
SPECIFICATION Spec
CONSTANTS
  Nodes = {n1}
  TaintKeys = {"startup"}
  ConfigTaints <- OneTaint
  MaxRetries = 2
  DeleteFailedNodes = TRUE
  Claimed = {}
  Refused = {}
  MaxTaints = 1
  MaxSeconds = 2
  MaxIncarnations = 1
  MaxChanges = 0
  MaxJobLosses = 0
  MaxFaults = 0
  MaxCrashes = 0
INVARIANT FinishedJobIsProcessed
CHECK_DEADLOCK FALSE
