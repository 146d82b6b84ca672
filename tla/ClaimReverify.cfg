\* No taint configured; the label is removed after a success.
SPECIFICATION Spec
CONSTANTS
  Nodes = {n1}
  TaintKeys = {"startup"}
  ConfigTaints <- NoTaint
  MaxRetries = 2
  DeleteFailedNodes = TRUE
  Claimed = {}
  Refused = {}
  MaxTaints = 1
  MaxSeconds = 2
  MaxIncarnations = 2
  MaxChanges = 1
  MaxJobLosses = 0
  MaxFaults = 0
  MaxCrashes = 0
INVARIANT VerifiedNodeIsReverified
CHECK_DEADLOCK FALSE
