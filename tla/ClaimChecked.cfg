\* A node is replaced by another one of its name.
SPECIFICATION Spec
CONSTANTS
  Nodes = {n1}
  TaintKeys = {"startup"}
  ConfigTaints <- OneTaint
  MaxRetries = 2
  DeleteFailedNodes = TRUE
  Claimed = {}
  Refused = {}
  MaxTaints = 1
  MaxSeconds = 2
  MaxIncarnations = 2
  MaxChanges = 0
  MaxJobLosses = 0
  MaxFaults = 0
  MaxCrashes = 0
PROPERTY LabeledNodeWasChecked
CHECK_DEADLOCK FALSE
