\* Another writer changes the taint list.
SPECIFICATION Spec
CONSTANTS
  Nodes = {n1}
  TaintKeys = {"startup", "other"}
  ConfigTaints <- OneTaint
  MaxRetries = 2
  DeleteFailedNodes = TRUE
  Claimed = {}
  Refused = {}
  MaxTaints = 2
  MaxSeconds = 2
  MaxIncarnations = 1
  MaxChanges = 3
  MaxJobLosses = 0
  MaxFaults = 0
  MaxCrashes = 0
PROPERTY PatchIsExact
CHECK_DEADLOCK FALSE
