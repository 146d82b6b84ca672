\* One name, two incarnations, two faults and a restart; failed nodes are deleted.
SPECIFICATION FairSpec
CONSTANTS
  Nodes = {n1}
  TaintKeys = {"startup"}
  ConfigTaints <- OneTaint
  MaxRetries = 1
  DeleteFailedNodes = TRUE
  Claimed = {n1}
  Refused = {}
  MaxTaints = 1
  MaxSeconds = 1
  MaxIncarnations = 2
  MaxChanges = 0
  MaxJobLosses = 0
  MaxFaults = 2
  MaxCrashes = 1
PROPERTIES
  NewNodeGetsJob
  GoneNodeIsForgotten
  SuccessReachesNode
  DeletionEnds
CHECK_DEADLOCK FALSE
