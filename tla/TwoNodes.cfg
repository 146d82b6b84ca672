\* Two nodes share the worker and the queue; one has no valid job name; a lost job
\* and a restart.
SPECIFICATION FairSpec
CONSTANTS
  Nodes = {n1, n2}
  TaintKeys = {"startup"}
  ConfigTaints <- OneTaint
  MaxRetries = 1
  DeleteFailedNodes = FALSE
  Claimed = {}
  Refused = {n2}
  MaxTaints = 1
  MaxSeconds = 1
  MaxIncarnations = 2
  MaxChanges = 0
  MaxJobLosses = 1
  MaxFaults = 0
  MaxCrashes = 1
PROPERTIES
  NewNodeGetsJob
  RefusedJobIsRetried
CHECK_DEADLOCK FALSE
