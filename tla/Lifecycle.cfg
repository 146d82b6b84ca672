\* One name, two incarnations of the node, behind a NodeClaim, given up on after two attempts;
\* a fault and a restart.
SPECIFICATION Spec
CONSTANTS
  Nodes = {n1}
  TaintKeys = {"startup"}
  ConfigTaints <- OneTaint
  MaxRetries = 2
  DeleteFailedNodes = TRUE
  Claimed = {n1}
  Refused = {}
  MaxTaints = 1
  MaxSeconds = 2
  MaxIncarnations = 2
  MaxChanges = 0
  MaxJobLosses = 0
  MaxFaults = 1
  MaxCrashes = 1
PROPERTIES
  VerdictsAreEarned
  LifecycleSpec
CHECK_DEADLOCK FALSE
