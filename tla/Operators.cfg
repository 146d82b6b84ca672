\* Every triple of lists of at most three keys, of three that there are; attempts to where
\* every bit has left the word; configurations of a taint and an extra toleration.
SPECIFICATION Spec
CONSTANTS
  TaintKeys = {"startup", "agent", "network"}
  MaxLen = 3
  MaxAttempts = 70
  Configurations <- SmallConfigurations
  TaintValues = {"", "v"}
INVARIANTS
  ExactInReverseOrderOnly
  EveryOperationRemovesOne
  FollowsSchedule
  OverflowSkipsPauses
  WorkerReachesItsNode
  TolerationsReadAsInPods
CHECK_DEADLOCK FALSE
