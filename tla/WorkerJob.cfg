\* Two domains; a version request that may outlast the timeout of its check;
\* a run whose deadline falls within the checks; one thing that breaks; a
\* second pod after a failed one, and up to two pods that are to succeed.
SPECIFICATION JobSpec
CONSTANTS
  Domains = 2
  CheckTimeout = 1
  DiscoveryTimeout = 2
  RunTimeout = 3
  MaxBreaks = 1
  BackoffLimit = 1
  MaxCompletions = 2
INVARIANTS
  JobTypeOK
  SuccessIsEarned
  PassIsEarned
  DisagreementsAreExplained
PROPERTIES
  CancelledRunFails
  JobEnds
  JobLifecycleSpec
\* The job ends.
CHECK_DEADLOCK FALSE
