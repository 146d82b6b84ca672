\* Two nodes, and as many changes of state as it takes one of them to be
\* given up on, forgotten and found again, or both to be verified.
SPECIFICATION MetricsSpec
CONSTANTS
  Nodes = {n1, n2}
  MaxRetries = 1
  DeleteFailedNodes = TRUE
  MaxMoves = 6
INVARIANTS
  UpdaterTypeOK
  GaugesWithinUpdate
PROPERTY GaugesSettle
