SPECIFICATION Spec
CONSTANTS
  m1 = m1
  m2 = m2
  a = a
  b = b
  t = t
  Node <- PairNode
  Edge <- PairEdge
  Runner = {m1}
  Labelled <- EveryNode
  Authenticates <- EveryNode
  Modifier = {a}
  AgentReport <- ModifierReports
  MaxConcurrentJobs = 2
  MaxConcurrentModifiers = 1
  RunnerCapacity = 1
  FailureBreakerThreshold = 2
  Refusable = {}
  Removable = {}
  EarlierFailures <- OneFailure
  Cancellable = {}
  Resettable = {a}
  Unreliable = TRUE
  LateRequests = TRUE
  JobsOutliveSweep = TRUE
  MaxAttempts = 1
  MaxCrashes = 0
INVARIANTS
  BreakerCountsRuns
  LedgerIsTrue
PROPERTIES
  OutcomeIsFinal
CHECK_DEADLOCK FALSE
