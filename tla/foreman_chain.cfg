SPECIFICATION Spec
CONSTANTS
  m1 = m1
  m2 = m2
  a = a
  b = b
  t = t
  Node <- ChainNode
  Edge <- ChainEdge
  Runner = {m1, m2}
  Labelled <- EveryNode
  Authenticates <- EveryNode
  Modifier = {}
  AgentReport <- SomeReports
  MaxConcurrentJobs = 2
  MaxConcurrentModifiers = 1
  RunnerCapacity = 1
  FailureBreakerThreshold = 1
  Refusable = {}
  Removable = {}
  EarlierFailures <- NoFailures
  Cancellable = {}
  Resettable = {}
  Unreliable = TRUE
  LateRequests = FALSE
  JobsOutliveSweep = FALSE
  MaxAttempts = 2
  MaxCrashes = 0
INVARIANTS
  EdgesHold
  DeclineHidesNoFailure
SYMMETRY Machines
CHECK_DEADLOCK FALSE
