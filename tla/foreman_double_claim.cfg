SPECIFICATION Spec
CONSTANTS
  m1 = m1
  m2 = m2
  a = a
  b = b
  t = t
  Node <- FanInNode
  Edge <- FanInEdge
  Runner = {m1}
  Labelled <- EveryNode
  Authenticates <- EveryNode
  Modifier = {}
  AgentReport <- OneReport
  MaxConcurrentJobs = 2
  MaxConcurrentModifiers = 1
  RunnerCapacity = 1
  FailureBreakerThreshold = 1
  Refusable = {}
  Removable = {}
  EarlierFailures <- NoFailures
  Cancellable = {}
  Resettable = {}
  Unreliable = FALSE
  LateRequests = FALSE
  JobsOutliveSweep = FALSE
  MaxAttempts = 2
  MaxCrashes = 0
INVARIANTS
  ClaimedOnce
CHECK_DEADLOCK FALSE
