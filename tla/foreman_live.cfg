SPECIFICATION FairSpec
CONSTANTS
  m1 = m1
  m2 = m2
  a = a
  b = b
  t = t
  Node <- PairNode
  Edge <- PairEdge
  Runner = {m1}
  Labelled <- EveryNode
  Authenticates <- EveryNode
  Modifier = {}
  AgentReport <- SomeReports
  MaxConcurrentJobs = 2
  MaxConcurrentModifiers = 1
  RunnerCapacity = 1
  FailureBreakerThreshold = 1
  Refusable = {t}
  Removable = {}
  EarlierFailures <- NoFailures
  Cancellable = {}
  Resettable = {}
  Unreliable = TRUE
  LateRequests = FALSE
  JobsOutliveSweep = FALSE
  MaxAttempts = 1
  MaxCrashes = 0
PROPERTIES
  EveryClaimEnds
  CycleEnds
CHECK_DEADLOCK FALSE
