SPECIFICATION FairSpec
CONSTANTS
  m1 = m1
  m2 = m2
  a = a
  b = b
  t = t
  Node <- ChainNode
  Edge <- ChainEdge
  Runner = {m1}
  Labelled <- EveryNode
  Authenticates <- EveryNode
  Modifier = {}
  AgentReport <- DeclinedOnly
  MaxConcurrentJobs = 2
  MaxConcurrentModifiers = 1
  RunnerCapacity = 1
  FailureBreakerThreshold = 1
  Refusable = {}
  Removable = {}
  EarlierFailures <- NoFailures
  Cancellable = {}
  Resettable = {}
  Unreliable = FALSE
  LateRequests = FALSE
  JobsOutliveSweep = FALSE
  MaxAttempts = 1
  MaxCrashes = 0
PROPERTIES
  CycleEnds
CHECK_DEADLOCK FALSE
