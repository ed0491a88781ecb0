SPECIFICATION FairSpec
CONSTANTS
  m1 = m1
  m2 = m2
  a = a
  b = b
  t = t
  Node = {a, b}
  Edge <- NoEdge
  Runner = {m1, m2}
  Labelled <- EveryNode
  Authenticates <- EveryNode
  Modifier = {}
  AgentReport <- OneReport
  MaxConcurrentJobs = 1
  MaxConcurrentModifiers = 1
  RunnerCapacity = 2
  FailureBreakerThreshold = 1
  Refusable = {}
  Removable = {a}
  EarlierFailures <- NoFailures
  Cancellable = {b}
  Resettable = {}
  Unreliable = FALSE
  LateRequests = FALSE
  JobsOutliveSweep = FALSE
  MaxAttempts = 1
  MaxCrashes = 1
INVARIANTS
  CapPerRunner
PROPERTIES
  LedgerCatchesUp
CHECK_DEADLOCK FALSE
