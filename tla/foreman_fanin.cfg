SPECIFICATION Spec
CONSTANTS
  m1 = m1
  m2 = m2
  a = a
  b = b
  t = t
  Node <- FanInNode
  Edge <- FanInEdge
  Runner = {m1}
  Labelled <- EveryNode
  Authenticates <- EveryNode
  Modifier = {}
  AgentReport <- ReviewReports
  MaxConcurrentJobs = 2
  MaxConcurrentModifiers = 1
  RunnerCapacity = 1
  FailureBreakerThreshold = 1
  Refusable = {a, b}
  Removable = {}
  EarlierFailures <- NoFailures
  Cancellable = {}
  Resettable = {}
  Unreliable = FALSE
  LateRequests = FALSE
  JobsOutliveSweep = FALSE
  MaxAttempts = 2
  MaxCrashes = 0
INVARIANTS
  GradeIsEarned
  DependenciesFirst
PROPERTIES
  RefinesContract
SYMMETRY Reviewers
CHECK_DEADLOCK FALSE
