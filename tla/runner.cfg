\* One runner: rounds of a job, publishing, events, the sandbox and gateway of the
\* process, and the cached credential.
SPECIFICATION MCSpec
CONSTANTS
  j1 = j1
  j2 = j2
  j3 = j3
  Order <- Orders
  Timeout = 7
  MaxRounds = 2
  Longest = 7
  Leavings <- TidyOrNot
  Run = {j1, j2, j3}
  Outsider = {o1}
  Slots = 2
  MaxOpen = 1
  ListLimit = 4
  MaxLoss = 1
  MaxEvent = 2
  MaxFailure = 2
  HostRun = {j1, j2, j3}
  Walled <- WalledJobs
  PollTick = {t1, t2}
  Wire = {c1}
  MaxConcurrent = 1
  MaxLeft = 1
  MaxIssued = 3
  Starter = {p1, p2, p3}
  p3 = p3
  MaxPair = 4
  MaxKilled = 2
INVARIANTS
  ReportedWorkWasJudged
  OnlyHiddenOutputInAPatch
  NothingUnheardOf
  CapHoldsUpToTheSlots
  OnlyTheLastFlushLoses
  NothingOutlivesItsJob
  CapacityUpToTheOverlap
  ServedIsTrusted
PROPERTIES
  SecondGateIsNotStarved
  TimelineUpToTheEndIsShown
  RenewalReachesTheSandbox
\* A machine that exited, a run that is over and a page that closed stop for good.
CHECK_DEADLOCK FALSE
