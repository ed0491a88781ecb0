\* One machine that joins, claims and reports on its job.
SPECIFICATION FleetSpec
CONSTANTS
  Machine = {m1}
  Local = m1
  Invite = {i1}
  HostName = {n1}
  Worker = {}
  MaxRunnerRow = 1
  MaxChange = 0
INVARIANTS
  LiveRunnerIsHeard
CHECK_DEADLOCK FALSE
