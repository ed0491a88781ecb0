\* Two machines enrol, claim, and say what they can run.
SPECIFICATION MCSpec
CONSTANTS
  m1 = m1
  m2 = m2
  n1 = n1
  n2 = n2
  i1 = i1
  i2 = i2
  Machine = {m1, m2}
  Local = m1
  Invite = {i1, i2}
  HostName = {n1, n2}
  Worker <- Modifiers
  MaxRunnerRow = 2
  MaxChange = 2
INVARIANTS
  OneMachinePerInvite
  ClaimsAreOnesOwn
PROPERTIES
  NobodyIsRefusedForGood
\* Invites, rows and changes run out.
CHECK_DEADLOCK FALSE
