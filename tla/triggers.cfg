\* What starts work from outside: schedules, ticket sources, and the Linear grant.
SPECIFICATION MCSpec
CONSTANTS
  v1 = v1
  v2 = v2
  s1 = s1
  s2 = s2
  Server = {v1, v2}
  Sync = {y}
  Cycle = {c}
  Cron = {nightly}
  Fires <- NightlyFires
  MaxTime = 3
  MaxRow = 2
  MaxCrash = 1
  Grace = 0
  StepLimit = 5
  Plane = {v1, v2}
  Source = {s1, s2}
  Ticket = {t1, t2}
  Remote <- EveryTicket
  Unparseable = {}
  Kind = {"auth", "transport"}
  PollMinutes = 1
  MaxPerPoll = 1
  PageSize = 1
  MaxPages = 2
  SilentAfter = 3
  Old = 5
  MaxSourceFault = 1
  MaxEdit = 1
  App = {"A", "B"}
  Polls = {"p", "q"}
  Flow = {"f"}
  MaxToken = 4
  MaxLinearFault = 2
INVARIANTS
  TroubleIsTold
  StoredGrantRenews
PROPERTIES
  StartsAtMostOnce
  NothingStaysDue
  TicketStartsAtMostOnce
  BacklogDrains
  StaleGrantIsRenewed
\* A connection nobody made and a source switched off wait for ever.
CHECK_DEADLOCK FALSE
