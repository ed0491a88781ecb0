------------------------------ MODULE Sources ------------------------------
(***************************************************************************)
(* Ticket sources: server/foreman/sources.ts, the interval of              *)
(* server/main.ts that drives it, and server/source-health.ts, which reads *)
(* the ledger the polls write.                                             *)
(*                                                                         *)
(* An instant is kept as its age, in minutes, and every age stops growing  *)
(* at Old, so that time goes on for ever in finitely many states.          *)
(***************************************************************************)
EXTENDS Naturals, Sequences, FiniteSets

CONSTANTS
  Plane,         \* control planes over one database
  Source,        \* rows of `sources`, all of one project
  Ticket,        \* Linear's issues
  Remote,        \* Remote[s]: the tickets Linear's side of s's filter lets through
  Unparseable,   \* sources whose stored config this build cannot read
  Kind,          \* the kinds of failure a poll may meet
  PollMinutes,   \* cadence
  MaxPerPoll, PageSize, MaxPages,
  SilentAfter,   \* SILENT_AFTER_MS
  Old,           \* bound: ages beyond this are one age
  MaxSourceFault, \* bound: failures, throws and crashes
  MaxEdit        \* bound: edits of tickets

ASSUME SourcesAssumption ==
  /\ PollMinutes \in Nat \ {0} /\ MaxPerPoll \in Nat \ {0}
  /\ PageSize \in Nat \ {0} /\ MaxPages \in Nat \ {0}
  /\ MaxSourceFault \in Nat /\ MaxEdit \in Nat /\ SilentAfter \in Nat
  /\ Old \in Nat /\ Old > SilentAfter /\ Old > 3 * PollMinutes + 1
  /\ Kind \subseteq {"auth", "local", "transport", "ratelimited"}
  /\ Remote \in [Source -> SUBSET Ticket]

VARIABLES
  source,     \* the rows: enabled, and how long ago lastPolledAt was
  updated,    \* Linear: updated[t] orders the tickets, the most recent highest
  open,       \* Linear: the tickets the deterministic filter admits
  loop,       \* per control plane: the pass of pollSources in flight
  emission,   \* the ledger source_emissions
  ledger,     \* what source_polls says of each source
  sourceFaults, \* failures, throws and crashes so far
  started,    \* observation: cycle runs started for a ticket
  owed        \* observation: polls of a source that were claimed and have no row

sourcesVars == <<source, updated, open, loop, emission, ledger, sourceFaults, started, owed>>

Age == 0 .. Old
Older(a) == IF a < Old THEN a + 1 ELSE Old
Outcome == {"ok", "refused", "failed"}
NoRowYet == [outcome |-> "none", kind |-> "none", age |-> Old]
Unset == [ever |-> FALSE, age |-> 0]
Seen(a) == [ever |-> TRUE, age |-> a]

\* What pollSource holds between two awaits.
NoPoll == [stage |-> "none", source |-> CHOOSE s \in Source : TRUE, age |-> 0,
           pages |-> 0, cursor |-> 0, list |-> << >>, admitted |-> FALSE,
           outcome |-> "ok", kind |-> "none"]
NoPass == [busy |-> FALSE, age |-> 0, todo |-> {}, unchanged |-> {}, poll |-> NoPoll]

SourcesTypeOK ==
  /\ source \in [Source -> [enabled : BOOLEAN, ever : BOOLEAN, age : Age]]
  /\ updated \in [Ticket -> Nat] /\ open \subseteq Ticket
  /\ \A v \in Plane : /\ loop[v].todo \subseteq Source /\ loop[v].age \in Age
                       /\ loop[v].poll.list \in Seq(Ticket)
  /\ emission \in [Ticket -> {"none", "emitted", "linked", "failed"}]
  /\ \A s \in Source : ledger[s].last.outcome \in Outcome \cup {"none"}
  /\ sourceFaults \in 0 .. MaxSourceFault
  /\ started \in [Ticket -> Nat] /\ owed \in [Source -> Nat]

SourcesInit ==
  /\ source \in [Source -> [enabled : BOOLEAN, ever : {FALSE}, age : {0}]]
  /\ updated = CHOOSE f \in [Ticket -> 1 .. Cardinality(Ticket)] :
                   \A t, u \in Ticket : f[t] = f[u] => t = u
  /\ open = Ticket
  /\ loop = [v \in Plane |-> NoPass]
  /\ emission = [t \in Ticket |-> "none"]
  /\ ledger = [s \in Source |->
       [last |-> NoRowYet, ok |-> Unset, first |-> Unset, admitted |-> Unset]]
  /\ sourceFaults = 0
  /\ started = [t \in Ticket |-> 0]
  /\ owed = [s \in Source |-> 0]

-----------------------------------------------------------------------------
(* The pass: pollSources.                                                  *)

Poll(v) == loop[v].poll
PassAt(v, stage) == loop[v].busy /\ Poll(v).stage = stage
PassOn(v, poll) == loop' = [loop EXCEPT ![v].poll = poll]
Goto(v, stage) == loop' = [loop EXCEPT ![v].poll.stage = stage]
SourceFault == sourceFaults < MaxSourceFault /\ sourceFaults' = sourceFaults + 1

IsDueRow(s) == ~source[s].ever \/ source[s].age > PollMinutes

\* One select of the enabled rows.  A row that does not parse is passed over
\* without a trace; one that is not due by the pass's clock loses the claim.
PassRead(v) ==
  /\ ~loop[v].busy
  /\ LET todo == {s \in Source \ Unparseable : source[s].enabled /\ IsDueRow(s)}
     IN  /\ todo # {}
         /\ loop' = [loop EXCEPT ![v] =
              [busy |-> TRUE, age |-> 0, todo |-> todo, unchanged |-> todo, poll |-> NoPoll]]
  /\ UNCHANGED <<source, updated, open, emission, ledger, sourceFaults, started, owed>>

\* The claim: lastPolledAt moves to the pass's clock if it is still what the
\* pass read.
ClaimPoll(v, s) ==
  /\ PassAt(v, "none") /\ s \in loop[v].todo
  /\ IF s \in loop[v].unchanged
     THEN /\ source' = [source EXCEPT ![s] =
               [enabled |-> source[s].enabled, ever |-> TRUE, age |-> loop[v].age]]
          /\ loop' = [w \in Plane |->
               IF w = v
               THEN [loop[v] EXCEPT !.todo = @ \ {s},
                       !.poll = [NoPoll EXCEPT !.stage = "check", !.source = s]]
               ELSE [loop[w] EXCEPT !.unchanged = @ \ {s}]]
          /\ owed' = [owed EXCEPT ![s] = @ + 1]
     ELSE /\ loop' = [loop EXCEPT ![v].todo = @ \ {s}]
          /\ UNCHANGED <<source, owed>>
  /\ UNCHANGED <<updated, open, emission, ledger, sourceFaults, started>>

PassDone(v) ==
  /\ PassAt(v, "none") /\ loop[v].todo = {}
  /\ loop' = [loop EXCEPT ![v] = NoPass]
  /\ UNCHANGED <<source, updated, open, emission, ledger, sourceFaults, started, owed>>

-----------------------------------------------------------------------------
(* One poll: pollSource.                                                   *)

\* The cycle, its entry node, the project and the credential are looked up ...
Checked(v) ==
  /\ PassAt(v, "check")
  /\ Goto(v, "read")
  /\ UNCHANGED <<source, updated, open, emission, ledger, sourceFaults, started, owed>>

PollEnds(v, outcome, kind) ==
  PassOn(v, [Poll(v) EXCEPT !.stage = "record", !.outcome = outcome, !.kind = kind,
                        !.admitted = FALSE])

\* ... or one is missing, or the grant could not be renewed.
Refused(v) ==
  /\ PassAt(v, "check") /\ SourceFault /\ PollEnds(v, "refused", "none")
  /\ UNCHANGED <<source, updated, open, emission, ledger, started, owed>>

LinearFails(v, kind) ==
  /\ PassAt(v, "check") \/ PassAt(v, "read")
  /\ SourceFault /\ PollEnds(v, "failed", kind)
  /\ UNCHANGED <<source, updated, open, emission, ledger, started, owed>>

\* The tickets of a page, the most recently updated first, past the cursor.
Beyond(s, cursor) == {t \in Remote[s] : cursor = 0 \/ updated[t] < cursor}
ByRecency(ts) ==
  CHOOSE q \in [1 .. Cardinality(ts) -> ts] :
    \A i, j \in 1 .. Cardinality(ts) : i < j => updated[q[i]] > updated[q[j]]
Page(s, cursor) ==
  LET all == ByRecency(Beyond(s, cursor))
  IN  SubSeq(all, 1, IF Len(all) < PageSize THEN Len(all) ELSE PageSize)

\* A page is read and its tickets put through the filter; the last page, or
\* the one maxPages allows last, ends the read.
ReadPage(v) ==
  /\ PassAt(v, "read")
  /\ LET p == Poll(v)
         page == Page(p.source, p.cursor)
         more == Len(page) < Cardinality(Beyond(p.source, p.cursor))
         admitted == SelectSeq(page, LAMBDA t : t \in open)
     IN  PassOn(v, [p EXCEPT !.pages = @ + 1,
                         !.stage = IF more /\ p.pages + 1 < MaxPages THEN "read" ELSE "known",
                         !.cursor = IF page = << >> THEN @ ELSE updated[page[Len(page)]],
                         !.list = @ \o admitted,
                         !.admitted = @ \/ admitted # << >>])
  /\ UNCHANGED <<source, updated, open, emission, ledger, sourceFaults, started, owed>>

\* Mutant: the cap is applied before what is known is taken out.
TakingCapped(list) ==
  LET capped == SubSeq(list, 1, IF Len(list) < MaxPerPoll THEN Len(list) ELSE MaxPerPoll)
  IN  SelectSeq(capped, LAMBDA t : emission[t] = "none")

\* What was emitted already is taken out before the cap is applied.
Taking(list) ==
  LET fresh == SelectSeq(list, LAMBDA t : emission[t] = "none")
  IN  SubSeq(fresh, 1, IF Len(fresh) < MaxPerPoll THEN Len(fresh) ELSE MaxPerPoll)

ReadKnown(v) ==
  /\ PassAt(v, "known")
  /\ PassOn(v, [Poll(v) EXCEPT !.stage = "emit", !.list = Taking(Poll(v).list)])
  /\ UNCHANGED <<source, updated, open, emission, ledger, sourceFaults, started, owed>>

\* emit: the row is the claim on a ticket, whichever source and whoever it was.
NextTicket(v) == Head(Poll(v).list)
Dropped(v, stage) == [Poll(v) EXCEPT !.stage = stage, !.list = Tail(@)]

\* Mutant: a row that is there already claims the ticket again.
ClaimTicketAnyway(v) ==
  /\ PassAt(v, "emit") /\ Poll(v).list # << >>
  /\ emission' = [emission EXCEPT ![NextTicket(v)] = "emitted"]
  /\ Goto(v, "start")
  /\ UNCHANGED <<source, updated, open, ledger, sourceFaults, started, owed>>

ClaimTicket(v) ==
  /\ PassAt(v, "emit") /\ Poll(v).list # << >>
  /\ IF emission[NextTicket(v)] = "none"
     THEN /\ emission' = [emission EXCEPT ![NextTicket(v)] = "emitted"]
          /\ Goto(v, "start")
     ELSE /\ PassOn(v, Dropped(v, "emit"))
          /\ UNCHANGED emission
  /\ UNCHANGED <<source, updated, open, ledger, sourceFaults, started, owed>>

BeginCycle(v) ==
  /\ PassAt(v, "start")
  /\ started' = [started EXCEPT ![NextTicket(v)] = @ + 1]
  /\ Goto(v, "link")
  /\ UNCHANGED <<source, updated, open, emission, ledger, sourceFaults, owed>>

LinkCycle(v) ==
  /\ PassAt(v, "link")
  /\ emission' = [emission EXCEPT ![NextTicket(v)] = "linked"]
  /\ PassOn(v, Dropped(v, "emit"))
  /\ UNCHANGED <<source, updated, open, ledger, sourceFaults, started, owed>>

\* startCycleRun throws, or the update behind it does: one catch for both.
EmitThrows(v) ==
  /\ PassAt(v, "start") \/ PassAt(v, "link")
  /\ SourceFault
  /\ Goto(v, "fail")
  /\ UNCHANGED <<source, updated, open, emission, ledger, started, owed>>

FailEmission(v) ==
  /\ PassAt(v, "fail")
  /\ emission' = [emission EXCEPT ![NextTicket(v)] = "failed"]
  /\ PassOn(v, Dropped(v, "emit"))
  /\ UNCHANGED <<source, updated, open, ledger, sourceFaults, started, owed>>

EmitDone(v) ==
  /\ PassAt(v, "emit") /\ Poll(v).list = << >>
  /\ Goto(v, "record")
  /\ UNCHANGED <<source, updated, open, emission, ledger, sourceFaults, started, owed>>

-----------------------------------------------------------------------------
(* The ledger.                                                             *)

Newest(instant, a) == IF instant.ever /\ instant.age < a THEN instant ELSE Seen(a)
Oldest(instant, a) == IF instant.ever /\ instant.age > a THEN instant ELSE Seen(a)

InsertRow(s, outcome, kind, a, admitted) ==
  ledger' = [ledger EXCEPT ![s] =
    [last |-> IF @.last.outcome = "none" \/ a <= @.last.age
              THEN [outcome |-> outcome, kind |-> kind, age |-> a] ELSE @.last,
     ok |-> IF outcome = "ok" THEN Newest(@.ok, a) ELSE @.ok,
     first |-> Oldest(@.first, a),
     admitted |-> IF admitted THEN Newest(@.admitted, a) ELSE @.admitted]]

Record(v) ==
  /\ PassAt(v, "record")
  /\ LET p == Poll(v)
     IN  /\ InsertRow(p.source, p.outcome, p.kind, p.age, p.admitted)
         /\ owed' = [owed EXCEPT ![p.source] = @ - 1]
  /\ PassOn(v, NoPoll)
  /\ UNCHANGED <<source, updated, open, emission, sourceFaults, started>>

\* Something unforeseen escapes pollSource; pollSources writes the row itself,
\* by the pass's clock.
Unforeseen(v) ==
  /\ \E stage \in {"check", "known", "fail", "record"} : PassAt(v, stage)
  /\ SourceFault /\ Goto(v, "catch")
  /\ UNCHANGED <<source, updated, open, emission, ledger, started, owed>>

CatchRecord(v) ==
  /\ PassAt(v, "catch")
  /\ InsertRow(Poll(v).source, "failed", "none", loop[v].age, FALSE)
  /\ owed' = [owed EXCEPT ![Poll(v).source] = @ - 1]
  /\ PassOn(v, NoPoll)
  /\ UNCHANGED <<source, updated, open, emission, sourceFaults, started>>

\* A row that cannot be written even there is swallowed, and a crash writes none.
CatchSwallows(v) ==
  /\ PassAt(v, "catch") /\ SourceFault /\ PassOn(v, NoPoll)
  /\ UNCHANGED <<source, updated, open, emission, ledger, started, owed>>

PollCrash(v) ==
  /\ loop[v].busy /\ SourceFault
  /\ loop' = [loop EXCEPT ![v] = NoPass]
  /\ UNCHANGED <<source, updated, open, emission, ledger, started, owed>>

-----------------------------------------------------------------------------
(* The world: people, Linear and the clock.                                *)

Latest == CHOOSE n \in {updated[t] : t \in Ticket} : \A t \in Ticket : updated[t] <= n

EditTicket(t) ==
  /\ Latest < Cardinality(Ticket) + MaxEdit
  /\ updated' = [updated EXCEPT ![t] = Latest + 1]
  /\ open' \in {open \cup {t}, open \ {t}}
  /\ UNCHANGED <<source, loop, emission, ledger, sourceFaults, started, owed>>

\* `enabled` is edited in config.yaml and synced, which keeps lastPolledAt.
ToggleSource(s) ==
  /\ source' = [source EXCEPT ![s].enabled = ~@]
  /\ UNCHANGED <<updated, open, loop, emission, ledger, sourceFaults, started, owed>>

OlderInstant(i) == IF i.ever THEN Seen(Older(i.age)) ELSE i

MinutePasses ==
  /\ source' = [s \in Source |-> [source[s] EXCEPT !.age = Older(@)]]
  /\ loop' = [v \in Plane |->
       IF loop[v].busy
       THEN [loop[v] EXCEPT !.age = Older(@),
               !.poll.age = IF loop[v].poll.stage = "none" THEN 0 ELSE Older(@)]
       ELSE loop[v]]
  /\ ledger' = [s \in Source |->
       [last |-> [ledger[s].last EXCEPT !.age = Older(@)],
        ok |-> OlderInstant(ledger[s].ok), first |-> OlderInstant(ledger[s].first),
        admitted |-> OlderInstant(ledger[s].admitted)]]
  /\ UNCHANGED <<updated, open, emission, sourceFaults, started, owed>>

PassStep(v) ==
  \/ PassRead(v) \/ PassDone(v) \/ Checked(v) \/ ReadPage(v) \/ ReadKnown(v)
  \/ ClaimTicket(v) \/ BeginCycle(v) \/ LinkCycle(v) \/ FailEmission(v) \/ EmitDone(v)
  \/ Record(v) \/ CatchRecord(v)
  \/ \E s \in Source : ClaimPoll(v, s)

PassFault(v) ==
  \/ Refused(v) \/ EmitThrows(v) \/ Unforeseen(v) \/ CatchSwallows(v) \/ PollCrash(v)
  \/ \E kind \in Kind : LinearFails(v, kind)

SourcesNext ==
  \/ \E v \in Plane : PassStep(v) \/ PassFault(v)
  \/ \E t \in Ticket : EditTicket(t)
  \/ \E s \in Source : ToggleSource(s)
  \/ MinutePasses

SourcesSpec == SourcesInit /\ [][SourcesNext]_sourcesVars

\* The interval keeps firing, what it started runs on, and time passes.
SourcesFairness ==
  /\ \A v \in Plane : WF_sourcesVars(PassStep(v))
  /\ WF_sourcesVars(MinutePasses)

-----------------------------------------------------------------------------
(* What the health page derives: healthOf and troubledSources.             *)

OverdueAfter == IF PollMinutes * 2 > 2 THEN PollMinutes * 2 ELSE 2
QuietSince(row) == IF row.admitted.ever THEN row.admitted ELSE row.first

HealthOf(s) ==
  LET row == ledger[s]
  IN  CASE ~source[s].enabled -> "disabled"
        [] source[s].enabled /\ source[s].age > OverdueAfter -> "overdue"
        [] OTHER ->
           CASE row.last.outcome = "none" -> "never-polled"
             [] row.last.outcome = "refused" -> "refused"
             [] row.last.outcome = "failed" -> "failing"
             [] OTHER -> IF QuietSince(row).age > SilentAfter THEN "silent" ELSE "healthy"

\* How long a source has gone without an answer, as troubledSources counts it.
SinceAnswer(s) == IF ledger[s].ok.ever THEN ledger[s].ok.age ELSE ledger[s].first.age

\* Mutant: the kinds that heal by themselves are never named.
TroubledButTransport(s) ==
  \/ HealthOf(s) \in {"overdue", "refused"}
  \/ HealthOf(s) = "failing" /\ ledger[s].last.kind \notin {"transport", "ratelimited"}

Troubled(s) ==
  \/ HealthOf(s) \in {"overdue", "refused"}
  \/ /\ HealthOf(s) = "failing"
     /\ \/ ledger[s].last.kind \notin {"transport", "ratelimited"}
        \/ SinceAnswer(s) > 3 * PollMinutes

-----------------------------------------------------------------------------
(* Properties.                                                             *)

\* A ticket is claimed by its row in source_emissions before a cycle run starts
\* for it, claimed once whichever sources and control planes poll it at the same
\* time, and starts at most one cycle run, crashes and throws included (emit).
TicketContract ==
  INSTANCE AtMostOnce
    WITH Work <- Ticket, claimed <- {t \in Ticket : emission[t] # "none"}, runs <- started
TicketStartsAtMostOnce == TicketContract!Spec

\* An enabled source without an answer for more than three cadences is named by
\* troubledSources, whatever its polls met, unless a poll of it has yet to be
\* recorded (healthOf's order of states, and the patience for self-healing kinds).
TroubleIsTold ==
  \A s \in Source :
    /\ source[s].enabled /\ owed[s] = 0
    /\ IF ledger[s].first.ever THEN SinceAnswer(s) > 3 * PollMinutes
       ELSE source[s].age > 3 * PollMinutes
    => Troubled(s)

\* A ticket that stays admitted and within the pages a live source reads becomes
\* a row in the end, however many tickets are ahead of it: the cap delays, and
\* drops nothing (pollSource takes out what is known before it slices).
Within(s, t) ==
  /\ t \in Remote[s] \cap open
  /\ Cardinality({u \in Remote[s] : updated[u] > updated[t]}) < PageSize * MaxPages
BacklogDrains ==
  \A t \in Ticket :
    <>[](\E s \in Source \ Unparseable : source[s].enabled /\ Within(s, t))
      => <>(emission[t] # "none")
=============================================================================
