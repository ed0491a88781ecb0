------------------------------- MODULE Foreman -------------------------------
(***************************************************************************)
(* One cycle run, from the trigger that creates it to the grade that ends   *)
(* it: the foreman of the control plane (server/src/foreman), the routes    *)
(* runners call (server/src/routes/jobs.ts, runs.ts) and, as far as the     *)
(* control plane can tell, the runners themselves.                          *)
(*                                                                         *)
(* Every handler is cut where the code awaits: two requests, the sweep and  *)
(* a cancel interleave between the statements of one another, because they  *)
(* share one event loop and one database.  A transaction, and a single SQL  *)
(* statement, is one step.                                                  *)
(***************************************************************************)
EXTENDS Naturals, FiniteSets

CONSTANTS
  Node,                 \* node keys of the frozen definition: one job, one worker each
  Edge,                 \* its edges, records [from, to, onDepFailure]
  Runner,               \* machines that poll for work
  Labelled,             \* Labelled[m]: nodes whose requirements m's labels contain
  Authenticates,        \* Authenticates[m]: nodes whose credential m reports alive
  Modifier,             \* nodes whose worker has the modifier profile
  AgentReport,          \* what a pipeline that ran to its end may report
  MaxConcurrentJobs,    \* the machine-wide cap
  MaxConcurrentModifiers, \* the project's cap
  RunnerCapacity,       \* free slots a polling runner may announce, at most
  FailureBreakerThreshold,
  Refusable,            \* nodes admission may refuse
  Removable,            \* nodes whose worker may be taken out of config.yaml
  Cancellable,          \* nodes somebody may cancel
  Resettable,           \* nodes whose worker's breaker somebody may reset
  Unreliable,           \* TRUE: runners die, answers get lost
  LateRequests,         \* TRUE: a request may land after its sender gave up on it
  JobsOutliveSweep,     \* TRUE: a live job may be older than the sweep's cutoff
  EarlierFailures,      \* failures of the node's worker before this cycle run
  MaxAttempts,          \* bound: claims of one job
  MaxCrashes            \* bound: control plane restarts

OnDepFailure == {"block", "degrade"}
NonTerminal == {"blocked", "queued", "claimed", "running"}
TerminalStates == {"succeeded", "failed", "skipped"}
JobStates == NonTerminal \cup TerminalStates
InFlightStates == {"claimed", "running"}
RunOutcomes ==
  {"approved", "changes-requested", "skipped", "dispatched", "declined", "error"}
CycleStates == {"running", "complete", "degraded", "declined", "failed"}
CoverageOutcomes ==
  {"pending", "found", "clean", "changed", "declined", "gate-failed", "errored",
   "refused", "blocked", "cancelled", "abandoned"}

\* What a report says that the foreman tells apart: the outcome the runner
\* claims, whether a gate failed, whether there are findings, whether the tree
\* changed.
RunReport ==
  [outcome : RunOutcomes, gateFailed : BOOLEAN, found : BOOLEAN, change : BOOLEAN]

ErrorReport ==
  [outcome |-> "error", gateFailed |-> FALSE, found |-> FALSE, change |-> FALSE]
RefusalReport ==
  [outcome |-> "skipped", gateFailed |-> FALSE, found |-> FALSE, change |-> FALSE]
\* A modifier whose work cannot be carried out of its sandbox.
UnextractableReport == [ErrorReport EXCEPT !.change = TRUE]
LastReports == {ErrorReport, RefusalReport, UnextractableReport}

ASSUME GraphAssumption ==
  /\ IsFiniteSet(Node)
  /\ Edge \subseteq [from : Node, to : Node, onDepFailure : OnDepFailure]
ASSUME FleetAssumption ==
  /\ Labelled \in [Runner -> SUBSET Node]
  /\ Authenticates \in [Runner -> SUBSET Node]
  /\ Modifier \subseteq Node
\* executeJob reports one of three outcomes for a pipeline that ran to its end;
\* `error` and `skipped` come from fail and refuse, `changes-requested` from the
\* foreman alone.
ASSUME ReportAssumption ==
  AgentReport \subseteq
    {rep \in RunReport : rep.outcome \in {"approved", "dispatched", "declined"}}
ASSUME BoundAssumption ==
  /\ {MaxConcurrentJobs, MaxConcurrentModifiers, RunnerCapacity} \subseteq Nat
  /\ {FailureBreakerThreshold, MaxAttempts} \subseteq Nat \ {0}
  /\ MaxCrashes \in Nat
  /\ EarlierFailures \in [Node -> 0 .. FailureBreakerThreshold - 1]
ASSUME EnvironmentAssumption ==
  /\ Refusable \cup Removable \cup Cancellable \cup Resettable \subseteq Node
  /\ {Unreliable, LateRequests, JobsOutliveSweep} \subseteq BOOLEAN

\* A run row is named by its job and by the claim that inserted it: every claim
\* of a job increments jobs.attempts and inserts at most one run.
Run == Node \X (1 .. MaxAttempts)

VARIABLES
  \* --- Postgres
  cycle,        \* cycle_runs.state, or "none" before the trigger fires
  jobState,     \* jobs.state, or "none"
  attempts,     \* jobs.attempts
  outcome,      \* runs.outcome: "absent" (no row), "open" (null) or a RunOutcome
  changes,      \* a run's row of `changes`: "none", "unpublished" or "published"
  coverage,     \* coverage.outcome, or "none"
  orphaned,     \* nodes whose worker row is gone: jobs.worker_id is null
  breakers,     \* nodes whose worker has a row of breakers
  failures,     \* breakers.consecutive_failures of the node's worker
  opened,       \* breakers.opened_at is not null
  \* --- handlers in flight in the control plane; lost when it restarts
  poll,         \* POST /jobs/claim, per runner
  walk,         \* what finalizeRun does after its transaction, per run
  sweep,        \* sweepStaleClaims
  reconcile,    \* reconcileCoverage: ledger rows selected and not yet updated
  cancelling,   \* POST /jobs/:id/cancel: jobs moved, ledger not yet told
  removing,     \* `ogun project sync` removing a worker: "no", "mark" or "delete"
  \* --- runners and the network
  agent,        \* how far executeJob is with a run
  starting,     \* POST /runs/:id/started requests in flight
  reports,      \* POST /runs/:id/report requests in flight
  prs,          \* runs whose draft pull request exists on GitHub
  \* --- bound and observation
  crashes,      \* control plane restarts so far
  settled       \* nodes whose job has been terminal at some time

jobVars == <<jobState, settled>>
runVars == <<outcome, changes>>
workerVars == <<orphaned, breakers, failures, opened>>
dbVars == <<cycle, jobVars, attempts, runVars, coverage, workerVars>>
withdrawVars == <<cancelling, removing>>
handlerVars == <<poll, walk, sweep, reconcile, withdrawVars>>
netVars == <<agent, starting, reports, prs>>
vars == <<dbVars, handlerVars, netVars, crashes>>

-----------------------------------------------------------------------------
(* The graph and what is read off it. *)

Incoming(n) == {e \in Edge : e.to = n}
HasRun(n) == {r \in Run : r[1] = n /\ outcome[r] # "absent"}
Finished(r) == outcome[r] \in RunOutcomes
InFlight == {n \in Node : jobState[n] \in InFlightStates}

\* declinedNodes: from runs, because jobs.state does not carry it.
DeclinedNodes == {n \in Node : \E r \in HasRun(n) : outcome[r] = "declined"}

\* Mutants: one ended dependency is enough; a dependency must have succeeded to count.
ReleasableOnAny(seen) ==
  {n \in Node : /\ seen[n] = "blocked"
                /\ Incoming(n) = {} \/ \E e \in Incoming(n) : seen[e.from] \in TerminalStates}
ReleasableOnSuccess(seen) ==
  {n \in Node : /\ seen[n] = "blocked"
                /\ \A e \in Incoming(n) : seen[e.from] = "succeeded"}

\* A blocked job whose dependencies are all terminal in the rows just read.
Releasable(seen) ==
  {n \in Node : /\ seen[n] = "blocked"
                /\ \A e \in Incoming(n) : seen[e.from] \in TerminalStates}

\* Mutant: a decline is left to the edge.
BlockedByEdgeOnly(n, seen, declined) ==
  {e \in Incoming(n) : seen[e.from] # "succeeded" /\ e.onDepFailure = "block"}

\* The dependencies that keep a releasable job from running: not succeeded, and
\* either the edge blocks or the dependency declined the work.
BlockedBy(n, seen, declined) ==
  {e \in Incoming(n) : /\ seen[e.from] # "succeeded"
                       /\ \/ e.onDepFailure = "block"
                          \/ e.from \in declined}

\* Mutant: a decline hides a failure.
GradeOfDeclineFirst(seen, declined) ==
  IF \A n \in Node : seen[n] = "succeeded" THEN "complete"
  ELSE IF declined # {} THEN "declined"
  ELSE "degraded"

\* finalizeCycleIfDone's grade of a run whose jobs are all terminal.
GradeOf(seen, declined) ==
  LET In(s) == {n \in Node : seen[n] = s}
  IN  IF In("succeeded") = Node THEN "complete"
      ELSE IF In("failed") = {} /\ declined # {} THEN "declined"
      ELSE IF In("succeeded") # {} THEN "degraded"
      ELSE "failed"

-----------------------------------------------------------------------------
(* What finalizeRun derives from a report. *)

\* The gate decides: a failed gate withdraws every claim of success.
DerivedOutcome(rep) ==
  IF rep.gateFailed /\ rep.outcome \in {"approved", "dispatched", "declined"}
  THEN "changes-requested"
  ELSE rep.outcome

JobStateOf(o) ==
  IF o \in {"approved", "dispatched"} THEN "succeeded"
  ELSE IF o \in {"skipped", "declined"} THEN "skipped"
  ELSE "failed"

\* Mutant: the gate is not asked.
CoverageOfUngated(rep) ==
  CASE rep.outcome = "error" -> "errored"
    [] rep.outcome = "skipped" -> "refused"
    [] rep.outcome = "declined" -> "declined"
    [] rep.outcome = "dispatched" -> "changed"
    [] OTHER -> IF rep.found THEN "found" ELSE "clean"

CoverageOf(rep) ==
  LET o == DerivedOutcome(rep)
      reported == rep.found /\ o \in {"approved", "dispatched", "declined"}
  IN  CASE rep.gateFailed -> "gate-failed"
        [] ~rep.gateFailed /\ o = "error" -> "errored"
        [] ~rep.gateFailed /\ o = "skipped" -> "refused"
        [] ~rep.gateFailed /\ o = "declined" -> "declined"
        [] ~rep.gateFailed /\ o = "dispatched" -> "changed"
        [] OTHER -> IF reported THEN "found" ELSE "clean"

-----------------------------------------------------------------------------
(* Writes several handlers share. *)

\* update jobs set state = s where id = n: no condition on the state it leaves.
SetJob(n, s) ==
  /\ jobState' = [jobState EXCEPT ![n] = s]
  /\ settled' = IF s \in TerminalStates THEN settled \cup {n} ELSE settled

MarkCoverage(n, o) == coverage' = [coverage EXCEPT ![n] = o]

\* recordWorkerFailure.  The row a first failure inserts is not compared with
\* the threshold.
RecordWorkerFailure(n) ==
  /\ breakers' = breakers \cup {n}
  /\ failures' = [failures EXCEPT ![n] = @ + 1]
  /\ opened' = [opened EXCEPT ![n] =
       @ \/ (n \in breakers /\ failures[n] + 1 >= FailureBreakerThreshold)]

RecordWorkerSuccess(n) ==
  /\ breakers' = breakers \cup {n}
  /\ failures' = [failures EXCEPT ![n] = 0]
  /\ opened' = [opened EXCEPT ![n] = FALSE]

\* A failed job counts against its worker's breaker, a success or a decline
\* closes it, any other skip leaves it alone.  No worker, no breaker.
LatchBreaker(n, o) ==
  /\ UNCHANGED orphaned
  /\ \/ n \notin orphaned /\ JobStateOf(o) = "failed" /\ RecordWorkerFailure(n)
     \/ /\ n \notin orphaned /\ (JobStateOf(o) = "succeeded" \/ o = "declined")
        /\ RecordWorkerSuccess(n)
     \/ /\ n \in orphaned \/ o = "skipped"
        /\ UNCHANGED <<breakers, failures, opened>>

IdleWalk ==
  [phase |-> "idle", seen |-> [n \in Node |-> "none"], queue |-> {}, skip |-> {}, mark |-> {}]

\* Mutant: the first write is an update by id, on no condition.
ClaimsTheRunAnyway(r, rep) ==
  LET n == r[1]
      o == DerivedOutcome(rep)
  IN  /\ outcome' = [outcome EXCEPT ![r] = o]
      /\ SetJob(n, JobStateOf(o))
      /\ changes' = [changes EXCEPT ![r] = IF rep.change THEN "unpublished" ELSE @]
      /\ MarkCoverage(n, CoverageOf(rep))
      /\ LatchBreaker(n, o)
      /\ walk' = [walk EXCEPT ![r] = [IdleWalk EXCEPT !.phase = "release"]]

\* The transaction of finalizeRun.  Its first write claims the run, on the
\* condition that it has no outcome yet; whoever loses the claim writes nothing
\* and is told what is on record.  The winner goes on to walk the graph.
ClaimsTheRun(r, rep) ==
  LET n == r[1]
      o == DerivedOutcome(rep)
  IN  /\ outcome[r] = "open"
      /\ outcome' = [outcome EXCEPT ![r] = o]
      /\ SetJob(n, JobStateOf(o))
      /\ changes' = [changes EXCEPT ![r] = IF rep.change THEN "unpublished" ELSE @]
      /\ MarkCoverage(n, CoverageOf(rep))
      /\ LatchBreaker(n, o)
      /\ walk' = [walk EXCEPT ![r] = [IdleWalk EXCEPT !.phase = "release"]]

AlreadyFinalized(r) ==
  /\ Finished(r)
  /\ UNCHANGED <<jobVars, runVars, coverage, workerVars, walk>>

FinalizeRun(r, rep) == ClaimsTheRun(r, rep) \/ AlreadyFinalized(r)

-----------------------------------------------------------------------------
(* startCycleRun: one transaction writes the run, its jobs and its ledger.   *)
(* Nothing walks the graph afterwards.                                       *)

StartCycleRun ==
  /\ cycle = "none"
  /\ cycle' = "running"
  /\ \E refused \in SUBSET Refusable :
       /\ jobState' = [n \in Node |->
            CASE n \in refused -> "skipped"
              [] n \notin refused /\ Incoming(n) # {} -> "blocked"
              [] OTHER -> "queued"]
       /\ coverage' = [n \in Node |-> IF n \in refused THEN "refused" ELSE "pending"]
       /\ settled' = refused
  /\ UNCHANGED <<attempts, runVars, workerVars, handlerVars, netVars, crashes>>

-----------------------------------------------------------------------------
(* POST /jobs/claim.  The caps and the hold-backs are read first, each by a   *)
(* statement of its own; then one UPDATE takes the jobs; then a run is       *)
(* inserted per job; then the runner is answered.                            *)

IdlePoll == [phase |-> "idle", slots |-> 0, held |-> {}, ids |-> {}, out |-> {}]

Least(a, b) == IF a < b THEN a ELSE b
\* Mutant: a claimed job does not take a slot until it runs.
RemainingCapacityRunning ==
  LET running == Cardinality({n \in Node : jobState[n] = "running"})
  IN  IF running < MaxConcurrentJobs THEN MaxConcurrentJobs - running ELSE 0

RemainingCapacity ==
  IF Cardinality(InFlight) < MaxConcurrentJobs
  THEN MaxConcurrentJobs - Cardinality(InFlight)
  ELSE 0

\* modifiersOverCap: as many queued modifiers as there is room for may go, the
\* rest are held.  Jobs of one cycle run are created in one transaction and
\* share priority and createdAt, so which of them go is up to the sort.
OverCap ==
  LET queued == {n \in Modifier \ orphaned : jobState[n] = "queued"}
      running == Cardinality((Modifier \ orphaned) \cap InFlight)
      room == IF running < MaxConcurrentModifiers THEN MaxConcurrentModifiers - running ELSE 0
  IN  {held \in SUBSET queued :
         Cardinality(queued \ held) = Least(room, Cardinality(queued))}

\* jobsThisRunnerCannotAuthenticate over queuedJobRuntimes.
Unauthenticated(m) ==
  {n \in Node \ orphaned : jobState[n] = "queued"} \ Authenticates[m]

PollCount(m) ==
  /\ poll[m].phase = "idle"
  /\ \E capacity \in 1 .. RunnerCapacity :
       LET slots == Least(capacity, RemainingCapacity)
       IN  /\ slots > 0
           /\ poll' = [poll EXCEPT ![m] = [IdlePoll EXCEPT !.phase = "counted", !.slots = slots]]
  /\ UNCHANGED <<dbVars, walk, sweep, reconcile, withdrawVars, netVars, crashes>>

PollHold(m) ==
  /\ poll[m].phase = "counted"
  /\ \E over \in OverCap :
       poll' = [poll EXCEPT ![m].phase = "held", ![m].held = over \cup Unauthenticated(m)]
  /\ UNCHANGED <<dbVars, walk, sweep, reconcile, withdrawVars, netVars, crashes>>

Claimable(m) ==
  {n \in Labelled[m] \ poll[m].held : jobState[n] = "queued" /\ attempts[n] < MaxAttempts}

\* The UPDATE ... FOR UPDATE SKIP LOCKED, over rows of equal priority and age.
PollClaim(m) ==
  /\ poll[m].phase = "held"
  /\ \E ids \in SUBSET Claimable(m) :
       /\ Cardinality(ids) = Least(poll[m].slots, Cardinality(Claimable(m)))
       /\ jobState' = [n \in Node |-> IF n \in ids THEN "claimed" ELSE jobState[n]]
       /\ attempts' = [n \in Node |-> IF n \in ids THEN attempts[n] + 1 ELSE attempts[n]]
       /\ poll' = [poll EXCEPT ![m] =
            [IdlePoll EXCEPT !.phase = IF ids = {} THEN "idle" ELSE "claimed",
                             !.ids = {<<n, attempts'[n]>> : n \in ids}]]
  /\ UNCHANGED <<cycle, settled, runVars, coverage, workerVars,
                 walk, sweep, reconcile, withdrawVars, netVars, crashes>>

\* A claimed job whose worker row is gone falls out of the join and gets no run.
PollInsert(m) ==
  /\ \E r \in poll[m].ids :
       IF r[1] \in orphaned
       THEN /\ poll' = [poll EXCEPT ![m].ids = @ \ {r}]
            /\ UNCHANGED outcome
       ELSE /\ outcome' = [outcome EXCEPT ![r] = "open"]
            /\ poll' = [poll EXCEPT ![m].ids = @ \ {r}, ![m].out = @ \cup {r}]
  /\ UNCHANGED <<cycle, jobVars, attempts, changes, coverage, workerVars,
                 walk, sweep, reconcile, withdrawVars, netVars, crashes>>

\* The answer reaches the runner, which starts executeJob for each job, or it
\* is lost and nobody works on them.
PollRespond(m) ==
  /\ poll[m].phase = "claimed" /\ poll[m].ids = {}
  /\ poll' = [poll EXCEPT ![m] = IdlePoll]
  /\ \/ agent' = [r \in Run |-> IF r \in poll[m].out THEN "accepted" ELSE agent[r]]
     \/ Unreliable /\ UNCHANGED agent
  /\ UNCHANGED <<dbVars, walk, sweep, reconcile, withdrawVars, starting, reports, prs, crashes>>

-----------------------------------------------------------------------------
(* executeJob, as far as the control plane is told. *)

AgentStates ==
  {"unknown", "accepted", "starting", "working", "reporting", "failing", "apologising",
   "publishing", "announcing", "done"}
Active(r) == agent[r] \notin {"unknown", "done"}

\* The first /started ends preparation; each later one follows a round of the
\* agent and carries its session id.
SendStarted(r) ==
  /\ agent[r] \in {"accepted", "working"}
  /\ agent' = [agent EXCEPT ![r] = "starting"]
  /\ starting' = starting \cup {r}
  /\ UNCHANGED <<dbVars, handlerVars, reports, prs, crashes>>

\* The route sets the job running whatever its state.
HandleStarted(r) ==
  /\ r \in starting
  /\ starting' = starting \ {r}
  /\ SetJob(r[1], "running")
  /\ agent' = IF agent[r] = "starting" THEN [agent EXCEPT ![r] = "working"] ELSE agent
  /\ UNCHANGED <<cycle, attempts, runVars, coverage, workerVars, handlerVars,
                 reports, prs, crashes>>

SendReport(r) ==
  /\ agent[r] = "working"
  /\ agent' = [agent EXCEPT ![r] = "reporting"]
  /\ \E rep \in AgentReport : reports' = reports \cup {<<r, rep>>}
  /\ UNCHANGED <<dbVars, handlerVars, starting, prs, crashes>>

\* `refuse`, before the sandbox exists; `fail`, from any throw or early return,
\* the failed delivery of an earlier report included.
SendLastReport(r) ==
  /\ \/ /\ agent[r] = "accepted"
        /\ \E rep \in {RefusalReport, ErrorReport} : reports' = reports \cup {<<r, rep>>}
     \/ /\ agent[r] = "working" /\ r[1] \in Modifier
        /\ reports' = reports \cup {<<r, UnextractableReport>>}
     \/ /\ agent[r] \in {"working", "failing"}
        /\ reports' = reports \cup {<<r, ErrorReport>>}
  /\ agent' = [agent EXCEPT ![r] = "apologising"]
  /\ UNCHANGED <<dbVars, handlerVars, starting, prs, crashes>>

\* POST /report.  The runner hears the answer, or sees its request fail and
\* reports again.  What it publishes by is the outcome on record.
Publishes(r, rep) == rep.change /\ outcome'[r] = "dispatched"

Heard(r, rep) ==
  {IF Publishes(r, rep) THEN "publishing" ELSE "done"}
    \cup (IF Unreliable THEN {"failing"} ELSE {})

HandleReport(r, rep) ==
  /\ <<r, rep>> \in reports
  /\ reports' = reports \ {<<r, rep>>}
  /\ FinalizeRun(r, rep)
  /\ \E heard \in Heard(r, rep) :
       agent' = [agent EXCEPT ![r] =
         CASE @ = "reporting" -> heard
           [] @ = "apologising" /\ rep \in LastReports -> "done"
           [] OTHER -> @]
  /\ UNCHANGED <<cycle, attempts, poll, sweep, reconcile, withdrawVars, starting, prs, crashes>>

\* publishIfReady: a draft pull request, or a refusal or failure that is only
\* noted; then POST /published, which fills in the row.
Publish(r) ==
  /\ agent[r] = "publishing"
  /\ \/ prs' = prs \cup {r} /\ agent' = [agent EXCEPT ![r] = "announcing"]
     \/ agent' = [agent EXCEPT ![r] = "done"] /\ UNCHANGED prs
  /\ UNCHANGED <<dbVars, handlerVars, starting, reports, crashes>>

HandlePublished(r) ==
  /\ agent[r] = "announcing"
  /\ agent' = [agent EXCEPT ![r] = "done"]
  /\ changes' = [changes EXCEPT ![r] =
       IF outcome[r] = "dispatched" /\ @ = "unpublished" THEN "published" ELSE @]
  /\ UNCHANGED <<cycle, jobVars, attempts, outcome, coverage, workerVars, handlerVars,
                 starting, reports, prs, crashes>>

\* The request of r in flight, if any, and what its sender does when it fails:
\* a failed /started or first report becomes an error report, a failed error
\* report is logged and dropped.  The request itself is lost, or still lands.
RequestFails(r) ==
  /\ Unreliable
  /\ \/ /\ agent[r] = "starting"
        /\ starting' \in {starting \ {r}} \cup (IF LateRequests THEN {starting} ELSE {})
        /\ agent' = [agent EXCEPT ![r] = "failing"]
        /\ UNCHANGED reports
     \/ /\ agent[r] = "announcing"
        /\ agent' = [agent EXCEPT ![r] = "done"]
        /\ UNCHANGED <<starting, reports>>
     \/ /\ agent[r] \in {"reporting", "apologising"}
        /\ reports' \in {{q \in reports : q[1] # r}} \cup (IF LateRequests THEN {reports} ELSE {})
        /\ agent' = [agent EXCEPT ![r] = IF @ = "reporting" THEN "failing" ELSE "done"]
        /\ UNCHANGED starting
  /\ UNCHANGED <<dbVars, handlerVars, prs, crashes>>

\* The machine goes away.  What it had already sent may still arrive.
RunnerDies(r) ==
  /\ Unreliable /\ Active(r)
  /\ agent' = [agent EXCEPT ![r] = "done"]
  /\ UNCHANGED <<dbVars, handlerVars, starting, reports, prs, crashes>>

-----------------------------------------------------------------------------
(* releaseDependents, then finalizeCycleIfDone: what the winner of a claim    *)
(* does once its transaction has committed.  Every decision is made from one  *)
(* read of the jobs; the writes that follow are one statement per job, on no  *)
(* condition.                                                                *)

WalkRead(r) ==
  /\ walk[r].phase = "release"
  /\ walk' = [walk EXCEPT ![r].phase = "decide", ![r].seen = jobState]
  /\ UNCHANGED <<dbVars, poll, sweep, reconcile, withdrawVars, netVars, crashes>>

WalkDecide(r) ==
  LET seen == walk[r].seen
      skip == {n \in Releasable(seen) : BlockedBy(n, seen, DeclinedNodes) # {}}
  IN  /\ walk[r].phase = "decide"
      /\ walk' = [walk EXCEPT ![r] = [IdleWalk EXCEPT !.phase = "write", !.skip = skip,
                                                     !.queue = Releasable(seen) \ skip]]
      /\ UNCHANGED <<dbVars, poll, sweep, reconcile, withdrawVars, netVars, crashes>>

WalkQueue(r, n) ==
  /\ walk[r].phase = "write" /\ walk[r].mark = {} /\ n \in walk[r].queue
  /\ SetJob(n, "queued")
  /\ walk' = [walk EXCEPT ![r].queue = @ \ {n}]
  /\ UNCHANGED <<cycle, attempts, runVars, coverage, workerVars,
                 poll, sweep, reconcile, withdrawVars, netVars, crashes>>

WalkSkip(r, n) ==
  /\ walk[r].phase = "write" /\ walk[r].mark = {} /\ n \in walk[r].skip
  /\ SetJob(n, "skipped")
  /\ walk' = [walk EXCEPT ![r].skip = @ \ {n}, ![r].mark = {n}]
  /\ UNCHANGED <<cycle, attempts, runVars, coverage, workerVars,
                 poll, sweep, reconcile, withdrawVars, netVars, crashes>>

WalkMark(r) ==
  /\ \E n \in walk[r].mark : MarkCoverage(n, "blocked")
  /\ walk' = [walk EXCEPT ![r].mark = {}]
  /\ UNCHANGED <<cycle, jobVars, attempts, runVars, workerVars,
                 poll, sweep, reconcile, withdrawVars, netVars, crashes>>

\* Mutant: nothing left to hand out counts as done.
WalkFinishEarly(r) ==
  /\ walk[r].phase = "write"
  /\ walk[r].queue \cup walk[r].skip \cup walk[r].mark = {}
  /\ walk' = [walk EXCEPT ![r] =
       IF \A n \in Node : jobState[n] \notin {"blocked", "queued"}
       THEN [IdleWalk EXCEPT !.phase = "grade", !.seen = jobState]
       ELSE IdleWalk]
  /\ UNCHANGED <<dbVars, poll, sweep, reconcile, withdrawVars, netVars, crashes>>

\* finalizeCycleIfDone reads the jobs again and gives up unless all are terminal.
WalkFinish(r) ==
  /\ walk[r].phase = "write"
  /\ walk[r].queue \cup walk[r].skip \cup walk[r].mark = {}
  /\ walk' = [walk EXCEPT ![r] =
       IF \A n \in Node : jobState[n] \in TerminalStates
       THEN [IdleWalk EXCEPT !.phase = "grade", !.seen = jobState]
       ELSE IdleWalk]
  /\ UNCHANGED <<dbVars, poll, sweep, reconcile, withdrawVars, netVars, crashes>>

WalkGrade(r) ==
  /\ walk[r].phase = "grade"
  /\ cycle' = IF cycle = "running" THEN GradeOf(walk[r].seen, DeclinedNodes) ELSE cycle
  /\ walk' = [walk EXCEPT ![r] = IdleWalk]
  /\ UNCHANGED <<jobVars, attempts, runVars, coverage, workerVars,
                 poll, sweep, reconcile, withdrawVars, netVars, crashes>>

-----------------------------------------------------------------------------
(* sweepStaleClaims: one select, then the selected rows one after another,    *)
(* each awaited to the end of its walk.  A row is a job and an un-ended run   *)
(* of it, or <<n, 0>> for a job that has no run at all.                       *)

NoSweep == [rows |-> {}, busy |-> {}]

Pending(n) == \E m \in Runner : \E r \in poll[m].ids \cup poll[m].out : r[1] = n
Live(n) ==
  \E r \in Run : /\ r[1] = n
                 /\ Active(r) \/ r \in starting \/ \E q \in reports : q[1] = r

\* Old enough to sweep.  A claim still being answered is never that old.
MayBeStale(n) ==
  /\ n \in InFlight /\ ~Pending(n)
  /\ JobsOutliveSweep \/ ~Live(n)

\* Mutant: only jobs that got as far as running are swept.
StaleRowsRunning(S) ==
  {r \in Run : r[1] \in S /\ outcome[r] = "open" /\ jobState[r[1]] = "running"}
    \cup {<<n, 0>> : n \in {n \in S : HasRun(n) = {}}}

StaleRows(S) ==
  {r \in Run : r[1] \in S /\ outcome[r] = "open"}
    \cup {<<n, 0>> : n \in {n \in S : HasRun(n) = {}}}

SweepIdle == sweep.rows = {} /\ \A r \in sweep.busy : walk[r].phase = "idle"

SweepSelect ==
  /\ SweepIdle
  /\ \E S \in SUBSET {n \in Node : MayBeStale(n)} :
       /\ StaleRows(S) # {}
       /\ sweep' = [rows |-> StaleRows(S), busy |-> {}]
  /\ UNCHANGED <<dbVars, poll, walk, reconcile, withdrawVars, netVars, crashes>>

\* A job with no run is failed outright, and nothing else is told.
SweepJob(n) ==
  /\ <<n, 0>> \in sweep.rows /\ \A r \in sweep.busy : walk[r].phase = "idle"
  /\ SetJob(n, "failed")
  /\ sweep' = [rows |-> sweep.rows \ {<<n, 0>>}, busy |-> {}]
  /\ UNCHANGED <<cycle, attempts, runVars, coverage, workerVars,
                 poll, walk, reconcile, withdrawVars, netVars, crashes>>

SweepRun(r) ==
  /\ r \in sweep.rows /\ \A b \in sweep.busy : walk[b].phase = "idle"
  /\ FinalizeRun(r, ErrorReport)
  /\ sweep' = [rows |-> sweep.rows \ {r}, busy |-> IF outcome[r] = "open" THEN {r} ELSE {}]
  /\ UNCHANGED <<cycle, attempts, poll, reconcile, withdrawVars, netVars, crashes>>

-----------------------------------------------------------------------------
(* reconcileCoverage: one select, joining jobs and ledger on the worker's     *)
(* id, then one update per selected row, by id.                              *)

\* Mutant: only failed jobs are looked at.
ReconcileSelectFailed ==
  /\ reconcile = {}
  /\ reconcile' = {n \in Node \ orphaned : coverage[n] = "pending" /\ jobState[n] = "failed"}
  /\ reconcile' # {}
  /\ UNCHANGED <<dbVars, poll, walk, sweep, withdrawVars, netVars, crashes>>

ReconcileSelect ==
  /\ reconcile = {}
  /\ reconcile' = {n \in Node \ orphaned :
                     coverage[n] = "pending" /\ jobState[n] \in TerminalStates}
  /\ reconcile' # {}
  /\ UNCHANGED <<dbVars, poll, walk, sweep, withdrawVars, netVars, crashes>>

ReconcileRow(n) ==
  /\ n \in reconcile
  /\ MarkCoverage(n, "abandoned")
  /\ reconcile' = reconcile \ {n}
  /\ UNCHANGED <<cycle, jobVars, attempts, runVars, workerVars,
                 poll, walk, sweep, withdrawVars, netVars, crashes>>

-----------------------------------------------------------------------------
(* POST /jobs/:id/cancel: a conditional update, then the ledger.  The graph   *)
(* is not walked.                                                            *)

CancelJob(n) ==
  /\ n \in Cancellable
  /\ jobState[n] = "queued"
  /\ SetJob(n, "skipped")
  /\ cancelling' = cancelling \cup {n}
  /\ UNCHANGED <<cycle, attempts, runVars, coverage, workerVars,
                 poll, walk, sweep, reconcile, removing, netVars, crashes>>

CancelMark(n) ==
  /\ n \in cancelling
  /\ MarkCoverage(n, "cancelled")
  /\ cancelling' = cancelling \ {n}
  /\ UNCHANGED <<cycle, jobVars, attempts, runVars, workerVars,
                 poll, walk, sweep, reconcile, removing, netVars, crashes>>

-----------------------------------------------------------------------------
(* A worker taken out of config.yaml: its waiting jobs are retired, the       *)
(* ledger is told, then the row is deleted and its breaker with it.          *)

RetireWorker(n) ==
  /\ n \in Removable \ orphaned
  /\ removing[n] = "no" /\ cycle # "none"
  /\ IF jobState[n] \in {"queued", "blocked"}
     THEN SetJob(n, "skipped") /\ removing' = [removing EXCEPT ![n] = "mark"]
     ELSE UNCHANGED jobVars /\ removing' = [removing EXCEPT ![n] = "delete"]
  /\ UNCHANGED <<cycle, attempts, runVars, coverage, workerVars,
                 poll, walk, sweep, reconcile, cancelling, netVars, crashes>>

RetireMark(n) ==
  /\ removing[n] = "mark"
  /\ MarkCoverage(n, "cancelled")
  /\ removing' = [removing EXCEPT ![n] = "delete"]
  /\ UNCHANGED <<cycle, jobVars, attempts, runVars, workerVars,
                 poll, walk, sweep, reconcile, cancelling, netVars, crashes>>

DeleteWorker(n) ==
  /\ removing[n] = "delete"
  /\ removing' = [removing EXCEPT ![n] = "no"]
  /\ orphaned' = orphaned \cup {n}
  /\ breakers' = breakers \ {n}
  /\ failures' = [failures EXCEPT ![n] = 0]
  /\ opened' = [opened EXCEPT ![n] = FALSE]
  /\ UNCHANGED <<cycle, jobVars, attempts, runVars, coverage,
                 poll, walk, sweep, reconcile, cancelling, netVars, crashes>>

-----------------------------------------------------------------------------
\* POST /workers/:id/breaker/reset
ResetBreaker(n) ==
  /\ n \in Resettable
  /\ failures[n] > 0
  /\ failures' = [failures EXCEPT ![n] = 0]
  /\ opened' = [opened EXCEPT ![n] = FALSE]
  /\ UNCHANGED <<cycle, jobVars, attempts, runVars, coverage, orphaned, breakers,
                 handlerVars, netVars, crashes>>

\* The control plane stops between two statements and starts again: what was
\* committed stays, every handler in flight is gone.
Restart ==
  /\ crashes < MaxCrashes
  /\ crashes' = crashes + 1
  /\ poll' = [m \in Runner |-> IdlePoll]
  /\ walk' = [r \in Run |-> IdleWalk]
  /\ sweep' = NoSweep
  /\ reconcile' = {}
  /\ cancelling' = {}
  /\ removing' = [n \in Node |-> "no"]
  /\ UNCHANGED <<dbVars, netVars>>

-----------------------------------------------------------------------------
Init ==
  /\ cycle = "none"
  /\ jobState = [n \in Node |-> "none"]
  /\ attempts = [n \in Node |-> 0]
  /\ outcome = [r \in Run |-> "absent"]
  /\ changes = [r \in Run |-> "none"]
  /\ coverage = [n \in Node |-> "none"]
  /\ orphaned = {}
  /\ breakers = {n \in Node : EarlierFailures[n] > 0}
  /\ failures = EarlierFailures
  /\ opened = [n \in Node |-> FALSE]
  /\ poll = [m \in Runner |-> IdlePoll]
  /\ walk = [r \in Run |-> IdleWalk]
  /\ sweep = NoSweep
  /\ reconcile = {}
  /\ cancelling = {}
  /\ removing = [n \in Node |-> "no"]
  /\ agent = [r \in Run |-> "unknown"]
  /\ starting = {}
  /\ reports = {}
  /\ prs = {}
  /\ crashes = 0
  /\ settled = {}

PollStep(m) ==
  PollCount(m) \/ PollHold(m) \/ PollClaim(m) \/ PollInsert(m) \/ PollRespond(m)

WalkStep(r) ==
  \/ WalkRead(r) \/ WalkDecide(r) \/ WalkMark(r) \/ WalkFinish(r) \/ WalkGrade(r)
  \/ \E n \in Node : WalkQueue(r, n) \/ WalkSkip(r, n)

SweepStep ==
  SweepSelect \/ (\E n \in Node : SweepJob(n)) \/ (\E r \in Run : SweepRun(r))

ReconcileStep == ReconcileSelect \/ \E n \in Node : ReconcileRow(n)

RunStep(r) ==
  \/ SendStarted(r) \/ HandleStarted(r) \/ SendReport(r) \/ SendLastReport(r)
  \/ \E q \in reports : q[1] = r /\ HandleReport(r, q[2])
  \/ Publish(r) \/ HandlePublished(r)
  \/ RequestFails(r) \/ RunnerDies(r)

Next ==
  \/ StartCycleRun
  \/ \E m \in Runner : PollStep(m)
  \/ \E r \in Run : RunStep(r) \/ WalkStep(r)
  \/ SweepStep
  \/ ReconcileStep
  \/ \E n \in Node :
       \/ CancelJob(n) \/ CancelMark(n)
       \/ RetireWorker(n) \/ RetireMark(n) \/ DeleteWorker(n)
       \/ ResetBreaker(n)
  \/ Restart

\* Handlers that were started run on; the polls, the sweep and the reconciler
\* are on timers; a trigger fires.  executeJob runs against one deadline, so
\* however many rounds it takes it comes to a report in the end.  Requests that
\* fail, machines that die, cancels, resets and restarts owe nothing.
Fairness ==
  /\ WF_vars(StartCycleRun)
  /\ \A m \in Runner : WF_vars(PollStep(m))
  /\ \A r \in Run :
       /\ WF_vars(WalkStep(r))
       /\ WF_vars(SendStarted(r))
       /\ WF_vars(HandleStarted(r))
       /\ SF_vars(SendReport(r))
       /\ WF_vars(SendLastReport(r) /\ agent[r] = "failing")
       /\ WF_vars(\E q \in reports : q[1] = r /\ HandleReport(r, q[2]))
  /\ WF_vars(SweepStep)
  /\ WF_vars(ReconcileStep)
  /\ \A n \in Node : WF_vars(CancelMark(n)) /\ WF_vars(RetireMark(n) \/ DeleteWorker(n))

Spec == Init /\ [][Next]_vars
FairSpec == Spec /\ Fairness

-----------------------------------------------------------------------------
PollState ==
  [phase : {"idle", "counted", "held", "claimed"}, slots : Nat,
   held : SUBSET Node, ids : SUBSET Run, out : SUBSET Run]
WalkState ==
  [phase : {"idle", "release", "decide", "write", "grade"},
   seen : [Node -> JobStates \cup {"none"}],
   queue : SUBSET Node, skip : SUBSET Node, mark : SUBSET Node]
SweepState == [rows : SUBSET (Node \X (0 .. MaxAttempts)), busy : SUBSET Run]

TypeOK ==
  /\ cycle \in CycleStates \cup {"none"}
  /\ jobState \in [Node -> JobStates \cup {"none"}]
  /\ attempts \in [Node -> 0 .. MaxAttempts]
  /\ outcome \in [Run -> RunOutcomes \cup {"absent", "open"}]
  /\ changes \in [Run -> {"none", "unpublished", "published"}]
  /\ coverage \in [Node -> CoverageOutcomes \cup {"none"}]
  /\ orphaned \subseteq Node /\ breakers \subseteq Node
  /\ failures \in [Node -> Nat]
  /\ opened \in [Node -> BOOLEAN]
  /\ poll \in [Runner -> PollState]
  /\ walk \in [Run -> WalkState]
  /\ sweep \in SweepState
  /\ reconcile \subseteq Node
  /\ cancelling \subseteq Node
  /\ removing \in [Node -> {"no", "mark", "delete"}]
  /\ agent \in [Run -> AgentStates]
  /\ starting \subseteq Run
  /\ reports \subseteq Run \X RunReport
  /\ prs \subseteq Run
  /\ crashes \in 0 .. MaxCrashes
  /\ settled \subseteq Node

-----------------------------------------------------------------------------
Succeeded(r) == outcome[r] \in {"approved", "dispatched"}
RunsOf(n) == {r \in Run : r[1] = n}
FailedRuns(n) == {r \in RunsOf(n) : Finished(r) /\ JobStateOf(outcome[r]) = "failed"}

\* A poll between its read of the cap and the UPDATE that claims.
Offering(m) == poll[m].phase \in {"counted", "held"}

\* The places of the fleet, and those that polls have counted as free and not yet filled.
Places == Runner \X (1 .. MaxConcurrentJobs)
Offers == {p \in Places : Offering(p[1]) /\ p[2] <= poll[p[1]].slots}

(***************************************************************************)
(* Once a run has an outcome it keeps it, whoever reports again: a runner   *)
(* retrying, a runner reporting after the sweep gave up on it, the sweep    *)
(* after a report (finalizeRun's claim).                                    *)
(***************************************************************************)
OutcomeIsFinal == [][\A r \in Run : Finished(r) => outcome'[r] = outcome[r]]_outcome

(***************************************************************************)
(* The breaker counts failing runs, not reports of failure: the sweep and   *)
(* the runner it gave up on are one failure, and a breaker is only open     *)
(* when runs enough of the worker failed, earlier cycle runs included.      *)
(***************************************************************************)
BreakerCountsRuns ==
  \A n \in Node :
    LET failed == EarlierFailures[n] + Cardinality(FailedRuns(n))
    IN  failures[n] <= failed /\ (opened[n] => failed >= FailureBreakerThreshold)

(***************************************************************************)
(* A worker that has failed as often in a row as its project allows has an  *)
(* open breaker.  It fails for a threshold of one: the row a first failure  *)
(* inserts is not compared with it.                                         *)
(***************************************************************************)
BreakerLatches == \A n \in Node : failures[n] >= FailureBreakerThreshold => opened[n]

(***************************************************************************)
(* A job is handed out only after each of its dependencies has come to an   *)
(* end, in whatever order reports, sweeps, cancels and walks interleave.    *)
(***************************************************************************)
DependenciesFirst ==
  \A n \in Node :
    jobState[n] \in NonTerminal \ {"blocked"} \/ attempts[n] > 0 =>
      \A e \in Incoming(n) : e.from \in settled

(***************************************************************************)
(* An edge means what it says, and a decline more than that: a node runs    *)
(* behind a block edge only when a run of the dependency succeeded, and     *)
(* behind no dependency whose every run declined the work, whatever         *)
(* onDepFailure says (releaseDependents).                                   *)
(***************************************************************************)
EdgesHold ==
  \A e \in Edge : attempts[e.to] > 0 =>
    LET ended == {r \in RunsOf(e.from) : Finished(r)}
    IN  /\ e.onDepFailure = "block" => \E r \in ended : Succeeded(r)
        /\ ended # {} => \E r \in ended : outcome[r] # "declined"

(***************************************************************************)
(* The ledger is true about what ran: an entry that says a surface was      *)
(* examined has a run that ended well behind it, and a node with a finished *)
(* run is no longer waiting for one.                                        *)
(***************************************************************************)
LedgerIsTrue ==
  \A n \in Node :
    /\ coverage[n] \in {"found", "clean", "changed"} => \E r \in RunsOf(n) : Succeeded(r)
    /\ coverage[n] = "declined" => \E r \in RunsOf(n) : outcome[r] = "declined"
    /\ (\E r \in RunsOf(n) : Finished(r)) => coverage[n] # "pending"

(***************************************************************************)
(* A grade is earned: a cycle run ends only after every node has ended,     *)
(* `complete` only when every node has a run that succeeded, `declined`     *)
(* only when some run declined (finalizeCycleIfDone, from a read that may   *)
(* be stale when it is written).                                            *)
(***************************************************************************)
GradeIsEarned ==
  /\ cycle \notin {"none", "running"} => settled = Node
  /\ cycle = "complete" => \A n \in Node : \E r \in RunsOf(n) : Succeeded(r)
  /\ cycle = "declined" => \E r \in Run : outcome[r] = "declined"

(***************************************************************************)
(* A decline never hides a failure: a cycle run graded `declined` had no    *)
(* run that failed.                                                         *)
(***************************************************************************)
DeclineHidesNoFailure ==
  cycle = "declined" =>
    \A r \in Run : Finished(r) => JobStateOf(outcome[r]) # "failed"

(***************************************************************************)
(* A cycle run is graded once, even when the walks of several runs all find *)
(* every job terminal.                                                      *)
(***************************************************************************)
GradedOnce == [][cycle \notin {"none", "running"} => cycle' = cycle]_cycle

(***************************************************************************)
(* A job is claimed by one poll only: what a runner took, no other runner   *)
(* and no later poll takes again.  It fails where two walks release a job.  *)
(***************************************************************************)
ClaimedOnce == \A n \in Node : attempts[n] <= 1

(***************************************************************************)
(* Runners that poll at once do not compound: each of them may have read    *)
(* the cap before another spent it, but what they carry and what polls      *)
(* under way have counted as free is never more than the cap per runner,    *)
(* whatever was taken, run, finished, swept or lost meanwhile               *)
(* (remainingCapacity, read by POST /jobs/claim before its UPDATE).         *)
(***************************************************************************)
CapPerRunner ==
  Cardinality(InFlight) + Cardinality(Offers) <= Cardinality(Runner) * MaxConcurrentJobs

(***************************************************************************)
(* The machine never carries more jobs than its cap.  It fails where two    *)
(* runners poll at once: both count, then both claim.                       *)
(***************************************************************************)
CapIsHard == Cardinality(InFlight) <= MaxConcurrentJobs

(***************************************************************************)
(* A runner is never handed a job it has just said it cannot authenticate.  *)
(* It fails: what is held back is listed before the UPDATE that claims.     *)
(***************************************************************************)
HandedOutAuthenticated ==
  \A m \in Runner : \A r \in poll[m].ids \cup poll[m].out : r[1] \in Authenticates[m]

(***************************************************************************)
(* A ledger entry that names a cause is not replaced by the sweep's guess.  *)
(* It fails: reconcileCoverage writes by id the rows it selected before.    *)
(***************************************************************************)
CauseIsKept ==
  [][\A n \in Node : coverage[n] \in {"cancelled", "blocked"} => coverage'[n] # "abandoned"]_coverage

(***************************************************************************)
(* A cycle run that started ends.                                           *)
(***************************************************************************)
CycleEnds == cycle = "running" ~> cycle \notin {"none", "running"}

(***************************************************************************)
(* A cycle run whose every job is terminal is graded.  It fails: a cancel   *)
(* that ends the last open job neither walks nor grades.                    *)
(***************************************************************************)
AllTerminalIsGraded ==
  cycle = "running" /\ (\A n \in Node : jobState[n] \in TerminalStates)
    ~> cycle # "running"

(***************************************************************************)
(* Nothing claimed is forgotten: a run that was opened gets an outcome,     *)
(* from its runner or from the sweep when the answer to the claim, the      *)
(* runner or its reports were lost; and a job a runner holds is given up,   *)
(* with its slot (sweepStaleClaims).                                        *)
(***************************************************************************)
EveryClaimEnds ==
  /\ \A r \in Run : outcome[r] = "open" ~> Finished(r)
  /\ \A n \in Node : jobState[n] \in InFlightStates ~> jobState[n] \notin InFlightStates

(***************************************************************************)
(* A ledger row does not stay `pending` once its job is over, as long as    *)
(* the worker it is about is still configured: whoever was to say what      *)
(* became of the job may have crashed, the sweep says it instead.           *)
(***************************************************************************)
LedgerCatchesUp ==
  \A n \in Node :
    jobState[n] \in TerminalStates /\ coverage[n] = "pending"
      ~> coverage[n] # "pending" \/ n \in orphaned

(***************************************************************************)
(* All of the above implements the contract a cycle run is read by:         *)
(* dependencies first, one outcome per run, one grade, and an earned one.   *)
(***************************************************************************)
Contract == INSTANCE CycleContract
  WITH Grades <- CycleStates \ {"running"}, grade <- cycle, verdict <- outcome, ended <- settled
RefinesContract == Contract!Spec
=============================================================================
