---------------------------- MODULE ForemanProof ----------------------------
(***************************************************************************)
(* The safety of the foreman, for every graph, fleet and bound.  Type       *)
(* correctness comes first, one lemma per handler.                         *)
(*                                                                         *)
(* Then three lemmas say what a step may do to the runs (ClaimPolls and    *)
(* OtherStepFrame), to the jobs (JobsStep) and to the walks (WalksStep);   *)
(* the conjuncts of IInv follow from them one by one.  IInv is what makes  *)
(* OutcomeIsFinal, DependenciesFirst and GradeIsEarned inductive: a poll is *)
(* about to insert only fresh runs, a walk belongs to a finished run, and  *)
(* what a walk read as ended, or as succeeded, did end or succeed, however *)
(* old its read is.                                                        *)
(***************************************************************************)
EXTENDS Foreman, FiniteSetTheorems, TLAPS

-----------------------------------------------------------------------------
(* Type correctness: one lemma per handler, and one for what the handlers share.*)

\* A run is named by a node and the number of a claim.
LEMMA RunNode == ASSUME NEW r \in Run PROVE r[1] \in Node /\ r[2] \in 1 .. MaxAttempts
BY DEF Run

\* The initial state is well typed.
LEMMA TypeInit == Init => TypeOK
BY GraphAssumption, FleetAssumption, BoundAssumption
DEF Init, TypeOK, IdlePoll, IdleWalk, NoSweep, AgentStates, PollState, WalkState, SweepState

\* The records of handlers that do nothing are well typed.
LEMMA IdleTypes == IdlePoll \in PollState /\ IdleWalk \in WalkState /\ NoSweep \in SweepState
BY DEF IdlePoll, IdleWalk, NoSweep, PollState, WalkState, SweepState

\* The machine cap leaves a number of free slots, whatever is in flight.
LEMMA CapType == RemainingCapacity \in Nat
<1>1. IsFiniteSet(InFlight)
  BY FS_Subset, GraphAssumption DEF InFlight
<1>2. Cardinality(InFlight) \in Nat
  BY <1>1, FS_CardinalityType
<1> QED
  BY <1>2, BoundAssumption DEF RemainingCapacity

\* POST /jobs/claim reads the caps: typed.
LEMMA PollCountType == ASSUME TypeOK, NEW m \in Runner, PollCount(m) PROVE TypeOK'
<1>1. PICK capacity \in 1 .. RunnerCapacity :
    poll' = [poll EXCEPT ![m] = [IdlePoll EXCEPT !.phase = "counted", !.slots = Least(capacity, RemainingCapacity)]]
  BY DEF PollCount
<1>2. Least(capacity, RemainingCapacity) \in Nat
  BY CapType, BoundAssumption DEF Least
<1>3. [IdlePoll EXCEPT !.phase = "counted", !.slots = Least(capacity, RemainingCapacity)] \in PollState
  BY <1>2 DEF IdlePoll, PollState
<1>4. poll' \in [Runner -> PollState]
  BY <1>1, <1>3 DEF TypeOK
<1> QED
  BY <1>4 DEF TypeOK, PollCount, withdrawVars, netVars, dbVars, jobVars, runVars, workerVars

\* The claim's UPDATE: an attempt is counted, and the run it names exists.
LEMMA PollClaimType == ASSUME TypeOK, NEW m \in Runner, PollClaim(m) PROVE TypeOK'
<1>1. PICK ids \in SUBSET Claimable(m) :
       /\ jobState' = [n \in Node |-> IF n \in ids THEN "claimed" ELSE jobState[n]]
       /\ attempts' = [n \in Node |-> IF n \in ids THEN attempts[n] + 1 ELSE attempts[n]]
       /\ poll' = [poll EXCEPT ![m] =
            [IdlePoll EXCEPT !.phase = IF ids = {} THEN "idle" ELSE "claimed",
                             !.ids = {<<n, attempts'[n]>> : n \in ids}]]
  BY DEF PollClaim
<1>2. /\ ids \subseteq Node
      /\ \A n \in ids : attempts[n] < MaxAttempts
  BY FleetAssumption DEF Claimable
<1>3. attempts' \in [Node -> 0 .. MaxAttempts]
  BY <1>1, <1>2, BoundAssumption DEF TypeOK
<1>4. \A n \in ids : attempts'[n] \in 1 .. MaxAttempts
  BY <1>1, <1>2, BoundAssumption DEF TypeOK
<1>5. {<<n, attempts'[n]>> : n \in ids} \subseteq Run
  BY <1>2, <1>4 DEF Run
<1>6. [IdlePoll EXCEPT !.phase = IF ids = {} THEN "idle" ELSE "claimed",
                       !.ids = {<<n, attempts'[n]>> : n \in ids}] \in PollState
  BY <1>5 DEF PollState, IdlePoll
<1>7. poll' \in [Runner -> PollState]
  BY <1>1, <1>6 DEF TypeOK
<1>8. jobState' \in [Node -> JobStates \cup {"none"}]
  BY <1>1 DEF TypeOK, JobStates, NonTerminal
<1> QED
  BY <1>3, <1>7, <1>8 DEF TypeOK, PollClaim, withdrawVars, netVars, jobVars, runVars, workerVars

\* Inserting a run for a claimed job: typed.
LEMMA PollInsertType == ASSUME TypeOK, NEW m \in Runner, PollInsert(m) PROVE TypeOK'
<1>1. PICK r \in poll[m].ids :
       IF r[1] \in orphaned
       THEN /\ poll' = [poll EXCEPT ![m].ids = @ \ {r}]
            /\ UNCHANGED outcome
       ELSE /\ outcome' = [outcome EXCEPT ![r] = "open"]
            /\ poll' = [poll EXCEPT ![m].ids = @ \ {r}, ![m].out = @ \cup {r}]
  BY DEF PollInsert
<1>2. r \in Run
  BY DEF TypeOK, PollState
<1>3. poll' \in [Runner -> PollState]
  BY <1>1, <1>2, SMTT(30) DEF TypeOK, PollState
<1>4. outcome' \in [Run -> RunOutcomes \cup {"absent", "open"}]
  BY <1>1, <1>2 DEF TypeOK
<1> QED
  BY <1>3, <1>4 DEF TypeOK, PollInsert, withdrawVars, netVars, jobVars, runVars, workerVars
\* Reading the hold-backs: typed.
LEMMA PollHoldType == ASSUME TypeOK, NEW m \in Runner, PollHold(m) PROVE TypeOK'
<1>1. PICK over \in OverCap :
    poll' = [poll EXCEPT ![m].phase = "held", ![m].held = over \cup Unauthenticated(m)]
  BY DEF PollHold
<1>2. over \cup Unauthenticated(m) \subseteq Node
  BY FleetAssumption DEF OverCap, Unauthenticated
<1>3. poll' = [poll EXCEPT ![m] = [poll[m] EXCEPT !.phase = "held", !.held = over \cup Unauthenticated(m)]]
  BY <1>1 DEF TypeOK, PollState
<1>4. [poll[m] EXCEPT !.phase = "held", !.held = over \cup Unauthenticated(m)] \in PollState
  <2>1. poll[m] \in PollState
    BY DEF TypeOK
  <2> QED
    BY <1>2, <2>1 DEF PollState
<1>5. poll' \in [Runner -> PollState]
  BY <1>3, <1>4 DEF TypeOK
<1> QED
  BY <1>5 DEF TypeOK, PollHold, withdrawVars, netVars, dbVars, jobVars, runVars, workerVars

\* An update of jobs.state by id: typed.
LEMMA SetJobType ==
  ASSUME TypeOK, NEW n \in Node, NEW s \in JobStates, SetJob(n, s)
  PROVE  jobState' \in [Node -> JobStates \cup {"none"}] /\ settled' \subseteq Node
BY DEF TypeOK, SetJob

\* An update of the ledger: typed.
LEMMA MarkCoverageType ==
  ASSUME TypeOK, NEW n \in Node, NEW o \in CoverageOutcomes, MarkCoverage(n, o)
  PROVE  coverage' \in [Node -> CoverageOutcomes \cup {"none"}]
BY DEF TypeOK, MarkCoverage

\* finalizeRun derives an outcome, a terminal job state and a ledger entry from any report.
LEMMA DerivedTypes ==
  ASSUME NEW rep \in RunReport
  PROVE  /\ DerivedOutcome(rep) \in RunOutcomes
         /\ JobStateOf(DerivedOutcome(rep)) \in TerminalStates
         /\ CoverageOf(rep) \in CoverageOutcomes
<1>1. rep.outcome \in RunOutcomes /\ rep.gateFailed \in BOOLEAN
  BY DEF RunReport
<1>2. DerivedOutcome(rep) \in RunOutcomes
  BY <1>1 DEF DerivedOutcome, RunOutcomes
<1>3. JobStateOf(DerivedOutcome(rep)) \in TerminalStates
  BY DEF JobStateOf, TerminalStates
<1>4. CoverageOf(rep) \in CoverageOutcomes
  BY <1>1 DEF CoverageOf, CoverageOutcomes
<1> QED
  BY <1>2, <1>3, <1>4

\* The breaker's row after any outcome: typed.
LEMMA LatchBreakerType ==
  ASSUME TypeOK, NEW n \in Node, NEW o, LatchBreaker(n, o)
  PROVE  /\ orphaned' \subseteq Node /\ breakers' \subseteq Node
         /\ failures' \in [Node -> Nat]
         /\ opened' \in [Node -> BOOLEAN]
<1>1. orphaned' \subseteq Node
  BY DEF TypeOK, LatchBreaker, RecordWorkerFailure, RecordWorkerSuccess
<1>2. breakers' \subseteq Node /\ failures' \in [Node -> Nat]
  BY DEF TypeOK, LatchBreaker, RecordWorkerFailure, RecordWorkerSuccess
<1>3. opened' \in [Node -> BOOLEAN]
  BY Zenon DEF TypeOK, LatchBreaker, RecordWorkerFailure, RecordWorkerSuccess
<1> QED
  BY <1>1, <1>2, <1>3

\* What finalizeRun may change, with its types.
LEMMA FinalizeRunType ==
  ASSUME TypeOK, NEW r \in Run, NEW rep \in RunReport, FinalizeRun(r, rep)
  PROVE  /\ jobState' \in [Node -> JobStates \cup {"none"}] /\ settled' \subseteq Node
         /\ outcome' \in [Run -> RunOutcomes \cup {"absent", "open"}]
         /\ changes' \in [Run -> {"none", "unpublished", "published"}]
         /\ coverage' \in [Node -> CoverageOutcomes \cup {"none"}]
         /\ orphaned' \subseteq Node /\ breakers' \subseteq Node
         /\ failures' \in [Node -> Nat]
         /\ opened' \in [Node -> BOOLEAN]
         /\ walk' \in [Run -> WalkState]
<1>1. CASE ClaimsTheRun(r, rep)
  <2> DEFINE o == DerivedOutcome(rep)
  <2>1. /\ outcome' = [outcome EXCEPT ![r] = o]
        /\ SetJob(r[1], JobStateOf(o))
        /\ changes' = [changes EXCEPT ![r] = IF rep.change THEN "unpublished" ELSE @]
        /\ MarkCoverage(r[1], CoverageOf(rep))
        /\ LatchBreaker(r[1], o)
        /\ walk' = [walk EXCEPT ![r] = [IdleWalk EXCEPT !.phase = "release"]]
    BY <1>1 DEF ClaimsTheRun
  <2>2. /\ r[1] \in Node
        /\ o \in RunOutcomes
        /\ JobStateOf(o) \in JobStates
        /\ CoverageOf(rep) \in CoverageOutcomes
    BY RunNode, DerivedTypes DEF JobStates
  <2>3. [IdleWalk EXCEPT !.phase = "release"] \in WalkState
    BY DEF IdleWalk, WalkState
  <2>4. /\ outcome' \in [Run -> RunOutcomes \cup {"absent", "open"}]
        /\ changes' \in [Run -> {"none", "unpublished", "published"}]
        /\ walk' \in [Run -> WalkState]
    BY <2>1, <2>2, <2>3 DEF TypeOK
  <2>5. jobState' \in [Node -> JobStates \cup {"none"}] /\ settled' \subseteq Node
    BY <2>1, <2>2, SetJobType
  <2>6. coverage' \in [Node -> CoverageOutcomes \cup {"none"}]
    BY <2>1, <2>2, MarkCoverageType
  <2>7. /\ orphaned' \subseteq Node /\ breakers' \subseteq Node
        /\ failures' \in [Node -> Nat]
        /\ opened' \in [Node -> BOOLEAN]
    BY <2>1, <2>2, LatchBreakerType
  <2> QED
    BY <2>4, <2>5, <2>6, <2>7
<1>2. CASE AlreadyFinalized(r)
  BY <1>2 DEF AlreadyFinalized, TypeOK, jobVars, runVars, workerVars
<1> QED
  BY <1>1, <1>2 DEF FinalizeRun

\* A /started, sent and handled: typed.
LEMMA StartedTypes ==
  ASSUME TypeOK, NEW r \in Run, SendStarted(r) \/ HandleStarted(r) PROVE TypeOK'
<1>1. CASE SendStarted(r)
  BY <1>1 DEF SendStarted, TypeOK, AgentStates, dbVars, jobVars, runVars, workerVars, handlerVars, withdrawVars
<1>2. CASE HandleStarted(r)
  <2>1. jobState' \in [Node -> JobStates \cup {"none"}] /\ settled' \subseteq Node
    BY <1>2, RunNode, SetJobType DEF HandleStarted, JobStates, NonTerminal
  <2>2. agent' \in [Run -> AgentStates] /\ starting' \subseteq Run
    BY <1>2 DEF HandleStarted, TypeOK, AgentStates
  <2> QED
    BY <1>2, <2>1, <2>2 DEF HandleStarted, TypeOK, runVars, workerVars, handlerVars, withdrawVars
<1> QED
  BY <1>1, <1>2

\* A report, sent by executeJob or by fail and refuse: typed.
LEMMA ReportTypes ==
  ASSUME TypeOK, NEW r \in Run, SendReport(r) \/ SendLastReport(r) PROVE TypeOK'
<1>1. LastReports \subseteq RunReport
  <2>1. ErrorReport \in RunReport /\ RefusalReport \in RunReport
    BY DEF ErrorReport, RefusalReport, RunReport, RunOutcomes
  <2>2. UnextractableReport \in RunReport
    BY DEF ErrorReport, UnextractableReport, RunReport, RunOutcomes
  <2> QED
    BY <2>1, <2>2 DEF LastReports
<1>2. CASE SendReport(r)
  BY <1>2, ReportAssumption
  DEF SendReport, TypeOK, AgentStates, dbVars, jobVars, runVars, workerVars, handlerVars, withdrawVars
<1>3. CASE SendLastReport(r)
  <2>1. reports' \subseteq Run \X RunReport
    BY <1>1, <1>3 DEF SendLastReport, TypeOK, LastReports
  <2> QED
    BY <2>1, <1>3
    DEF SendLastReport, TypeOK, AgentStates, dbVars, jobVars, runVars, workerVars, handlerVars, withdrawVars
<1> QED
  BY <1>2, <1>3

\* POST /report: typed.
LEMMA HandleReportType ==
  ASSUME TypeOK, NEW r \in Run, NEW rep, HandleReport(r, rep) PROVE TypeOK'
<1>1. rep \in RunReport
  BY DEF HandleReport, TypeOK
<1>2. FinalizeRun(r, rep)
  BY DEF HandleReport
<1>3. reports' \subseteq Run \X RunReport
  BY DEF HandleReport, TypeOK
<1>4. agent' \in [Run -> AgentStates]
  <2>1. PICK heard \in Heard(r, rep) :
          agent' = [agent EXCEPT ![r] =
            CASE agent[r] = "reporting" -> heard
              [] agent[r] = "apologising" /\ rep \in LastReports -> "done"
              [] OTHER -> agent[r]]
    BY DEF HandleReport
  <2>2. heard \in AgentStates
    BY DEF Heard, AgentStates
  <2> QED
    BY <2>1, <2>2 DEF TypeOK, AgentStates
<1> QED
  BY <1>1, <1>2, <1>3, <1>4, FinalizeRunType
  DEF HandleReport, TypeOK, withdrawVars

\* Publishing and POST /published: typed.
LEMMA PublishTypes ==
  ASSUME TypeOK, NEW r \in Run, Publish(r) \/ HandlePublished(r) PROVE TypeOK'
BY DEF Publish, HandlePublished, TypeOK, AgentStates, dbVars, jobVars, runVars, workerVars, handlerVars, withdrawVars

\* Lost requests and dying runners: typed.
LEMMA FaultTypes ==
  ASSUME TypeOK, NEW r \in Run, RequestFails(r) \/ RunnerDies(r) PROVE TypeOK'
<1>1. CASE RequestFails(r)
  <2>1. agent' \in [Run -> AgentStates]
    BY <1>1 DEF RequestFails, TypeOK, AgentStates
  <2>2. starting' \subseteq Run /\ reports' \subseteq Run \X RunReport
    BY <1>1 DEF RequestFails, TypeOK
  <2> QED
    BY <1>1, <2>1, <2>2 DEF RequestFails, TypeOK, dbVars, jobVars, runVars, workerVars, handlerVars, withdrawVars
<1>2. CASE RunnerDies(r)
  BY <1>2 DEF RunnerDies, TypeOK, AgentStates, dbVars, jobVars, runVars, workerVars, handlerVars, withdrawVars
<1> QED
  BY <1>1, <1>2

\* Every step of releaseDependents and finalizeCycleIfDone: typed.
LEMMA WalkTypes ==
  ASSUME TypeOK, NEW r \in Run, WalkStep(r) PROVE TypeOK'
<1>1. walk[r] \in WalkState
  BY DEF TypeOK
<1>2. CASE WalkRead(r)
  <2>1. [walk[r] EXCEPT !.phase = "decide"] \in WalkState
    BY <1>1 DEF WalkState
  <2>2. walk' \in [Run -> WalkState]
    BY <1>1, <1>2 DEF WalkRead, TypeOK, WalkState
  <2> QED
    BY <1>2, <2>2 DEF WalkRead, TypeOK, dbVars, jobVars, runVars, workerVars, withdrawVars, netVars
<1>3. CASE WalkDecide(r)
  <2>1. PICK skip \in SUBSET Node, queue \in SUBSET Node :
          walk' = [walk EXCEPT ![r] =
                     [IdleWalk EXCEPT !.phase = "write", !.skip = skip, !.queue = queue]]
    BY <1>3 DEF WalkDecide, Releasable
  <2>2. [IdleWalk EXCEPT !.phase = "write", !.skip = skip, !.queue = queue] \in WalkState
    BY DEF IdleWalk, WalkState
  <2>3. walk' \in [Run -> WalkState]
    BY <2>1, <2>2 DEF TypeOK
  <2> QED
    BY <1>3, <2>3 DEF WalkDecide, TypeOK, dbVars, jobVars, runVars, workerVars, withdrawVars, netVars
<1>4. ASSUME NEW n \in Node, WalkQueue(r, n) \/ WalkSkip(r, n) PROVE TypeOK'
  <2>1. walk' \in [Run -> WalkState]
    <3>1. CASE WalkQueue(r, n)
      BY <1>1, <3>1 DEF WalkQueue, TypeOK, WalkState
    <3>2. CASE WalkSkip(r, n)
      <4>1. [walk[r] EXCEPT !.skip = walk[r].skip \ {n}, !.mark = {n}] \in WalkState
        BY <1>1, <3>2 DEF WalkState
      <4>2. walk' = [walk EXCEPT ![r] = [walk[r] EXCEPT !.skip = walk[r].skip \ {n}, !.mark = {n}]]
        BY <1>1, <3>2, ZenonT(30) DEF WalkSkip, TypeOK, WalkState
      <4> QED
        BY <4>1, <4>2 DEF TypeOK
    <3> QED
      BY <1>4, <3>1, <3>2
  <2>2. jobState' \in [Node -> JobStates \cup {"none"}] /\ settled' \subseteq Node
    BY <1>4, SetJobType DEF WalkQueue, WalkSkip, JobStates, NonTerminal, TerminalStates
  <2> QED
    BY <1>4, <2>1, <2>2 DEF WalkQueue, WalkSkip, TypeOK, runVars, workerVars, withdrawVars, netVars
<1>5. CASE WalkMark(r)
  <2>1. PICK n \in walk[r].mark : MarkCoverage(n, "blocked")
    BY <1>5 DEF WalkMark
  <2>2. n \in Node
    BY <1>1, <2>1 DEF WalkState
  <2>3. coverage' \in [Node -> CoverageOutcomes \cup {"none"}]
    BY <2>1, <2>2, MarkCoverageType DEF CoverageOutcomes
  <2>4. walk' \in [Run -> WalkState]
    BY <1>1, <1>5 DEF WalkMark, TypeOK, WalkState
  <2> QED
    BY <1>5, <2>3, <2>4 DEF WalkMark, TypeOK, jobVars, runVars, workerVars, withdrawVars, netVars
<1>6. CASE WalkFinish(r)
  <2>1. [IdleWalk EXCEPT !.phase = "grade", !.seen = jobState] \in WalkState
    BY DEF IdleWalk, WalkState, TypeOK
  <2>2. walk' \in [Run -> WalkState]
    BY <1>6, <2>1, IdleTypes DEF WalkFinish, TypeOK
  <2> QED
    BY <1>6, <2>2 DEF WalkFinish, TypeOK, dbVars, jobVars, runVars, workerVars, withdrawVars, netVars
<1>7. CASE WalkGrade(r)
  <2>1. cycle' \in CycleStates \cup {"none"}
    BY <1>7 DEF WalkGrade, TypeOK, GradeOf, CycleStates
  <2>2. walk' \in [Run -> WalkState]
    BY <1>7, IdleTypes DEF WalkGrade, TypeOK
  <2> QED
    BY <1>7, <2>1, <2>2 DEF WalkGrade, TypeOK, jobVars, runVars, workerVars, withdrawVars, netVars
<1> QED
  BY <1>2, <1>3, <1>4, <1>5, <1>6, <1>7 DEF WalkStep

\* sweepStaleClaims: typed.
LEMMA SweepTypes == ASSUME TypeOK, SweepStep PROVE TypeOK'
<1>1. CASE SweepSelect
  <2>1. PICK S \in SUBSET Node : sweep' = [rows |-> StaleRows(S), busy |-> {}]
    BY <1>1 DEF SweepSelect
  <2>2. StaleRows(S) \subseteq Node \X (0 .. MaxAttempts)
    BY BoundAssumption DEF StaleRows, Run
  <2>3. sweep' \in SweepState
    BY <2>1, <2>2 DEF SweepState
  <2> QED
    BY <1>1, <2>3 DEF SweepSelect, TypeOK, dbVars, jobVars, runVars, workerVars, withdrawVars, netVars
<1>2. ASSUME NEW n \in Node, SweepJob(n) PROVE TypeOK'
  <2>1. sweep' \in SweepState
    BY <1>2 DEF SweepJob, TypeOK, SweepState
  <2>2. jobState' \in [Node -> JobStates \cup {"none"}] /\ settled' \subseteq Node
    BY <1>2, SetJobType DEF SweepJob, JobStates, TerminalStates
  <2> QED
    BY <1>2, <2>1, <2>2 DEF SweepJob, TypeOK, runVars, workerVars, withdrawVars, netVars
<1>3. ASSUME NEW r \in Run, SweepRun(r) PROVE TypeOK'
  <2>1. sweep' \in SweepState
    BY <1>3 DEF SweepRun, TypeOK, SweepState
  <2>2. ErrorReport \in RunReport
    BY DEF ErrorReport, RunReport, RunOutcomes
  <2>3. FinalizeRun(r, ErrorReport)
    BY <1>3 DEF SweepRun
  <2> QED
    BY <1>3, <2>1, <2>2, <2>3, FinalizeRunType DEF SweepRun, TypeOK, withdrawVars, netVars
<1> QED
  BY <1>1, <1>2, <1>3 DEF SweepStep

\* reconcileCoverage: typed.
LEMMA ReconcileTypes == ASSUME TypeOK, ReconcileStep PROVE TypeOK'
<1>1. CASE ReconcileSelect
  BY <1>1 DEF ReconcileSelect, TypeOK, dbVars, jobVars, runVars, workerVars, withdrawVars, netVars
<1>2. ASSUME NEW n \in Node, ReconcileRow(n) PROVE TypeOK'
  BY <1>2, MarkCoverageType
  DEF ReconcileRow, TypeOK, CoverageOutcomes, jobVars, runVars, workerVars, withdrawVars, netVars
<1> QED
  BY <1>1, <1>2 DEF ReconcileStep

\* Cancelling, removing a worker, resetting a breaker: typed.
LEMMA WithdrawTypes ==
  ASSUME TypeOK, NEW n \in Node,
         \/ CancelJob(n) \/ CancelMark(n)
         \/ RetireWorker(n) \/ RetireMark(n) \/ DeleteWorker(n) \/ ResetBreaker(n)
  PROVE  TypeOK'
<1>1. CASE CancelJob(n)
  <2>1. jobState' \in [Node -> JobStates \cup {"none"}] /\ settled' \subseteq Node
    BY <1>1, SetJobType DEF CancelJob, JobStates, TerminalStates
  <2> QED
    BY <1>1, <2>1 DEF CancelJob, TypeOK, runVars, workerVars, netVars
<1>2. CASE CancelMark(n)
  BY <1>2, MarkCoverageType DEF CancelMark, TypeOK, CoverageOutcomes, jobVars, runVars, workerVars, netVars
<1>3. CASE RetireWorker(n)
  <2>1. jobState' \in [Node -> JobStates \cup {"none"}] /\ settled' \subseteq Node
    BY <1>3, SetJobType DEF RetireWorker, JobStates, TerminalStates, TypeOK, jobVars
  <2>2. removing' \in [Node -> {"no", "mark", "delete"}]
    BY <1>3 DEF RetireWorker, TypeOK
  <2> QED
    BY <1>3, <2>1, <2>2 DEF RetireWorker, TypeOK, runVars, workerVars, netVars
<1>4. CASE RetireMark(n)
  BY <1>4, MarkCoverageType DEF RetireMark, TypeOK, CoverageOutcomes, jobVars, runVars, workerVars, netVars
<1>5. CASE DeleteWorker(n)
  BY <1>5 DEF DeleteWorker, TypeOK, jobVars, runVars, netVars
<1>6. CASE ResetBreaker(n)
  BY <1>6 DEF ResetBreaker, TypeOK, jobVars, runVars, handlerVars, withdrawVars, netVars
<1> QED
  BY <1>1, <1>2, <1>3, <1>4, <1>5, <1>6

\* A restart of the control plane: typed.
LEMMA RestartType == ASSUME TypeOK, Restart PROVE TypeOK'
BY IdleTypes, BoundAssumption DEF Restart, TypeOK, dbVars, jobVars, runVars, workerVars, netVars

\* startCycleRun: typed.
LEMMA StartType == ASSUME TypeOK, StartCycleRun PROVE TypeOK'
BY EnvironmentAssumption
DEF StartCycleRun, TypeOK, handlerVars, withdrawVars, netVars, runVars, workerVars,
    CycleStates, JobStates, NonTerminal, TerminalStates, CoverageOutcomes

\* Every step of a poll: typed.
LEMMA PollTypes == ASSUME TypeOK, NEW m \in Runner, PollStep(m) PROVE TypeOK'
<1>1. CASE PollRespond(m)
  BY <1>1, IdleTypes
  DEF PollRespond, TypeOK, withdrawVars, netVars, dbVars, jobVars, runVars, workerVars, AgentStates
<1> QED
  BY <1>1, PollCountType, PollHoldType, PollClaimType, PollInsertType DEF PollStep

\* Every step of the system keeps every variable in its type.
LEMMA TypeStep == TypeOK /\ [Next]_vars => TypeOK'
<1> SUFFICES ASSUME TypeOK, [Next]_vars PROVE TypeOK'
  OBVIOUS
<1>1. CASE StartCycleRun
  BY <1>1, StartType
<1>2. ASSUME NEW m \in Runner, PollStep(m) PROVE TypeOK'
  BY <1>2, PollTypes
<1>3. ASSUME NEW r \in Run, RunStep(r) PROVE TypeOK'
  BY <1>3, StartedTypes, ReportTypes, HandleReportType, PublishTypes, FaultTypes DEF RunStep
<1>4. ASSUME NEW r \in Run, WalkStep(r) PROVE TypeOK'
  BY <1>4, WalkTypes
<1>5. CASE SweepStep
  BY <1>5, SweepTypes
<1>6. CASE ReconcileStep
  BY <1>6, ReconcileTypes
<1>7. ASSUME NEW n \in Node,
         \/ CancelJob(n) \/ CancelMark(n)
         \/ RetireWorker(n) \/ RetireMark(n) \/ DeleteWorker(n) \/ ResetBreaker(n)
      PROVE TypeOK'
  BY <1>7, WithdrawTypes
<1>8. CASE Restart
  BY <1>8, RestartType
<1>9. CASE UNCHANGED vars
  BY <1>9 DEF vars, TypeOK, dbVars, jobVars, runVars, workerVars, handlerVars, withdrawVars, netVars
<1> QED
  BY <1>1, <1>2, <1>3, <1>4, <1>5, <1>6, <1>7, <1>8, <1>9 DEF Next

\* In every behaviour of the foreman every row and every handler is well typed: whatever a
\* report says, finalizeRun writes a known outcome, job state and ledger entry.
THEOREM TypeCorrect == Spec => []TypeOK
BY TypeInit, TypeStep, PTL DEF Spec

-----------------------------------------------------------------------------
\* The job row counts the claim that r is named after.
Issued(r) == r[2] <= attempts[r[1]]

\* A poll is about to insert runs that are fresh, its own, and counted; so is
\* every run that exists, is worked on or has a request in flight.
ClaimInv ==
  /\ \A m \in Runner : \A r \in poll[m].ids : outcome[r] = "absent" /\ Issued(r)
  /\ \A m \in Runner : \A r \in poll[m].out : Issued(r)
  /\ \A m, l \in Runner : \A r \in poll[m].ids : r \in poll[l].ids => m = l
  /\ \A r \in Run : outcome[r] # "absent" \/ agent[r] # "unknown" \/ r \in starting => Issued(r)

\* Polling keeps the claims apart: the run a poll is about to insert is fresh and its own.
LEMMA ClaimPolls ==
  ASSUME TypeOK, ClaimInv, NEW m \in Runner, PollStep(m) PROVE ClaimInv'
<1>1. CASE PollCount(m)
  BY <1>1 DEF PollCount, IdlePoll, ClaimInv, Issued, TypeOK, PollState, dbVars, jobVars, runVars, netVars
<1>2. CASE PollHold(m)
  BY <1>2 DEF PollHold, ClaimInv, Issued, TypeOK, PollState, dbVars, jobVars, runVars, netVars
<1>3. CASE PollClaim(m)
  <2>1. PICK ids \in SUBSET Claimable(m) :
       /\ attempts' = [n \in Node |-> IF n \in ids THEN attempts[n] + 1 ELSE attempts[n]]
       /\ poll' = [poll EXCEPT ![m] =
            [IdlePoll EXCEPT !.phase = IF ids = {} THEN "idle" ELSE "claimed",
                             !.ids = {<<n, attempts'[n]>> : n \in ids}]]
    BY <1>3 DEF PollClaim
  <2>2. ids \subseteq Node
    BY FleetAssumption DEF Claimable
  <2>3. \A n \in Node : attempts[n] <= attempts'[n]
    BY <2>1 DEF TypeOK
  <2>4. ASSUME NEW r \in Run, Issued(r) PROVE Issued(r)'
    <3>1. r[1] \in Node /\ r[2] \in Nat
      BY RunNode
    <3>2. attempts[r[1]] \in Nat /\ attempts'[r[1]] \in Nat
      BY <2>1, <3>1 DEF TypeOK
    <3> QED
      BY <2>3, <2>4, <3>1, <3>2 DEF Issued
  <2>5. /\ poll'[m].ids = {<<n, attempts'[n]>> : n \in ids}
        /\ poll'[m].out = {}
        /\ \A l \in Runner \ {m} : poll'[l] = poll[l]
    <3> DEFINE answer == [IdlePoll EXCEPT !.phase = IF ids = {} THEN "idle" ELSE "claimed",
                                          !.ids = {<<n, attempts'[n]>> : n \in ids}]
    <3>1. answer.ids = {<<n, attempts'[n]>> : n \in ids} /\ answer.out = {}
      BY DEF IdlePoll
    <3>2. poll' = [poll EXCEPT ![m] = answer]
      BY <2>1
    <3> HIDE DEF answer
    <3> QED
      BY <3>1, <3>2 DEF TypeOK
  <2>6. \A n \in ids : /\ attempts'[n] = attempts[n] + 1
                       /\ attempts[n] \in Nat /\ attempts'[n] \in 1 .. MaxAttempts
    BY <2>1, <2>2, BoundAssumption DEF TypeOK, Claimable
  <2>8. ASSUME NEW r \in poll'[m].ids
        PROVE  r \in Run /\ Issued(r)' /\ ~Issued(r)
    <3>1. PICK n \in ids : r = <<n, attempts'[n]>>
      BY <2>5
    <3> QED
      BY <2>2, <2>6, <3>1 DEF Issued, Run
  <2>7. UNCHANGED <<outcome, agent, starting>>
    BY <1>3 DEF PollClaim, runVars, netVars
  <2>9. /\ \A l \in Runner : \A r \in poll'[l].ids : outcome'[r] = "absent" /\ Issued(r)'
        /\ \A l \in Runner : \A r \in poll'[l].out : Issued(r)'
    BY <2>4, <2>5, <2>7, <2>8 DEF ClaimInv, TypeOK, PollState
  <2>10. \A k, l \in Runner : \A r \in poll'[k].ids : r \in poll'[l].ids => k = l
    BY <2>4, <2>5, <2>8 DEF ClaimInv, TypeOK, PollState
  <2>11. \A r \in Run : outcome'[r] # "absent" \/ agent'[r] # "unknown" \/ r \in starting' => Issued(r)'
    BY <2>4, <2>7 DEF ClaimInv
  <2> QED
    BY <2>9, <2>10, <2>11 DEF ClaimInv
<1>4. CASE PollInsert(m)
  <2>1. PICK r \in poll[m].ids :
       IF r[1] \in orphaned
       THEN /\ poll' = [poll EXCEPT ![m].ids = @ \ {r}]
            /\ UNCHANGED outcome
       ELSE /\ outcome' = [outcome EXCEPT ![r] = "open"]
            /\ poll' = [poll EXCEPT ![m].ids = @ \ {r}, ![m].out = @ \cup {r}]
    BY <1>4 DEF PollInsert
  <2>2. r \in Run /\ Issued(r)
    BY DEF TypeOK, PollState, ClaimInv
  <2>3. /\ poll'[m].ids = poll[m].ids \ {r}
        /\ poll'[m].out \subseteq poll[m].out \cup {r}
        /\ \A l \in Runner \ {m} : poll'[l] = poll[l]
    BY <2>1 DEF TypeOK, PollState
  <2>4. \A q \in Run \ {r} : outcome'[q] = outcome[q]
    BY <2>1, <2>2 DEF TypeOK
  <2>5. UNCHANGED <<attempts, agent, starting>>
    BY <1>4 DEF PollInsert, netVars
  <2> QED
    BY <2>2, <2>3, <2>4, <2>5, SMTT(30) DEF ClaimInv, Issued, TypeOK, PollState
<1>5. CASE PollRespond(m)
  BY <1>5 DEF PollRespond, IdlePoll, ClaimInv, Issued, TypeOK, PollState, dbVars, jobVars, runVars, netVars
<1> QED
  BY <1>1, <1>2, <1>3, <1>4, <1>5 DEF PollStep

\* The steps of everybody but the pollers, as far as claims and runs go.
OtherStep ==
  \/ StartCycleRun
  \/ \E r \in Run : RunStep(r) \/ WalkStep(r)
  \/ SweepStep
  \/ ReconcileStep
  \/ \E n \in Node :
       \/ CancelJob(n) \/ CancelMark(n)
       \/ RetireWorker(n) \/ RetireMark(n) \/ DeleteWorker(n)
       \/ ResetBreaker(n)
  \/ Restart

\* What a step of anybody but a poll may do to claims and runs.
RunsFrame ==
  /\ attempts' = attempts
  /\ poll' = poll \/ poll' = [m \in Runner |-> IdlePoll]
  /\ \A r \in Run : \/ outcome'[r] = outcome[r]
                    \/ outcome[r] = "open" /\ outcome'[r] \in RunOutcomes
  /\ \A r \in Run : agent'[r] # "unknown" => agent[r] # "unknown"
  /\ \A r \in starting' : r \in starting \/ agent[r] # "unknown"

\* finalizeRun gives an outcome to open runs only.
LEMMA FinalizeRunFrame ==
  ASSUME TypeOK, NEW r \in Run, NEW rep \in RunReport, FinalizeRun(r, rep)
  PROVE  \A q \in Run : \/ outcome'[q] = outcome[q]
                        \/ outcome[q] = "open" /\ outcome'[q] \in RunOutcomes
<1>1. CASE ClaimsTheRun(r, rep)
  <2>1. outcome[r] = "open" /\ outcome' = [outcome EXCEPT ![r] = DerivedOutcome(rep)]
    BY <1>1 DEF ClaimsTheRun
  <2> QED
    BY <2>1, DerivedTypes DEF TypeOK
<1>2. CASE AlreadyFinalized(r)
  BY <1>2 DEF AlreadyFinalized, runVars
<1> QED
  BY <1>1, <1>2 DEF FinalizeRun

\* What fail and refuse report is a report.
LEMMA LastReportTypes == LastReports \subseteq RunReport
<1>1. ErrorReport \in RunReport /\ RefusalReport \in RunReport
  BY DEF ErrorReport, RefusalReport, RunReport, RunOutcomes
<1>2. UnextractableReport \in RunReport
  BY DEF ErrorReport, UnextractableReport, RunReport, RunOutcomes
<1> QED
  BY <1>1, <1>2 DEF LastReports

\* Nobody but a poll claims, and nobody but finalizeRun changes an outcome.
LEMMA OtherStepFrame == ASSUME TypeOK, OtherStep PROVE RunsFrame
<1>1. CASE StartCycleRun
  BY <1>1 DEF StartCycleRun, RunsFrame, runVars, handlerVars, netVars
<1>2. ASSUME NEW r \in Run, RunStep(r) PROVE RunsFrame
  <2>1. CASE SendStarted(r)
    BY <2>1 DEF SendStarted, RunsFrame, TypeOK, dbVars, runVars, handlerVars
  <2>2. CASE HandleStarted(r)
    BY <2>2 DEF HandleStarted, RunsFrame, TypeOK, runVars, handlerVars
  <2>3. CASE SendReport(r)
    BY <2>3 DEF SendReport, RunsFrame, TypeOK, dbVars, runVars, handlerVars
  <2>4. CASE SendLastReport(r)
    BY <2>4 DEF SendLastReport, RunsFrame, TypeOK, dbVars, runVars, handlerVars
  <2>5. ASSUME NEW rep, HandleReport(r, rep) PROVE RunsFrame
    <3>1. rep \in RunReport /\ FinalizeRun(r, rep)
      BY <2>5 DEF HandleReport, TypeOK
    <3>2. \A q \in Run : agent'[q] # "unknown" => agent[q] # "unknown"
      BY <2>5 DEF HandleReport, TypeOK
    <3> QED
      BY <2>5, <3>1, <3>2, FinalizeRunFrame DEF HandleReport, RunsFrame
  <2>6. CASE Publish(r)
    BY <2>6 DEF Publish, RunsFrame, TypeOK, dbVars, runVars, handlerVars
  <2>7. CASE HandlePublished(r)
    BY <2>7 DEF HandlePublished, RunsFrame, TypeOK, handlerVars
  <2>8. CASE RequestFails(r)
    BY <2>8 DEF RequestFails, RunsFrame, TypeOK, dbVars, runVars, handlerVars
  <2>9. CASE RunnerDies(r)
    BY <2>9 DEF RunnerDies, Active, RunsFrame, TypeOK, dbVars, runVars, handlerVars
  <2> QED
    BY <1>2, <2>1, <2>2, <2>3, <2>4, <2>5, <2>6, <2>7, <2>8, <2>9 DEF RunStep
<1>3. ASSUME NEW r \in Run, WalkStep(r) PROVE RunsFrame
  BY <1>3
  DEF WalkStep, WalkRead, WalkDecide, WalkQueue, WalkSkip, WalkMark, WalkFinish, WalkGrade,
      RunsFrame, dbVars, runVars, netVars
<1>4. CASE SweepStep
  <2>1. ASSUME NEW r \in Run, SweepRun(r) PROVE RunsFrame
    <3>1. ErrorReport \in RunReport /\ FinalizeRun(r, ErrorReport)
      BY <2>1, LastReportTypes DEF SweepRun, LastReports
    <3> QED
      BY <2>1, <3>1, FinalizeRunFrame DEF SweepRun, RunsFrame, netVars
  <2> QED
    BY <1>4, <2>1 DEF SweepStep, SweepSelect, SweepJob, RunsFrame, dbVars, runVars, netVars
<1>5. CASE ReconcileStep
  BY <1>5 DEF ReconcileStep, ReconcileSelect, ReconcileRow, RunsFrame, dbVars, runVars, netVars
<1>6. ASSUME NEW n \in Node,
         \/ CancelJob(n) \/ CancelMark(n)
         \/ RetireWorker(n) \/ RetireMark(n) \/ DeleteWorker(n) \/ ResetBreaker(n)
      PROVE RunsFrame
  BY <1>6
  DEF CancelJob, CancelMark, RetireWorker, RetireMark, DeleteWorker, ResetBreaker, RunsFrame,
      runVars, handlerVars, netVars
<1>7. CASE Restart
  BY <1>7 DEF Restart, RunsFrame, dbVars, runVars, netVars
<1> QED
  BY <1>1, <1>2, <1>3, <1>4, <1>5, <1>6, <1>7 DEF OtherStep

\* Nothing is claimed at first.
LEMMA ClaimInit == Init => ClaimInv
BY DEF Init, ClaimInv, IdlePoll

\* Every step keeps the claims apart.
LEMMA ClaimStep == ASSUME TypeOK, ClaimInv, [Next]_vars PROVE ClaimInv'
<1>1. CASE \E m \in Runner : PollStep(m)
  BY <1>1, ClaimPolls
<1>2. CASE OtherStep
  <2>1. RunsFrame
    BY <1>2, OtherStepFrame
  <2>2. \A r : Issued(r)' <=> Issued(r)
    BY <2>1 DEF RunsFrame, Issued
  <2>3. CASE poll' = poll
    BY <2>1, <2>2, <2>3 DEF RunsFrame, ClaimInv, TypeOK, PollState
  <2>4. CASE poll' = [m \in Runner |-> IdlePoll]
    BY <2>1, <2>2, <2>4 DEF RunsFrame, ClaimInv, IdlePoll, TypeOK
  <2> QED
    BY <2>1, <2>3, <2>4 DEF RunsFrame
<1>3. CASE UNCHANGED vars
  BY <1>3 DEF vars, ClaimInv, Issued, dbVars, runVars, handlerVars, netVars
<1> QED
  BY <1>1, <1>2, <1>3 DEF Next, OtherStep

\* No step changes the outcome of a run that has one.
LEMMA FinishedStays ==
  ASSUME TypeOK, ClaimInv, [Next]_vars PROVE \A r \in Run : Finished(r) => outcome'[r] = outcome[r]
<1>1. \A r \in Run : Finished(r) => outcome[r] # "absent" /\ outcome[r] # "open"
  BY DEF Finished, RunOutcomes
<1>2. ASSUME NEW m \in Runner, PollStep(m)
      PROVE  \A r \in Run : Finished(r) => outcome'[r] = outcome[r]
  <2>1. CASE PollInsert(m)
    BY <1>1, <2>1 DEF PollInsert, ClaimInv, TypeOK
  <2> QED
    BY <1>2, <2>1 DEF PollStep, PollCount, PollHold, PollClaim, PollRespond, dbVars, runVars
<1>3. CASE OtherStep
  BY <1>1, <1>3, OtherStepFrame DEF RunsFrame
<1>4. CASE UNCHANGED vars
  BY <1>4 DEF vars, dbVars, runVars
<1> QED
  BY <1>2, <1>3, <1>4 DEF Next, OtherStep

\* No two polls are ever about to insert the same run, and no run exists, is worked on or is
\* reported for an attempt the job row does not count (POST /jobs/claim).
THEOREM ClaimsInvariant == Spec => []ClaimInv
<1>1. Init => ClaimInv
  BY ClaimInit
<1>2. TypeOK /\ ClaimInv /\ [Next]_vars => ClaimInv'
  BY ClaimStep
<1> QED
  BY <1>1, <1>2, TypeCorrect, PTL DEF Spec

\* Once a run has an outcome it keeps it, for any number of runners, nodes, retries and
\* restarts (finalizeRun's conditional first write).
THEOREM OutcomeStays == Spec => OutcomeIsFinal
<1>1. TypeOK /\ ClaimInv /\ [Next]_vars
        => [\A r \in Run : Finished(r) => outcome'[r] = outcome[r]]_outcome
  BY FinishedStays
<1> QED
  BY <1>1, TypeCorrect, ClaimsInvariant, PTL DEF Spec, OutcomeIsFinal

-----------------------------------------------------------------------------
\* Some run of n succeeded; every dependency of n has ended.
HasSucceeded(n) == \E r \in RunsOf(n) : Succeeded(r)
DepsEnded(n) == \A e \in Incoming(n) : e.from \in settled

\* Whoever walks the graph has finished a run.
WalkInv == \A r \in Run : walk[r].phase # "idle" => Finished(r)

\* Before the trigger fires nothing has happened.
QuietInv ==
  cycle = "none" => /\ \A n \in Node : jobState[n] = "none" /\ attempts[n] = 0
                    /\ settled = {} /\ sweep.rows = {}

\* What is terminal, or was when a walk read it, has ended; a walk queues only
\* what has no dependency left, and grades only when every node has ended.
EndedInv ==
  /\ \A n \in Node : jobState[n] \in TerminalStates => n \in settled
  /\ \A r \in Run : \A n \in Node : walk[r].seen[n] \in TerminalStates => n \in settled
  /\ \A r \in Run : \A n \in walk[r].queue : DepsEnded(n)
  /\ \A r \in Run : walk[r].phase = "grade" => settled = Node

\* What succeeded, or had when a walk read it, has a run that did.
EarnedInv ==
  /\ \A n \in Node : jobState[n] = "succeeded" => HasSucceeded(n)
  /\ \A r \in Run : \A n \in Node : walk[r].seen[n] = "succeeded" => HasSucceeded(n)

\* The inductive invariant.
IInv ==
  /\ TypeOK /\ ClaimInv /\ WalkInv /\ QuietInv
  /\ EndedInv /\ DependenciesFirst /\ EarnedInv /\ GradeIsEarned

\* Before the trigger fires there is no run, no request and no walk.
LEMMA QuietFacts ==
  ASSUME TypeOK, ClaimInv, WalkInv, QuietInv, cycle = "none"
  PROVE  /\ \A r \in Run : outcome[r] = "absent" /\ walk[r].phase = "idle"
         /\ starting = {}
         /\ \A r \in Run : agent[r] = "unknown"
         /\ \A m \in Runner : poll[m].ids = {} /\ poll[m].out = {}
<1>1. ASSUME NEW r \in Run PROVE ~Issued(r)
  <2>1. r[1] \in Node /\ r[2] \in Nat /\ r[2] > 0
    BY RunNode
  <2>2. attempts[r[1]] = 0
    BY <2>1 DEF QuietInv
  <2> QED
    BY <2>1, <2>2 DEF Issued
<1>2. \A r \in Run : outcome[r] = "absent" /\ agent[r] = "unknown" /\ r \notin starting
  BY <1>1 DEF ClaimInv
<1>3. starting = {}
  BY <1>2 DEF TypeOK
<1>4. \A r \in Run : walk[r].phase = "idle"
  BY <1>2 DEF WalkInv, Finished, RunOutcomes
<1>5. \A m \in Runner : poll[m].ids = {} /\ poll[m].out = {}
  BY <1>1 DEF ClaimInv, TypeOK, PollState
<1> QED
  BY <1>2, <1>3, <1>4, <1>5

\* Nothing happens to the jobs.
QuietFrame == UNCHANGED <<cycle, jobState, attempts, settled>> /\ sweep'.rows = {}

\* Before the trigger fires, only the trigger changes the jobs.
LEMMA QuietSteps ==
  ASSUME TypeOK, ClaimInv, WalkInv, QuietInv, cycle = "none", [Next]_vars
  PROVE  StartCycleRun \/ QuietFrame
<1>1. /\ \A n \in Node : jobState[n] = "none" /\ attempts[n] = 0
      /\ settled = {} /\ sweep.rows = {}
  BY DEF QuietInv
<1>2. ASSUME NEW m \in Runner, PollStep(m) PROVE QuietFrame
  <2>1. CASE PollClaim(m)
    <3>1. Claimable(m) = {}
      BY <1>1, FleetAssumption DEF Claimable
    <3>2. jobState' = jobState /\ attempts' = attempts
      BY <2>1, <3>1 DEF PollClaim, TypeOK
    <3> QED
      BY <1>1, <2>1, <3>2 DEF PollClaim, QuietFrame
  <2> QED
    BY <1>1, <1>2, <2>1
    DEF PollStep, PollCount, PollHold, PollInsert, PollRespond, QuietFrame, dbVars, jobVars
<1>3. ASSUME NEW r \in Run, RunStep(r) PROVE QuietFrame
  <2>1. ASSUME NEW rep, HandleReport(r, rep) PROVE FALSE
    BY <2>1, QuietFacts DEF HandleReport, FinalizeRun, ClaimsTheRun, AlreadyFinalized, Finished, RunOutcomes
  <2> QED
    BY <1>1, <1>3, <2>1, QuietFacts
    DEF RunStep, SendStarted, HandleStarted, SendReport, SendLastReport, Publish, HandlePublished,
        RequestFails, RunnerDies, QuietFrame, dbVars, jobVars, handlerVars
<1>4. ASSUME NEW r \in Run, WalkStep(r) PROVE QuietFrame
  BY <1>1, <1>4, QuietFacts
  DEF WalkStep, WalkRead, WalkDecide, WalkQueue, WalkSkip, WalkMark, WalkFinish, WalkGrade,
      QuietFrame, dbVars, jobVars
<1>5. CASE SweepStep
  <2>1. ASSUME SweepSelect PROVE FALSE
    <3>1. PICK S \in SUBSET {n \in Node : MayBeStale(n)} : StaleRows(S) # {}
      BY <2>1 DEF SweepSelect
    <3>2. S = {}
      BY <1>1, <3>1 DEF MayBeStale, InFlight, InFlightStates
    <3> QED
      BY <3>1, <3>2 DEF StaleRows
  <2> QED
    BY <1>1, <1>5, <2>1 DEF SweepStep, SweepJob, SweepRun
<1>6. CASE ReconcileStep
  BY <1>1, <1>6 DEF ReconcileStep, ReconcileSelect, ReconcileRow, QuietFrame, dbVars, jobVars
<1>7. ASSUME NEW n \in Node,
         \/ CancelJob(n) \/ CancelMark(n)
         \/ RetireWorker(n) \/ RetireMark(n) \/ DeleteWorker(n) \/ ResetBreaker(n)
      PROVE QuietFrame
  BY <1>1, <1>7
  DEF CancelJob, CancelMark, RetireWorker, RetireMark, DeleteWorker, ResetBreaker, QuietFrame,
      jobVars, handlerVars
<1>8. CASE Restart
  BY <1>8 DEF Restart, NoSweep, QuietFrame, dbVars, jobVars
<1>9. CASE UNCHANGED vars
  BY <1>1, <1>9 DEF vars, QuietFrame, dbVars, jobVars, handlerVars
<1> QED
  BY <1>2, <1>3, <1>4, <1>5, <1>6, <1>7, <1>8, <1>9 DEF Next

\* What a step may do to a job.
JobChange(n) ==
  \/ jobState'[n] = jobState[n]
  \/ /\ jobState'[n] \in TerminalStates /\ n \in settled'
     /\ jobState'[n] = "succeeded" => HasSucceeded(n)'
  \/ cycle = "none" /\ jobState'[n] = "blocked"
  \/ cycle = "none" /\ jobState'[n] = "queued" /\ Incoming(n) = {}
  \/ jobState'[n] = "queued" /\ \E r \in Run : n \in walk[r].queue
  \/ jobState'[n] = "claimed" /\ jobState[n] = "queued"
  \/ jobState'[n] = "running" /\ \E r \in starting : r[1] = n

\* What a step may do to the jobs, to what has ended and to the cycle run.
JobsFrame ==
  /\ \A n \in Node : JobChange(n)
  /\ \A n \in Node : attempts'[n] = attempts[n] \/ jobState[n] = "queued"
  /\ settled \subseteq settled' \/ cycle = "none"
  /\ cycle' = "none" => cycle = "none"

\* An update of one job leaves the others alone.
LEMMA SetJobFrame ==
  ASSUME TypeOK, NEW n \in Node, NEW s, SetJob(n, s)
  PROVE  /\ \A k \in Node \ {n} : jobState'[k] = jobState[k]
         /\ jobState'[n] = s
         /\ settled \subseteq settled'
         /\ s \in TerminalStates => n \in settled'
BY DEF SetJob, TypeOK

\* finalizeRun ends the run's job, and calls it succeeded only when the run was.
LEMMA FinalizeRunJobs ==
  ASSUME TypeOK, NEW r \in Run, NEW rep \in RunReport, FinalizeRun(r, rep)
  PROVE  (\A n \in Node : JobChange(n)) /\ settled \subseteq settled'
<1>1. CASE ClaimsTheRun(r, rep)
  <2> DEFINE o == DerivedOutcome(rep)
  <2>1. SetJob(r[1], JobStateOf(o)) /\ outcome' = [outcome EXCEPT ![r] = o]
    BY <1>1 DEF ClaimsTheRun
  <2>2. r[1] \in Node /\ JobStateOf(o) \in TerminalStates
    BY RunNode, DerivedTypes
  <2>3. JobStateOf(o) = "succeeded" => HasSucceeded(r[1])'
    <3>1. outcome'[r] = o
      BY <2>1 DEF TypeOK
    <3>2. JobStateOf(o) = "succeeded" => o \in {"approved", "dispatched"}
      BY DEF JobStateOf
    <3> QED
      BY <3>1, <3>2 DEF HasSucceeded, RunsOf, Succeeded
  <2>4. /\ \A k \in Node \ {r[1]} : jobState'[k] = jobState[k]
        /\ jobState'[r[1]] = JobStateOf(o)
        /\ settled \subseteq settled'
        /\ r[1] \in settled'
    BY <2>1, <2>2, SetJobFrame
  <2> QED
    BY <2>2, <2>3, <2>4 DEF JobChange
<1>2. CASE AlreadyFinalized(r)
  BY <1>2 DEF AlreadyFinalized, JobChange, jobVars
<1> QED
  BY <1>1, <1>2 DEF FinalizeRun

\* A step that leaves the jobs alone does nothing to them.
LEMMA JobsUntouched ==
  ASSUME UNCHANGED <<jobState, settled, attempts>>, cycle' = "none" => cycle = "none"
  PROVE  JobsFrame
BY DEF JobsFrame, JobChange

\* A step that updates one job, and nothing else about jobs, does one of the things JobChange lists.
LEMMA JobSet ==
  ASSUME TypeOK, NEW n \in Node, NEW s, SetJob(n, s), UNCHANGED <<attempts, cycle>>,
         \/ s \in TerminalStates \ {"succeeded"}
         \/ s = "queued" /\ \E r \in Run : n \in walk[r].queue
         \/ s = "running" /\ \E r \in starting : r[1] = n
  PROVE  JobsFrame
<1>1. /\ \A k \in Node \ {n} : jobState'[k] = jobState[k]
      /\ jobState'[n] = s
      /\ settled \subseteq settled'
      /\ s \in TerminalStates => n \in settled'
  BY SetJobFrame
<1> QED
  BY <1>1 DEF JobsFrame, JobChange

\* Every step changes jobs only in the ways JobChange lists.
LEMMA JobsStep == ASSUME TypeOK, [Next]_vars PROVE JobsFrame
<1>1. CASE StartCycleRun
  <2>1. cycle = "none" /\ cycle' = "running" /\ attempts' = attempts
    BY <1>1 DEF StartCycleRun
  <2>2. PICK refused \in SUBSET Refusable :
          /\ jobState' = [n \in Node |->
               CASE n \in refused -> "skipped"
                 [] n \notin refused /\ Incoming(n) # {} -> "blocked"
                 [] OTHER -> "queued"]
          /\ settled' = refused
    BY <1>1 DEF StartCycleRun
  <2>3. ASSUME NEW n \in Node PROVE JobChange(n)
    <3>1. CASE n \in refused
      BY <2>2, <3>1 DEF JobChange, TerminalStates
    <3>2. CASE n \notin refused /\ Incoming(n) # {}
      BY <2>1, <2>2, <3>2 DEF JobChange
    <3>3. CASE n \notin refused /\ Incoming(n) = {}
      BY <2>1, <2>2, <3>3 DEF JobChange
    <3> QED
      BY <3>1, <3>2, <3>3
  <2> QED
    BY <2>1, <2>3 DEF JobsFrame
<1>2. ASSUME NEW m \in Runner, PollStep(m) PROVE JobsFrame
  <2>1. CASE PollClaim(m)
    <3>1. PICK ids \in SUBSET Claimable(m) :
         /\ jobState' = [n \in Node |-> IF n \in ids THEN "claimed" ELSE jobState[n]]
         /\ attempts' = [n \in Node |-> IF n \in ids THEN attempts[n] + 1 ELSE attempts[n]]
      BY <2>1 DEF PollClaim
    <3>2. \A n \in ids : jobState[n] = "queued"
      BY <3>1 DEF Claimable
    <3> QED
      BY <2>1, <3>1, <3>2 DEF PollClaim, JobsFrame, JobChange
  <2> QED
    BY <1>2, <2>1, JobsUntouched
    DEF PollStep, PollCount, PollHold, PollInsert, PollRespond, dbVars, jobVars
<1>3. ASSUME NEW r \in Run, RunStep(r) PROVE JobsFrame
  <2>1. CASE HandleStarted(r)
    BY <2>1, RunNode, JobSet DEF HandleStarted
  <2>2. ASSUME NEW rep, HandleReport(r, rep) PROVE JobsFrame
    <3>1. rep \in RunReport /\ FinalizeRun(r, rep) /\ UNCHANGED <<attempts, cycle>>
      BY <2>2 DEF HandleReport, TypeOK
    <3> QED
      BY <3>1, FinalizeRunJobs DEF JobsFrame
  <2> QED
    BY <1>3, <2>1, <2>2, JobsUntouched
    DEF RunStep, SendStarted, SendReport, SendLastReport, Publish, HandlePublished,
        RequestFails, RunnerDies, dbVars, jobVars
<1>4. ASSUME NEW r \in Run, WalkStep(r) PROVE JobsFrame
  <2>1. ASSUME NEW n \in Node, WalkQueue(r, n) \/ WalkSkip(r, n) PROVE JobsFrame
    BY <2>1, JobSet DEF WalkQueue, WalkSkip, TerminalStates
  <2>2. CASE WalkGrade(r)
    <3>1. cycle' = "none" => cycle = "none"
      BY <2>2 DEF WalkGrade, GradeOf
    <3> QED
      BY <2>2, <3>1, JobsUntouched DEF WalkGrade, jobVars
  <2> QED
    BY <1>4, <2>1, <2>2, JobsUntouched
    DEF WalkStep, WalkRead, WalkDecide, WalkMark, WalkFinish, dbVars, jobVars
<1>5. CASE SweepStep
  <2>1. ASSUME NEW n \in Node, SweepJob(n) PROVE JobsFrame
    BY <2>1, JobSet DEF SweepJob, TerminalStates
  <2>2. ASSUME NEW r \in Run, SweepRun(r) PROVE JobsFrame
    <3>1. ErrorReport \in RunReport
      BY LastReportTypes DEF LastReports
    <3>2. FinalizeRun(r, ErrorReport) /\ UNCHANGED <<attempts, cycle>>
      BY <2>2 DEF SweepRun
    <3> QED
      BY <3>1, <3>2, FinalizeRunJobs DEF JobsFrame
  <2> QED
    BY <1>5, <2>1, <2>2, JobsUntouched DEF SweepStep, SweepSelect, dbVars, jobVars
<1>6. CASE ReconcileStep
  BY <1>6, JobsUntouched DEF ReconcileStep, ReconcileSelect, ReconcileRow, dbVars, jobVars
<1>7. ASSUME NEW n \in Node,
         \/ CancelJob(n) \/ CancelMark(n)
         \/ RetireWorker(n) \/ RetireMark(n) \/ DeleteWorker(n) \/ ResetBreaker(n)
      PROVE JobsFrame
  <2>1. CASE CancelJob(n)
    BY <2>1, JobSet DEF CancelJob, TerminalStates
  <2>2. CASE RetireWorker(n)
    BY <2>2, JobSet, JobsUntouched DEF RetireWorker, TerminalStates, jobVars
  <2> QED
    BY <1>7, <2>1, <2>2, JobsUntouched
    DEF CancelMark, RetireMark, DeleteWorker, ResetBreaker, jobVars
<1>8. CASE Restart
  BY <1>8, JobsUntouched DEF Restart, dbVars, jobVars
<1>9. CASE UNCHANGED vars
  BY <1>9, JobsUntouched DEF vars, dbVars, jobVars
<1> QED
  BY <1>1, <1>2, <1>3, <1>4, <1>5, <1>6, <1>7, <1>8, <1>9 DEF Next

\* What a step may do to a walk.
WalkChange(r) ==
  /\ \/ walk'[r].seen = walk[r].seen
     \/ walk'[r].seen = jobState
     \/ \A n \in Node : walk'[r].seen[n] = "none"
  /\ \A n \in walk'[r].queue :
       \/ n \in walk[r].queue
       \/ \A e \in Incoming(n) :
            /\ walk[r].seen[e.from] \in TerminalStates
            /\ e.onDepFailure = "block" => walk[r].seen[e.from] = "succeeded"
  /\ walk'[r].phase # "idle" => walk[r].phase # "idle" \/ Finished(r)'
  /\ walk'[r].phase = "grade" =>
       \/ walk[r].phase = "grade"
       \/ \A n \in Node : jobState[n] \in TerminalStates

WalkFrame == \A r \in Run : WalkChange(r)

\* A step that leaves the walks alone does nothing to them.
LEMMA WalkUntouched == ASSUME UNCHANGED walk PROVE WalkFrame
BY DEF WalkFrame, WalkChange

\* finalizeRun starts a walk for a run that has just finished.
LEMMA FinalizeRunWalk ==
  ASSUME TypeOK, NEW r \in Run, NEW rep \in RunReport, FinalizeRun(r, rep) PROVE WalkFrame
<1>1. CASE ClaimsTheRun(r, rep)
  <2>1. outcome'[r] \in RunOutcomes
    BY <1>1, DerivedTypes DEF ClaimsTheRun, TypeOK
  <2>2. walk' = [walk EXCEPT ![r] = [IdleWalk EXCEPT !.phase = "release"]]
    BY <1>1 DEF ClaimsTheRun
  <2>3. WalkChange(r)
    BY <2>1, <2>2 DEF WalkChange, IdleWalk, Finished, TypeOK
  <2>4. ASSUME NEW q \in Run \ {r} PROVE WalkChange(q)
    BY <2>2 DEF WalkChange, TypeOK
  <2> QED
    BY <2>3, <2>4 DEF WalkFrame
<1>2. CASE AlreadyFinalized(r)
  BY <1>2, WalkUntouched DEF AlreadyFinalized
<1> QED
  BY <1>1, <1>2 DEF FinalizeRun

\* A walk's own steps change it only in the ways WalkChange lists.
LEMMA WalkStepFrame == ASSUME TypeOK, NEW r \in Run, WalkStep(r) PROVE WalkFrame
<1>1. \A q \in Run \ {r} : walk'[q] = walk[q]
  BY ZenonT(30) DEF WalkStep, WalkRead, WalkDecide, WalkQueue, WalkSkip, WalkMark, WalkFinish, WalkGrade, TypeOK
<1>2. walk[r] \in WalkState
  BY DEF TypeOK
<1>3. ASSUME WalkRead(r) PROVE WalkChange(r)
  <2>1. /\ walk'[r].seen = jobState /\ walk'[r].queue = walk[r].queue
        /\ walk[r].phase = "release" /\ walk'[r].phase = "decide"
    BY <1>2, <1>3 DEF WalkRead, WalkState, TypeOK
  <2> QED
    BY <2>1 DEF WalkChange
<1>4. ASSUME WalkDecide(r) PROVE WalkChange(r)
  <2> DEFINE seen == walk[r].seen
             skip == {n \in Releasable(seen) : BlockedBy(n, seen, DeclinedNodes) # {}}
             queue == Releasable(seen) \ skip
  <2>1. /\ walk' = [walk EXCEPT ![r] =
                      [IdleWalk EXCEPT !.phase = "write", !.skip = skip, !.queue = queue]]
        /\ walk[r].phase = "decide"
    BY <1>4 DEF WalkDecide
  <2>2. \A n \in queue : \A e \in Incoming(n) :
          /\ seen[e.from] \in TerminalStates
          /\ e.onDepFailure = "block" => seen[e.from] = "succeeded"
    BY DEF Releasable, BlockedBy
  <2> HIDE DEF skip, queue
  <2>3. /\ \A n \in Node : walk'[r].seen[n] = "none"
        /\ walk'[r].queue = queue /\ walk'[r].phase = "write"
    BY <2>1 DEF IdleWalk, TypeOK
  <2> QED
    BY <2>1, <2>2, <2>3 DEF WalkChange
<1>5. ASSUME NEW n \in Node, WalkQueue(r, n) \/ WalkSkip(r, n) PROVE WalkChange(r)
  <2>1. /\ walk'[r].seen = walk[r].seen /\ walk'[r].queue \subseteq walk[r].queue
        /\ walk'[r].phase = walk[r].phase
    <3>1. CASE WalkQueue(r, n)
      BY <1>2, <3>1 DEF WalkQueue, WalkState, TypeOK
    <3>2. CASE WalkSkip(r, n)
      BY <1>2, <3>2 DEF WalkSkip, WalkState, TypeOK
    <3> QED
      BY <1>5, <3>1, <3>2
  <2> QED
    BY <2>1 DEF WalkChange
<1>6. ASSUME WalkMark(r) PROVE WalkChange(r)
  <2>1. /\ walk'[r].seen = walk[r].seen /\ walk'[r].queue = walk[r].queue
        /\ walk'[r].phase = walk[r].phase
    BY <1>2, <1>6 DEF WalkMark, WalkState, TypeOK
  <2> QED
    BY <2>1 DEF WalkChange
<1>7. ASSUME WalkFinish(r) PROVE WalkChange(r)
  <2>1. /\ walk[r].phase = "write" /\ walk'[r].queue = {}
        /\ walk'[r].seen = jobState \/ \A n \in Node : walk'[r].seen[n] = "none"
        /\ walk'[r].phase = "grade" => \A n \in Node : jobState[n] \in TerminalStates
    <3>1. CASE \A n \in Node : jobState[n] \in TerminalStates
      BY <1>7, <3>1 DEF WalkFinish, IdleWalk, TypeOK
    <3>2. CASE ~\A n \in Node : jobState[n] \in TerminalStates
      BY <1>7, <3>2 DEF WalkFinish, IdleWalk, TypeOK
    <3> QED
      BY <3>1, <3>2
  <2> QED
    BY <2>1 DEF WalkChange
<1>8. ASSUME WalkGrade(r) PROVE WalkChange(r)
  <2>1. walk'[r] = IdleWalk
    BY <1>8 DEF WalkGrade, TypeOK
  <2> QED
    BY <2>1 DEF WalkChange, IdleWalk
<1>9. WalkChange(r)
  BY <1>3, <1>4, <1>5, <1>6, <1>7, <1>8 DEF WalkStep
<1>10. \A q \in Run \ {r} : WalkChange(q)
  BY <1>1 DEF WalkChange
<1> QED
  BY <1>9, <1>10 DEF WalkFrame

\* Every step but a restart changes walks only in the ways WalkChange lists.
LEMMA WalksStep == ASSUME TypeOK, [Next]_vars PROVE WalkFrame \/ Restart
<1>1. ASSUME NEW r \in Run, RunStep(r) PROVE WalkFrame
  <2>1. ASSUME NEW rep, HandleReport(r, rep) PROVE WalkFrame
    BY <2>1, FinalizeRunWalk DEF HandleReport, TypeOK
  <2> QED
    BY <1>1, <2>1, WalkUntouched
    DEF RunStep, SendStarted, HandleStarted, SendReport, SendLastReport, Publish, HandlePublished,
        RequestFails, RunnerDies, handlerVars
<1>2. CASE SweepStep
  <2>1. ASSUME NEW r \in Run, SweepRun(r) PROVE WalkFrame
    <3>1. ErrorReport \in RunReport /\ FinalizeRun(r, ErrorReport)
      BY <2>1, LastReportTypes DEF SweepRun, LastReports
    <3> QED
      BY <3>1, FinalizeRunWalk
  <2> QED
    BY <1>2, <2>1, WalkUntouched DEF SweepStep, SweepSelect, SweepJob
<1>3. ASSUME NEW m \in Runner, PollStep(m) PROVE WalkFrame
  BY <1>3, WalkUntouched DEF PollStep, PollCount, PollHold, PollClaim, PollInsert, PollRespond
<1>4. ASSUME NEW n \in Node,
         \/ CancelJob(n) \/ CancelMark(n)
         \/ RetireWorker(n) \/ RetireMark(n) \/ DeleteWorker(n) \/ ResetBreaker(n)
      PROVE WalkFrame
  BY <1>4, WalkUntouched
  DEF CancelJob, CancelMark, RetireWorker, RetireMark, DeleteWorker, ResetBreaker, handlerVars
<1>5. CASE StartCycleRun \/ ReconcileStep \/ UNCHANGED vars
  BY <1>5, WalkUntouched
  DEF StartCycleRun, ReconcileStep, ReconcileSelect, ReconcileRow, vars, handlerVars
<1> QED
  BY <1>1, <1>2, <1>3, <1>4, <1>5, WalkStepFrame DEF Next

-----------------------------------------------------------------------------
\* The inductive invariant holds at first.
LEMMA InvInit == Init => IInv
<1> SUFFICES ASSUME Init PROVE IInv
  OBVIOUS
<1>1. TypeOK /\ ClaimInv
  BY TypeInit, ClaimInit
<1>2. WalkInv /\ QuietInv
  BY DEF Init, WalkInv, QuietInv, IdleWalk, NoSweep
<1>3. EndedInv /\ EarnedInv
  BY DEF Init, EndedInv, EarnedInv, IdleWalk, TerminalStates
<1>4. DependenciesFirst /\ GradeIsEarned
  BY DEF Init, DependenciesFirst, GradeIsEarned, NonTerminal
<1> QED
  BY <1>1, <1>2, <1>3, <1>4 DEF IInv

\* Only a finished run walks, after every step.
LEMMA WalkInvStep == ASSUME IInv, [Next]_vars PROVE WalkInv'
<1>1. \A r \in Run : Finished(r) => Finished(r)'
  BY FinishedStays DEF IInv, Finished
<1>2. CASE WalkFrame
  BY <1>1, <1>2 DEF IInv, WalkInv, WalkFrame, WalkChange
<1>3. CASE Restart
  BY <1>3 DEF Restart, WalkInv, IdleWalk
<1> QED
  BY <1>2, <1>3, WalksStep DEF IInv

\* Until the trigger fires nothing has happened, after every step.
LEMMA QuietInvStep == ASSUME IInv, [Next]_vars PROVE QuietInv'
<1> SUFFICES ASSUME cycle' = "none" PROVE QuietInv'
  BY DEF QuietInv
<1>1. cycle = "none"
  BY JobsStep DEF JobsFrame, IInv
<1>2. CASE StartCycleRun
  BY <1>2 DEF StartCycleRun
<1>3. CASE QuietFrame
  BY <1>1, <1>3 DEF QuietFrame, QuietInv, IInv
<1> QED
  BY <1>1, <1>2, <1>3, QuietSteps DEF IInv

\* What has ended stays ended.
LEMMA SettledStays == ASSUME IInv, [Next]_vars PROVE settled \subseteq settled'
BY JobsStep DEF JobsFrame, IInv, QuietInv

\* What is terminal, or was read as terminal, has ended, after every step.
LEMMA EndedInvStep == ASSUME IInv, [Next]_vars PROVE EndedInv'
<1>1. settled \subseteq settled' /\ JobsFrame /\ settled' \subseteq Node
  BY SettledStays, JobsStep, TypeStep DEF IInv, TypeOK
<1>2. \A n \in Node : jobState'[n] \in TerminalStates => n \in settled'
  BY <1>1 DEF JobsFrame, JobChange, IInv, EndedInv, TerminalStates
<1>3. CASE WalkFrame
  <2>1. ASSUME NEW r \in Run, NEW n \in Node, walk'[r].seen[n] \in TerminalStates
        PROVE  n \in settled'
    BY <1>1, <1>3, <2>1 DEF WalkFrame, WalkChange, IInv, EndedInv, TerminalStates
  <2>2. ASSUME NEW r \in Run, NEW n \in walk'[r].queue, NEW e \in Incoming(n)
        PROVE  e.from \in settled'
    <3>1. e.from \in Node
      BY GraphAssumption DEF Incoming
    <3>2. CASE n \in walk[r].queue
      BY <1>1, <3>2 DEF IInv, EndedInv, DepsEnded
    <3>3. CASE walk[r].seen[e.from] \in TerminalStates
      BY <1>1, <3>1, <3>3 DEF IInv, EndedInv
    <3> QED
      BY <1>3, <3>2, <3>3 DEF WalkFrame, WalkChange
  <2>3. ASSUME NEW r \in Run, walk'[r].phase = "grade" PROVE settled' = Node
    BY <1>1, <1>3, <2>3, ZenonT(30) DEF WalkFrame, WalkChange, IInv, EndedInv, TypeOK
  <2> QED
    BY <1>2, <2>1, <2>2, <2>3 DEF EndedInv, DepsEnded, Incoming
<1>4. CASE Restart
  BY <1>2, <1>4 DEF Restart, EndedInv, IdleWalk, TerminalStates
<1> QED
  BY <1>3, <1>4, WalksStep DEF IInv

\* No step hands out or queues a job before its dependencies ended.
LEMMA DependenciesFirstStep == ASSUME IInv, [Next]_vars PROVE DependenciesFirst'
<1>1. settled \subseteq settled' /\ JobsFrame
  BY SettledStays, JobsStep DEF IInv
<1> SUFFICES ASSUME NEW n \in Node, NEW e \in Incoming(n),
                    jobState'[n] \in NonTerminal \ {"blocked"} \/ attempts'[n] > 0
             PROVE  e.from \in settled'
  BY DEF DependenciesFirst, Incoming
<1>2. attempts[n] > 0 \/ jobState[n] = "queued" => e.from \in settled
  BY DEF IInv, DependenciesFirst, NonTerminal
<1>3. CASE attempts'[n] > 0
  BY <1>1, <1>2, <1>3 DEF JobsFrame
<1>4. CASE jobState'[n] \in NonTerminal \ {"blocked"} /\ jobState'[n] = jobState[n]
  BY <1>1, <1>4 DEF IInv, DependenciesFirst
<1>5. CASE jobState'[n] = "queued" /\ \E r \in Run : n \in walk[r].queue
  BY <1>1, <1>5 DEF IInv, EndedInv, DepsEnded
<1>6. CASE jobState'[n] = "running" /\ \E r \in starting : r[1] = n
  <2>1. PICK r \in Run : r[1] = n /\ Issued(r)
    BY <1>6 DEF IInv, ClaimInv, TypeOK
  <2>2. r[2] \in Nat /\ r[2] > 0 /\ attempts[n] \in Nat
    BY RunNode DEF IInv, TypeOK
  <2>3. attempts[n] > 0
    BY <2>1, <2>2 DEF Issued
  <2> QED
    BY <1>1, <1>2, <2>3
<1>7. CASE jobState'[n] = "claimed" /\ jobState[n] = "queued"
  BY <1>1, <1>2, <1>7
<1>8. jobState'[n] \in NonTerminal \ {"blocked"}
        => jobState'[n] \notin TerminalStates /\ jobState'[n] # "blocked" /\ Incoming(n) # {}
  BY DEF NonTerminal, TerminalStates
<1> QED
  BY <1>1, <1>3, <1>4, <1>5, <1>6, <1>7, <1>8 DEF JobsFrame, JobChange

\* A node that has a run that succeeded keeps it.
LEMMA SucceededStays ==
  ASSUME IInv, [Next]_vars PROVE \A n \in Node : HasSucceeded(n) => HasSucceeded(n)'
<1>1. \A r \in Run : Succeeded(r) => Succeeded(r)'
  BY FinishedStays DEF IInv, Succeeded, Finished, RunOutcomes
<1> QED
  BY <1>1 DEF HasSucceeded, RunsOf

\* What succeeded, or was read as succeeded, has a run that did, after every step.
LEMMA EarnedInvStep == ASSUME IInv, [Next]_vars PROVE EarnedInv'
<1>1. JobsFrame /\ \A n \in Node : HasSucceeded(n) => HasSucceeded(n)'
  BY JobsStep, SucceededStays DEF IInv
<1>2. \A n \in Node : jobState'[n] = "succeeded" => HasSucceeded(n)'
  BY <1>1 DEF JobsFrame, JobChange, IInv, EarnedInv
<1>3. CASE WalkFrame
  BY <1>1, <1>2, <1>3 DEF WalkFrame, WalkChange, IInv, EarnedInv
<1>4. CASE Restart
  BY <1>2, <1>4 DEF Restart, EarnedInv, IdleWalk
<1> QED
  BY <1>3, <1>4, WalksStep DEF IInv

\* A grade written from a read that may be stale is still earned when it is written.
LEMMA GradeStep ==
  ASSUME IInv, NEW r \in Run, WalkGrade(r), cycle = "running"
  PROVE  /\ settled = Node
         /\ cycle' = "complete" => \A n \in Node : HasSucceeded(n)
         /\ cycle' = "declined" => \E q \in Run : outcome[q] = "declined"
<1>1. settled = Node
  BY DEF WalkGrade, IInv, EndedInv
<1>2. cycle' = GradeOf(walk[r].seen, DeclinedNodes)
  BY DEF WalkGrade
<1>3. cycle' = "complete" => \A n \in Node : walk[r].seen[n] = "succeeded"
  BY <1>2 DEF GradeOf
<1>4. cycle' = "declined" => DeclinedNodes # {}
  BY <1>2 DEF GradeOf
<1> QED
  BY <1>1, <1>3, <1>4 DEF IInv, EarnedInv, DeclinedNodes, HasRun

\* Only the trigger and a walk that finds the run ungraded write cycle_runs.state.
CycleChange ==
  \/ cycle' = cycle
  \/ StartCycleRun
  \/ cycle = "running" /\ \E r \in Run : WalkGrade(r)

\* Only the trigger and a walk that finds the run ungraded write cycle_runs.state.
LEMMA CycleStep == ASSUME TypeOK, [Next]_vars PROVE CycleChange
<1>1. ASSUME NEW m \in Runner, PollStep(m) PROVE CycleChange
  BY <1>1
  DEF PollStep, PollCount, PollHold, PollClaim, PollInsert, PollRespond, CycleChange, dbVars
<1>2. ASSUME NEW r \in Run, RunStep(r) PROVE CycleChange
  BY <1>2
  DEF RunStep, SendStarted, HandleStarted, SendReport, SendLastReport, HandleReport, Publish,
      HandlePublished, RequestFails, RunnerDies, CycleChange, dbVars
<1>3. ASSUME NEW r \in Run, WalkStep(r) PROVE CycleChange
  <2>1. CASE WalkGrade(r)
    BY <2>1 DEF WalkGrade, CycleChange
  <2> QED
    BY <1>3, <2>1
    DEF WalkStep, WalkRead, WalkDecide, WalkQueue, WalkSkip, WalkMark, WalkFinish, CycleChange, dbVars
<1>4. CASE SweepStep \/ ReconcileStep
  BY <1>4
  DEF SweepStep, SweepSelect, SweepJob, SweepRun, ReconcileStep, ReconcileSelect, ReconcileRow,
      CycleChange, dbVars
<1>5. ASSUME NEW n \in Node,
         \/ CancelJob(n) \/ CancelMark(n)
         \/ RetireWorker(n) \/ RetireMark(n) \/ DeleteWorker(n) \/ ResetBreaker(n)
      PROVE CycleChange
  BY <1>5
  DEF CancelJob, CancelMark, RetireWorker, RetireMark, DeleteWorker, ResetBreaker, CycleChange
<1>6. CASE Restart \/ UNCHANGED vars
  BY <1>6 DEF Restart, vars, CycleChange, dbVars
<1> QED
  BY <1>1, <1>2, <1>3, <1>4, <1>5, <1>6 DEF Next, CycleChange

\* The grade stays earned after every step.
LEMMA GradeIsEarnedStep == ASSUME IInv, [Next]_vars PROVE GradeIsEarned'
<1>1. GradeIsEarned /\ settled \subseteq settled' /\ settled' \subseteq Node
  BY SettledStays, TypeStep DEF IInv, TypeOK
<1>2. \A n \in Node : HasSucceeded(n) => HasSucceeded(n)'
  BY SucceededStays
<1>3. (\E q \in Run : outcome[q] = "declined") => \E q \in Run : outcome'[q] = "declined"
  BY FinishedStays DEF IInv, Finished, RunOutcomes
<1>4. CASE cycle' = cycle
  BY <1>1, <1>2, <1>3, <1>4 DEF GradeIsEarned, HasSucceeded
<1>5. CASE StartCycleRun
  BY <1>5 DEF StartCycleRun, GradeIsEarned
<1>6. ASSUME NEW r \in Run, WalkGrade(r), cycle = "running" PROVE GradeIsEarned'
  BY <1>1, <1>2, <1>3, <1>6, GradeStep DEF GradeIsEarned, HasSucceeded
<1> QED
  BY <1>4, <1>5, <1>6, CycleStep DEF CycleChange, IInv

\* IInv is inductive.
LEMMA InvStep == IInv /\ [Next]_vars => IInv'
<1> SUFFICES ASSUME IInv, [Next]_vars PROVE IInv'
  OBVIOUS
<1>1. TypeOK' /\ ClaimInv'
  BY TypeStep, ClaimStep DEF IInv
<1>2. WalkInv' /\ QuietInv' /\ EndedInv' /\ DependenciesFirst' /\ EarnedInv' /\ GradeIsEarned'
  BY WalkInvStep, QuietInvStep, EndedInvStep, DependenciesFirstStep, EarnedInvStep, GradeIsEarnedStep
<1> QED
  BY <1>1, <1>2 DEF IInv

\* The inductive invariant holds throughout.
THEOREM InvariantHolds == Spec => []IInv
BY InvInit, InvStep, PTL DEF Spec

\* A job is handed out only after each of its dependencies has come to an end, on every graph
\* and however reports, sweeps, cancels, restarts and walks interleave (releaseDependents).
THEOREM DependenciesComeFirst == Spec => []DependenciesFirst
<1>1. IInv => DependenciesFirst
  BY DEF IInv
<1> QED
  BY <1>1, InvariantHolds, PTL

\* A cycle run is graded only after every node has ended, `complete` only when every node has a
\* run that succeeded, `declined` only when a run declined (finalizeCycleIfDone), on every graph.
THEOREM GradesAreEarned == Spec => []GradeIsEarned
<1>1. IInv => GradeIsEarned
  BY DEF IInv
<1> QED
  BY <1>1, InvariantHolds, PTL

\* A cycle run is graded once, however many walks find every job terminal.
THEOREM GradesStay == Spec => GradedOnce
<1>1. TypeOK /\ [Next]_vars => [cycle \notin {"none", "running"} => cycle' = cycle]_cycle
  BY CycleStep DEF CycleChange, StartCycleRun
<1> QED
  BY <1>1, TypeCorrect, PTL DEF Spec, GradedOnce

-----------------------------------------------------------------------------
(* The ledger of coverage, breakers and block edges (finalize.ts, sweep.ts, *)
(* cycles.ts).                                                             *)

\* What a runner can say of a run, and what is in flight.
Said == AgentReport \cup LastReports
SaidInv == reports \subseteq Run \X Said

\* What a runner can say is a report.
LEMMA SaidTypes == Said \subseteq RunReport
BY ReportAssumption, LastReportTypes DEF Said

\* A step that gives no run an outcome: what it may do to the ledger and the breakers.
Uneventful ==
  /\ \A r \in Run : outcome'[r] = outcome[r] \/ outcome'[r] = "open"
  /\ \/ StartCycleRun
     \/ \A n \in Node : \/ coverage'[n] = coverage[n]
                        \/ coverage'[n] \in {"abandoned", "blocked", "cancelled"}
  /\ \A n \in Node : \/ failures'[n] = failures[n] /\ opened'[n] = opened[n]
                     \/ failures'[n] = 0 /\ opened'[n] = FALSE

\* A run ends.
Eventful == \E r \in Run, rep \in Said : ClaimsTheRun(r, rep)

\* finalizeRun ends the run, or finds it ended and writes nothing.
LEMMA FinalizeIsEventful ==
  ASSUME TypeOK, NEW r \in Run, NEW rep \in Said, FinalizeRun(r, rep)
  PROVE  Eventful \/ Uneventful
<1>1. CASE AlreadyFinalized(r)
  BY <1>1 DEF AlreadyFinalized, Uneventful, runVars, workerVars
<1> QED
  BY <1>1, Zenon DEF FinalizeRun, Eventful

\* A step that leaves all four tables alone is uneventful.
LEMMA StillWater ==
  ASSUME UNCHANGED <<outcome, coverage, failures, opened>>
  PROVE  Uneventful
BY DEF Uneventful

\* A ledger entry that is not a run's is uneventful.
LEMMA Written ==
  ASSUME TypeOK, NEW n \in Node, NEW o \in {"abandoned", "blocked", "cancelled"},
         MarkCoverage(n, o), UNCHANGED <<outcome, failures, opened>>
  PROVE  Uneventful
BY DEF Uneventful, MarkCoverage, TypeOK

\* Runs get their outcomes, the ledger what a run says and the breakers what they
\* count from finalizeRun alone.
LEMMA EventfulOrNot ==
  ASSUME TypeOK, SaidInv, [Next]_vars
  PROVE  Eventful \/ Uneventful
<1>1. CASE StartCycleRun
  BY <1>1 DEF StartCycleRun, Uneventful, runVars, workerVars
<1>2. ASSUME NEW m \in Runner, PollStep(m)
      PROVE  Uneventful
  <2>1. CASE PollInsert(m)
    BY <2>1 DEF PollInsert, Uneventful, workerVars, TypeOK, PollState
  <2> QED
    BY <1>2, <2>1, StillWater
    DEF PollStep, PollCount, PollHold, PollClaim, PollRespond, dbVars, runVars, workerVars
<1>3. ASSUME NEW r \in Run, RunStep(r)
      PROVE  Eventful \/ Uneventful
  <2>1. ASSUME NEW q \in reports, q[1] = r, HandleReport(r, q[2])
        PROVE  Eventful \/ Uneventful
    <3>1. q[2] \in Said
      BY DEF SaidInv
    <3>2. FinalizeRun(r, q[2])
      BY <2>1 DEF HandleReport
    <3> QED
      BY <3>1, <3>2, FinalizeIsEventful
  <2> QED
    BY <1>3, <2>1, StillWater
    DEF RunStep, SendStarted, HandleStarted, SendReport, SendLastReport, Publish, HandlePublished,
        RequestFails, RunnerDies, dbVars, runVars, workerVars
<1>4. ASSUME NEW r \in Run, WalkStep(r)
      PROVE  Uneventful
  <2>1. CASE WalkMark(r)
    <3>1. PICK n \in walk[r].mark : MarkCoverage(n, "blocked")
      BY <2>1 DEF WalkMark
    <3>2. n \in Node
      BY <3>1 DEF TypeOK, WalkState
    <3> QED
      BY <2>1, <3>1, <3>2, Written DEF WalkMark, runVars, workerVars
  <2> QED
    BY <1>4, <2>1, StillWater
    DEF WalkStep, WalkRead, WalkDecide, WalkQueue, WalkSkip, WalkFinish, WalkGrade, dbVars, runVars,
        workerVars
<1>5. CASE SweepStep
  <2>1. ASSUME NEW r \in Run, SweepRun(r)
        PROVE  Eventful \/ Uneventful
    BY <2>1, FinalizeIsEventful DEF SweepRun, Said, LastReports
  <2> QED
    BY <1>5, <2>1, StillWater DEF SweepStep, SweepSelect, SweepJob, dbVars, runVars, workerVars
<1>6. CASE ReconcileStep
  BY <1>6, StillWater, Written
  DEF ReconcileStep, ReconcileSelect, ReconcileRow, dbVars, runVars, workerVars
<1>7. ASSUME NEW n \in Node,
             \/ CancelJob(n) \/ CancelMark(n)
             \/ RetireWorker(n) \/ RetireMark(n) \/ DeleteWorker(n) \/ ResetBreaker(n)
      PROVE  Uneventful
  <2>1. CASE DeleteWorker(n) \/ ResetBreaker(n)
    BY <2>1 DEF DeleteWorker, ResetBreaker, Uneventful, TypeOK, runVars
  <2> QED
    BY <1>7, <2>1, StillWater, Written
    DEF CancelJob, CancelMark, RetireWorker, RetireMark, runVars, workerVars
<1>8. CASE Restart \/ UNCHANGED vars
  BY <1>8, StillWater DEF Restart, vars, dbVars, runVars, workerVars
<1> QED
  BY <1>1, <1>2, <1>3, <1>4, <1>5, <1>6, <1>7, <1>8 DEF Next

\* Reports in flight are what runners say.
LEMMA SaidStep == ASSUME SaidInv, [Next]_vars PROVE SaidInv'
<1>1. ASSUME NEW r \in Run, RunStep(r)
      PROVE  SaidInv'
  <2>1. CASE SendReport(r)
    BY <2>1 DEF SendReport, SaidInv, Said
  <2>2. CASE SendLastReport(r)
    <3>1. {ErrorReport, RefusalReport, UnextractableReport} \subseteq Said
      BY DEF Said, LastReports
    <3>2. \E rep \in Said : reports' = reports \cup {<<r, rep>>}
      BY <2>2, <3>1 DEF SendLastReport
    <3> QED
      BY <3>2 DEF SaidInv
  <2>3. reports' \subseteq reports \/ SendReport(r) \/ SendLastReport(r)
    BY <1>1
    DEF RunStep, SendStarted, HandleStarted, HandleReport, Publish, HandlePublished, RequestFails,
        RunnerDies
  <2> QED
    BY <2>1, <2>2, <2>3 DEF SaidInv
<1>2. ASSUME NEW m \in Runner, PollStep(m)
      PROVE  SaidInv'
  BY <1>2 DEF PollStep, PollCount, PollHold, PollClaim, PollInsert, PollRespond, netVars, SaidInv
<1>3. ASSUME NEW r \in Run, WalkStep(r)
      PROVE  SaidInv'
  BY <1>3
  DEF WalkStep, WalkRead, WalkDecide, WalkQueue, WalkSkip, WalkMark, WalkFinish, WalkGrade,
      netVars, SaidInv
<1>4. CASE StartCycleRun \/ SweepStep \/ ReconcileStep \/ Restart \/ UNCHANGED vars
  BY <1>4
  DEF StartCycleRun, SweepStep, SweepSelect, SweepJob, SweepRun, ReconcileStep, ReconcileSelect,
      ReconcileRow, Restart, vars, netVars, SaidInv
<1>5. ASSUME NEW n \in Node,
             \/ CancelJob(n) \/ CancelMark(n)
             \/ RetireWorker(n) \/ RetireMark(n) \/ DeleteWorker(n) \/ ResetBreaker(n)
      PROVE  SaidInv'
  BY <1>5
  DEF CancelJob, CancelMark, RetireWorker, RetireMark, DeleteWorker, ResetBreaker, netVars, SaidInv
<1> QED
  BY <1>1, <1>2, <1>3, <1>4, <1>5 DEF Next

\* What a run that ends writes: its outcome and its node's ledger entry.
LEMMA RunEnds ==
  ASSUME TypeOK, NEW r \in Run, NEW rep \in Said, ClaimsTheRun(r, rep)
  PROVE  LET o == DerivedOutcome(rep)
         IN  /\ outcome[r] = "open" /\ outcome'[r] = o /\ o \in RunOutcomes
             /\ \A q \in Run \ {r} : outcome'[q] = outcome[q]
             /\ coverage'[r[1]] = CoverageOf(rep)
             /\ \A k \in Node \ {r[1]} : coverage'[k] = coverage[k]
             /\ CoverageOf(rep) # "pending"
             /\ CoverageOf(rep) \in {"found", "clean", "changed"} => o \in {"approved", "dispatched"}
             /\ CoverageOf(rep) = "declined" => o = "declined"
<1>1. /\ outcome[r] = "open" /\ outcome' = [outcome EXCEPT ![r] = DerivedOutcome(rep)]
      /\ coverage' = [coverage EXCEPT ![r[1]] = CoverageOf(rep)]
  BY DEF ClaimsTheRun, MarkCoverage
<1>2. rep.outcome \in {"approved", "dispatched", "declined", "error", "skipped"}
      /\ rep.gateFailed \in BOOLEAN
  <2>1. CASE rep \in AgentReport
    BY <2>1, ReportAssumption DEF RunReport
  <2>2. CASE rep \in LastReports
    <3>1. ErrorReport.outcome = "error" /\ ErrorReport.gateFailed = FALSE
      BY DEF ErrorReport
    <3>2. RefusalReport.outcome = "skipped" /\ RefusalReport.gateFailed = FALSE
      BY DEF RefusalReport
    <3>3. UnextractableReport.outcome = "error" /\ UnextractableReport.gateFailed = FALSE
      BY DEF UnextractableReport, ErrorReport
    <3> QED
      BY <2>2, <3>1, <3>2, <3>3, Zenon DEF LastReports
  <2> QED
    BY <2>1, <2>2 DEF Said
<1>3. DerivedOutcome(rep) \in RunOutcomes
  BY SaidTypes, DerivedTypes
<1>4. /\ CoverageOf(rep) # "pending"
      /\ CoverageOf(rep) \in {"found", "clean", "changed"} =>
           DerivedOutcome(rep) \in {"approved", "dispatched"}
      /\ CoverageOf(rep) = "declined" => DerivedOutcome(rep) = "declined"
  BY <1>2 DEF CoverageOf, DerivedOutcome
<1> QED
  BY <1>1, <1>3, <1>4, RunNode DEF TypeOK

-----------------------------------------------------------------------------
\* The ledger stays true, whoever writes it.
LEMMA LedgerStep ==
  ASSUME IInv, SaidInv, LedgerIsTrue, [Next]_vars
  PROVE  LedgerIsTrue'
<1>1. TypeOK
  BY DEF IInv
<1>2. \A r \in Run : Finished(r) => outcome'[r] = outcome[r]
  BY FinishedStays DEF IInv
<1>3. \A r \in Run : /\ Succeeded(r) => Succeeded(r)'
                     /\ outcome[r] = "declined" => outcome'[r] = "declined"
  BY <1>2 DEF Succeeded, Finished, RunOutcomes
<1>4. ASSUME NEW r \in Run, NEW rep \in Said, ClaimsTheRun(r, rep)
      PROVE  LedgerIsTrue'
  <2> DEFINE o == DerivedOutcome(rep)
             c == CoverageOf(rep)
  <2>1. /\ outcome'[r] = o /\ \A q \in Run \ {r} : outcome'[q] = outcome[q]
        /\ coverage'[r[1]] = c /\ \A k \in Node \ {r[1]} : coverage'[k] = coverage[k]
        /\ c # "pending" /\ (c = "declined" => o = "declined")
        /\ c \in {"found", "clean", "changed"} => o \in {"approved", "dispatched"}
    BY <1>1, <1>4, RunEnds
  <2> HIDE DEF o, c
  <2>2. r \in RunsOf(r[1])
    BY DEF RunsOf
  <2> SUFFICES ASSUME NEW n \in Node
               PROVE  /\ coverage'[n] \in {"found", "clean", "changed"} =>
                           \E q \in RunsOf(n) : Succeeded(q)'
                      /\ coverage'[n] = "declined" => \E q \in RunsOf(n) : outcome'[q] = "declined"
                      /\ (\E q \in RunsOf(n) : Finished(q)') => coverage'[n] # "pending"
    BY DEF LedgerIsTrue, RunsOf
  <2>3. CASE n = r[1]
    BY <2>1, <2>2, <2>3 DEF Succeeded
  <2>4. CASE n # r[1]
    <3>1. \A q \in RunsOf(n) : q \in Run /\ outcome'[q] = outcome[q]
      BY <2>1, <2>4 DEF RunsOf
    <3> QED
      BY <2>1, <2>4, <3>1 DEF LedgerIsTrue, Succeeded, Finished
  <2> QED
    BY <2>3, <2>4
<1>5. CASE StartCycleRun
  <2>1. \A r \in Run : outcome[r] = "absent"
    BY <1>5, QuietFacts DEF StartCycleRun, IInv
  <2>2. outcome' = outcome /\ \A n \in Node : coverage'[n] \in {"refused", "pending"}
    BY <1>5 DEF StartCycleRun, runVars
  <2> QED
    BY <2>1, <2>2 DEF LedgerIsTrue, RunsOf, Finished, RunOutcomes
<1>6. CASE Uneventful /\ ~ StartCycleRun
  <2>1. /\ \A r \in Run : outcome'[r] = outcome[r] \/ outcome'[r] = "open"
        /\ \A n \in Node : \/ coverage'[n] = coverage[n]
                           \/ coverage'[n] \in {"abandoned", "blocked", "cancelled"}
    BY <1>6 DEF Uneventful
  <2>2. \A r \in Run : Finished(r)' => Finished(r)
    BY <2>1 DEF Finished, RunOutcomes
  <2> SUFFICES ASSUME NEW n \in Node
               PROVE  /\ coverage'[n] \in {"found", "clean", "changed"} =>
                           \E q \in RunsOf(n) : Succeeded(q)'
                      /\ coverage'[n] = "declined" => \E q \in RunsOf(n) : outcome'[q] = "declined"
                      /\ (\E q \in RunsOf(n) : Finished(q)') => coverage'[n] # "pending"
    BY DEF LedgerIsTrue, RunsOf
  <2>3. RunsOf(n) \subseteq Run
    BY DEF RunsOf
  <2> QED
    BY <1>3, <2>1, <2>2, <2>3 DEF LedgerIsTrue
<1> QED
  BY <1>1, <1>4, <1>5, <1>6, EventfulOrNot DEF Eventful

\* An entry of the ledger that says a surface was examined has a run that ended well
\* behind it, and a finished run leaves none pending, on every graph and with requests
\* that land late, sweeps, cancels, crashes and removed workers (finalizeRun,
\* reconcileCoverage, jobs.ts).
THEOREM LedgerHolds == Spec => []LedgerIsTrue
<1>1. Init => SaidInv /\ LedgerIsTrue
  BY DEF Init, SaidInv, LedgerIsTrue, RunsOf, Finished, RunOutcomes
<1>2. IInv /\ SaidInv /\ LedgerIsTrue /\ [Next]_vars => SaidInv' /\ LedgerIsTrue'
  BY SaidStep, LedgerStep
<1> QED
  BY <1>1, <1>2, InvariantHolds, PTL DEF Spec

-----------------------------------------------------------------------------
\* A node has finitely many failed runs.
LEMMA RunsAreFinite ==
  ASSUME NEW n \in Node
  PROVE  IsFiniteSet(FailedRuns(n)) /\ IsFiniteSet(FailedRuns(n)')
<1> DEFINE A == 1 .. MaxAttempts
<1>1. IsFiniteSet(A)
  BY FS_Interval, BoundAssumption
<1> HIDE DEF A
<1>2. IsFiniteSet(Node \X A)
  BY <1>1, FS_Product, GraphAssumption
<1>3. IsFiniteSet(Run)
  BY <1>2 DEF Run, A
<1>4. FailedRuns(n) \subseteq Run /\ FailedRuns(n)' \subseteq Run
  BY DEF FailedRuns, RunsOf
<1> QED
  BY <1>3, <1>4, FS_Subset

\* A breaker stays within the failures of its worker's runs.
LEMMA BreakerStep ==
  ASSUME TypeOK, ClaimInv, SaidInv, BreakerCountsRuns, [Next]_vars
  PROVE  BreakerCountsRuns'
<1> SUFFICES ASSUME NEW n \in Node
             PROVE  LET failed == EarlierFailures[n] + Cardinality(FailedRuns(n)')
                    IN  /\ failures'[n] <= failed
                        /\ opened'[n] => failed >= FailureBreakerThreshold
  BY DEF BreakerCountsRuns
<1> DEFINE F == FailedRuns(n)
           G == FailedRuns(n)'
           a == Cardinality(F)
           b == Cardinality(G)
           e == EarlierFailures[n]
           t == FailureBreakerThreshold
           c == failures[n]
           d == failures'[n]
           up == opened[n]
           open == opened'[n]
<1>1. IsFiniteSet(F) /\ IsFiniteSet(G)
  BY RunsAreFinite
<1>2. \A r \in Run : Finished(r) => outcome'[r] = outcome[r]
  BY FinishedStays
<1>3. F \subseteq G
  BY <1>2 DEF FailedRuns, RunsOf, Finished
<1>4. a \in Nat /\ b \in Nat /\ a <= b /\ e \in Nat /\ t \in Nat /\ t > 0
  <2>1. a \in Nat /\ b \in Nat
    BY <1>1, FS_CardinalityType
  <2>2. a <= b
    BY <1>1, <1>3, FS_Subset
  <2>3. e \in Nat /\ t \in Nat /\ t > 0
    BY BoundAssumption
  <2> QED
    BY <2>1, <2>2, <2>3
<1>5. c \in Nat /\ c <= e + a /\ (up => e + a >= t)
  BY DEF BreakerCountsRuns, TypeOK
<1>6. CASE d = c /\ open = up
  <2> HIDE DEF a, b, c, d, e, t, up, open
  <2> QED
    BY <1>4, <1>5, <1>6 DEF a, b, c, d, e, t, up, open
<1>7. CASE d = 0 /\ open = FALSE
  BY <1>4, <1>7
<1>8. ASSUME NEW r \in Run, NEW rep \in Said, ClaimsTheRun(r, rep), r[1] = n,
             JobStateOf(DerivedOutcome(rep)) = "failed", RecordWorkerFailure(n)
      PROVE  d <= e + b /\ (open => e + b >= t)
  <2>1. d = c + 1 /\ (open => up \/ c + 1 >= t)
    BY <1>8 DEF RecordWorkerFailure, TypeOK
  <2>2. outcome[r] = "open" /\ outcome'[r] = DerivedOutcome(rep)
        /\ DerivedOutcome(rep) \in RunOutcomes
    BY <1>8, RunEnds
  <2>3. r \in G /\ r \notin F
    BY <1>8, <2>2 DEF FailedRuns, RunsOf, Finished, RunOutcomes
  <2> HIDE DEF F, G
  <2>4. Cardinality(F \cup {r}) = a + 1 /\ IsFiniteSet(F \cup {r})
    BY <1>1, <2>3, FS_AddElement
  <2>5. Cardinality(F \cup {r}) <= b
    BY <1>1, <1>3, <2>3, FS_Subset
  <2> HIDE DEF a, b, c, d, e, t, up, open
  <2> QED
    BY <1>4, <1>5, <2>1, <2>4, <2>5
<1>9. ASSUME NEW r \in Run, NEW rep \in Said, ClaimsTheRun(r, rep)
      PROVE  d <= e + b /\ (open => e + b >= t)
  <2>1. LatchBreaker(r[1], DerivedOutcome(rep)) /\ r[1] \in Node
    BY <1>9, RunNode DEF ClaimsTheRun
  <2>2. CASE JobStateOf(DerivedOutcome(rep)) = "failed" /\ RecordWorkerFailure(r[1])
    <3>1. CASE r[1] = n
      BY <1>8, <1>9, <2>2, <3>1
    <3>2. CASE r[1] # n
      BY <1>6, <2>1, <2>2, <3>2 DEF RecordWorkerFailure, TypeOK
    <3> QED
      BY <3>1, <3>2
  <2>3. CASE RecordWorkerSuccess(r[1])
    <3>1. CASE r[1] = n
      BY <1>7, <2>3, <3>1 DEF RecordWorkerSuccess, TypeOK
    <3>2. CASE r[1] # n
      BY <1>6, <2>1, <2>3, <3>2 DEF RecordWorkerSuccess, TypeOK
    <3> QED
      BY <3>1, <3>2
  <2>4. CASE UNCHANGED <<breakers, failures, opened>>
    BY <1>6, <2>4
  <2> QED
    BY <2>1, <2>2, <2>3, <2>4 DEF LatchBreaker
<1> QED
  BY <1>6, <1>7, <1>9, EventfulOrNot DEF Eventful, Uneventful

\* A breaker counts failing runs, not reports of failure, and is open only when runs
\* enough of its worker failed: a sweep and the runner it gave up on count once, for
\* every threshold and whatever the worker brought along (recordWorkerFailure).
THEOREM BreakersCount == Spec => []BreakerCountsRuns
<1>1. Init => SaidInv /\ BreakerCountsRuns
  <2> SUFFICES ASSUME Init, NEW n \in Node
               PROVE  EarlierFailures[n] <= EarlierFailures[n] + Cardinality(FailedRuns(n))
    BY DEF Init, SaidInv, BreakerCountsRuns
  <2>1. Cardinality(FailedRuns(n)) \in Nat
    BY RunsAreFinite, FS_CardinalityType
  <2> QED
    BY <2>1, BoundAssumption
<1>2. TypeOK /\ ClaimInv /\ SaidInv /\ BreakerCountsRuns /\ [Next]_vars
        => SaidInv' /\ BreakerCountsRuns'
  BY SaidStep, BreakerStep
<1> QED
  BY <1>1, <1>2, TypeCorrect, ClaimsInvariant, PTL DEF Spec

-----------------------------------------------------------------------------
\* A worker with failures has a row, and the row is open once they are enough.
LatchInv == BreakerLatches /\ \A n \in Node : failures[n] > 0 => n \in breakers

\* Writes of the breakers.
LEMMA LatchStill == ASSUME LatchInv, UNCHANGED <<breakers, failures, opened>> PROVE LatchInv'
BY DEF LatchInv, BreakerLatches

\* The first failure inserts the row; the threshold is met by a later one, which is compared with it.
LEMMA LatchFinalize ==
  ASSUME TypeOK, LatchInv, FailureBreakerThreshold > 1, NEW r \in Run, NEW rep, FinalizeRun(r, rep)
  PROVE  LatchInv'
<1> DEFINE n == r[1]
           o == DerivedOutcome(rep)
<1>1. n \in Node /\ FailureBreakerThreshold \in Nat
  BY RunNode, BoundAssumption
<1>2. CASE RecordWorkerFailure(n)
  <2>1. /\ breakers' = breakers \cup {n}
        /\ \A k \in Node \ {n} : failures'[k] = failures[k] /\ opened'[k] = opened[k]
        /\ failures'[n] = failures[n] + 1
        /\ opened'[n] = (opened[n] \/ (n \in breakers /\ failures[n] + 1 >= FailureBreakerThreshold))
    BY <1>1, <1>2 DEF RecordWorkerFailure, TypeOK
  <2>2. failures[n] \in Nat /\ opened[n] \in BOOLEAN
    BY <1>1 DEF TypeOK
  <2>3. failures[n] + 1 >= FailureBreakerThreshold => failures[n] > 0
    BY <1>1, <2>2
  <2>4. failures'[n] >= FailureBreakerThreshold => opened'[n]
    BY <1>1, <2>1, <2>3 DEF LatchInv
  <2> HIDE DEF n
  <2> QED
    BY <1>1, <2>1, <2>4 DEF LatchInv, BreakerLatches
<1>3. CASE RecordWorkerSuccess(n)
  <2>1. /\ breakers' = breakers \cup {n}
        /\ \A k \in Node \ {n} : failures'[k] = failures[k] /\ opened'[k] = opened[k]
        /\ failures'[n] = 0
    BY <1>1, <1>3 DEF RecordWorkerSuccess, TypeOK
  <2> HIDE DEF n
  <2> QED
    BY <1>1, <2>1 DEF LatchInv, BreakerLatches
<1>4. CASE UNCHANGED <<breakers, failures, opened>>
  BY <1>4, LatchStill
<1> QED
  BY <1>2, <1>3, <1>4 DEF FinalizeRun, ClaimsTheRun, AlreadyFinalized, LatchBreaker, workerVars

\* Every step keeps breakers latched.
LEMMA LatchStep ==
  ASSUME TypeOK, LatchInv, FailureBreakerThreshold > 1, [Next]_vars PROVE LatchInv'
<1>1. ASSUME NEW m \in Runner, PollStep(m) PROVE LatchInv'
  BY <1>1, LatchStill
  DEF PollStep, PollCount, PollHold, PollClaim, PollInsert, PollRespond, dbVars, workerVars
<1>2. ASSUME NEW r \in Run, RunStep(r) PROVE LatchInv'
  <2>1. ASSUME NEW rep, HandleReport(r, rep) PROVE LatchInv'
    BY <2>1, LatchFinalize DEF HandleReport
  <2> QED
    BY <1>2, <2>1, LatchStill
    DEF RunStep, SendStarted, HandleStarted, SendReport, SendLastReport, Publish, HandlePublished,
        RequestFails, RunnerDies, dbVars, workerVars
<1>3. ASSUME NEW r \in Run, WalkStep(r) PROVE LatchInv'
  BY <1>3, LatchStill
  DEF WalkStep, WalkRead, WalkDecide, WalkQueue, WalkSkip, WalkMark, WalkFinish, WalkGrade,
      dbVars, workerVars
<1>4. CASE SweepStep
  <2>1. ASSUME NEW r \in Run, SweepRun(r) PROVE LatchInv'
    BY <2>1, LatchFinalize DEF SweepRun
  <2> QED
    BY <1>4, <2>1, LatchStill DEF SweepStep, SweepSelect, SweepJob, dbVars, workerVars
<1>5. ASSUME NEW n \in Node, DeleteWorker(n) \/ ResetBreaker(n) PROVE LatchInv'
  <2>1. /\ \A k \in Node \ {n} : failures'[k] = failures[k] /\ opened'[k] = opened[k]
        /\ failures'[n] = 0 /\ breakers \ {n} \subseteq breakers'
    BY <1>5 DEF DeleteWorker, ResetBreaker, TypeOK
  <2> QED
    BY <2>1, BoundAssumption DEF LatchInv, BreakerLatches
<1>6. ASSUME NEW n \in Node, CancelJob(n) \/ CancelMark(n) \/ RetireWorker(n) \/ RetireMark(n)
      PROVE  LatchInv'
  BY <1>6, LatchStill DEF CancelJob, CancelMark, RetireWorker, RetireMark, workerVars
<1>7. CASE StartCycleRun \/ ReconcileStep \/ Restart \/ UNCHANGED vars
  BY <1>7, LatchStill
  DEF StartCycleRun, ReconcileStep, ReconcileSelect, ReconcileRow, Restart, vars, dbVars, workerVars
<1> QED
  BY <1>1, <1>2, <1>3, <1>4, <1>5, <1>6, <1>7 DEF Next

\* A worker that has failed as often as its project allows has an open breaker, for every threshold
\* but one: when it takes two failures or more, the last of them finds the row there, and the update
\* compares it with the threshold, which the insert of a first failure does not (recordWorkerFailure).
THEOREM BreakersLatch == ASSUME FailureBreakerThreshold > 1 PROVE Spec => []BreakerLatches
<1>1. Init => LatchInv
  BY BoundAssumption DEF Init, LatchInv, BreakerLatches
<1>2. TypeOK /\ LatchInv /\ [Next]_vars => LatchInv'
  BY LatchStep
<1>3. LatchInv => BreakerLatches
  BY DEF LatchInv
<1> QED
  BY <1>1, <1>2, <1>3, TypeCorrect, PTL DEF Spec

-----------------------------------------------------------------------------
\* The first half of EdgesHold: a node that was handed out has a run that succeeded
\* behind each of its block edges.
BlockEdgesHold ==
  \A e \in Edge : attempts[e.to] > 0 /\ e.onDepFailure = "block" => HasSucceeded(e.from)

\* What is queued, was handed out or will be queued by a walk may run.
Unblocked(n) == \A e \in Incoming(n) : e.onDepFailure = "block" => HasSucceeded(e.from)

\* What is queued or was handed out may run, and so may what a walk is about to queue.
BlockInv ==
  /\ \A n \in Node : jobState[n] = "queued" \/ attempts[n] > 0 => Unblocked(n)
  /\ \A r \in Run : \A n \in walk[r].queue : Unblocked(n)

\* Walks that read a success may queue what waits for it; nothing takes it back.
LEMMA BlockStep == ASSUME IInv, BlockInv, [Next]_vars PROVE BlockInv'
<1>1. JobsFrame /\ \A n \in Node : HasSucceeded(n) => HasSucceeded(n)'
  BY JobsStep, SucceededStays DEF IInv
<1>2. \A n \in Node : Unblocked(n) => Unblocked(n)'
  BY <1>1, GraphAssumption DEF Unblocked, Incoming
<1>3. ASSUME NEW n \in Node, jobState'[n] = "queued" \/ attempts'[n] > 0
      PROVE  Unblocked(n)'
  <2>1. CASE attempts'[n] > 0
    BY <1>1, <1>2, <2>1 DEF JobsFrame, BlockInv
  <2>2. CASE jobState'[n] = "queued"
    <3>1. \/ jobState[n] = "queued" \/ Incoming(n) = {}
          \/ \E r \in Run : n \in walk[r].queue
      BY <1>1, <2>2 DEF JobsFrame, JobChange, TerminalStates
    <3>2. CASE Incoming(n) = {}
      BY <3>2 DEF Unblocked, Incoming
    <3> QED
      BY <1>2, <3>1, <3>2 DEF BlockInv
  <2> QED
    BY <1>3, <2>1, <2>2
<1>4. ASSUME NEW r \in Run, NEW n \in walk'[r].queue
      PROVE  Unblocked(n)'
  <2>1. n \in Node
    BY TypeStep DEF IInv, TypeOK, WalkState
  <2>2. CASE Restart
    BY <2>2 DEF Restart, IdleWalk
  <2>3. CASE WalkFrame /\ n \in walk[r].queue
    BY <1>2, <2>1, <2>3 DEF BlockInv
  <2>4. CASE \A e \in Incoming(n) :
               e.onDepFailure = "block" => walk[r].seen[e.from] = "succeeded"
    <3>1. Unblocked(n)
      BY <2>4, GraphAssumption DEF Unblocked, Incoming, IInv, EarnedInv
    <3> QED
      BY <1>2, <2>1, <3>1
  <2> QED
    BY <2>2, <2>3, <2>4, WalksStep DEF IInv, WalkFrame, WalkChange
<1> QED
  BY <1>3, <1>4 DEF BlockInv

\* Behind a block edge nothing runs until a run of the dependency has succeeded, on
\* every graph, in whatever order reports, stale walks, sweeps, cancels and restarts
\* come (releaseDependents).
THEOREM BlockEdgesAreHard == Spec => []BlockEdgesHold
<1>1. Init => BlockInv
  BY DEF Init, BlockInv, IdleWalk
<1>2. IInv /\ BlockInv /\ [Next]_vars => BlockInv'
  BY BlockStep
<1>3. BlockInv => BlockEdgesHold
  BY GraphAssumption DEF BlockInv, BlockEdgesHold, Unblocked, Incoming
<1> QED
  BY <1>1, <1>2, <1>3, InvariantHolds, PTL DEF Spec

-----------------------------------------------------------------------------
(* Foreman implements CycleContract: the initial states map to the initial *)
(* state, and under IInv every step maps to a step or a stutter.           *)

\* The foreman starts where the contract starts.
LEMMA ContractInit == Init => Contract!Init
BY DEF Init, Contract!Init

\* An update of one job is a node's end, or nothing the contract sees.
LEMMA SetJobContract ==
  ASSUME TypeOK, NEW n \in Node, NEW s, SetJob(n, s), UNCHANGED <<cycle, outcome>>
  PROVE  [Contract!Next]_(Contract!vars)
<1>1. settled' = settled \cup {n} \/ settled' = settled
  BY DEF SetJob
<1> QED
  BY <1>1 DEF Contract!Next, Contract!EndWithoutRun, Contract!vars

\* finalizeRun decides an open run, or does nothing the contract sees.
LEMMA FinalizeRunContract ==
  ASSUME TypeOK, NEW r \in Run, NEW rep \in RunReport, FinalizeRun(r, rep), UNCHANGED cycle
  PROVE  [Contract!Next]_(Contract!vars)
<1>1. CASE ClaimsTheRun(r, rep)
  <2> DEFINE o == DerivedOutcome(rep)
  <2>1. /\ outcome[r] = "open" /\ outcome' = [outcome EXCEPT ![r] = o]
        /\ settled' = settled \cup {r[1]} /\ o \in RunOutcomes
    BY <1>1, DerivedTypes DEF ClaimsTheRun, SetJob
  <2>2. Contract!Decide(r, o)
    BY <2>1 DEF Contract!Decide
  <2> QED
    BY <2>1, <2>2 DEF Contract!Next
<1>2. CASE AlreadyFinalized(r)
  BY <1>2 DEF AlreadyFinalized, jobVars, runVars, Contract!vars
<1> QED
  BY <1>1, <1>2 DEF FinalizeRun

\* Every step of the foreman is a step of the contract, or nothing it sees.
LEMMA ContractStep == IInv /\ [Next]_vars => [Contract!Next]_(Contract!vars)
<1> DEFINE Goal == [Contract!Next]_(Contract!vars)
<1> SUFFICES ASSUME IInv, [Next]_vars PROVE Goal
  OBVIOUS
<1>0. TypeOK
  BY DEF IInv
<1>1. CASE StartCycleRun
  <2>1. cycle = "none" /\ cycle' = "running" /\ outcome' = outcome /\ settled' \in SUBSET Node
    BY <1>1, EnvironmentAssumption DEF StartCycleRun, runVars
  <2> QED
    BY <2>1 DEF Contract!Next, Contract!Begin
<1>2. ASSUME NEW m \in Runner, PollStep(m) PROVE Goal
  <2>1. CASE PollInsert(m)
    <3>1. UNCHANGED <<cycle, settled>>
      BY <2>1 DEF PollInsert, jobVars
    <3>2. PICK r \in poll[m].ids : outcome' = [outcome EXCEPT ![r] = "open"] \/ outcome' = outcome
      BY <2>1 DEF PollInsert
    <3>3. r \in Run /\ outcome[r] = "absent" /\ Issued(r)
      BY <3>2 DEF IInv, ClaimInv, TypeOK, PollState
    <3>4. r[1] \in Node /\ attempts[r[1]] > 0
      <4>1. r[1] \in Node /\ r[2] \in Nat /\ r[2] > 0
        BY <3>3, RunNode
      <4> QED
        BY <1>0, <3>3, <4>1 DEF Issued, TypeOK
    <3>5. \A e \in Edge : e.to = r[1] => e.from \in settled
      BY <3>4 DEF IInv, DependenciesFirst, Incoming
    <3> QED
      BY <3>1, <3>2, <3>3, <3>5 DEF Contract!Next, Contract!Open, Contract!vars
  <2> QED
    BY <1>2, <2>1
    DEF PollStep, PollCount, PollHold, PollClaim, PollRespond, dbVars, jobVars, runVars, Contract!vars
<1>3. ASSUME NEW r \in Run, RunStep(r) PROVE Goal
  <2>1. CASE HandleStarted(r)
    BY <1>0, <2>1, RunNode, SetJobContract DEF HandleStarted, runVars
  <2>2. ASSUME NEW rep, HandleReport(r, rep) PROVE Goal
    BY <1>0, <2>2, FinalizeRunContract DEF HandleReport, TypeOK
  <2> QED
    BY <1>3, <2>1, <2>2
    DEF RunStep, SendStarted, SendReport, SendLastReport, Publish, HandlePublished, RequestFails,
        RunnerDies, dbVars, jobVars, runVars, Contract!vars
<1>4. ASSUME NEW r \in Run, WalkStep(r) PROVE Goal
  <2>1. ASSUME NEW n \in Node, WalkQueue(r, n) \/ WalkSkip(r, n) PROVE Goal
    BY <1>0, <2>1, SetJobContract DEF WalkQueue, WalkSkip, runVars
  <2>2. CASE WalkGrade(r)
    <3>1. UNCHANGED <<settled, outcome>>
      BY <2>2 DEF WalkGrade, jobVars, runVars
    <3>2. CASE cycle = "running"
      <4>1. cycle' \in CycleStates \ {"running"}
        BY <2>2, <3>2 DEF WalkGrade, GradeOf, CycleStates
      <4>2. Contract!Grade(cycle')
        BY <2>2, <3>1, <3>2, GradeStep
        DEF Contract!Grade, Contract!Earned, Contract!Succeeded, HasSucceeded, RunsOf, Succeeded
      <4> QED
        BY <4>1, <4>2 DEF Contract!Next
    <3>3. CASE cycle # "running"
      BY <2>2, <3>1, <3>3 DEF WalkGrade, Contract!vars
    <3> QED
      BY <3>2, <3>3
  <2> QED
    BY <1>4, <2>1, <2>2
    DEF WalkStep, WalkRead, WalkDecide, WalkMark, WalkFinish, dbVars, jobVars, runVars, Contract!vars
<1>5. CASE SweepStep
  <2>1. ASSUME NEW n \in Node, SweepJob(n) PROVE Goal
    BY <1>0, <2>1, SetJobContract DEF SweepJob, runVars
  <2>2. ASSUME NEW r \in Run, SweepRun(r) PROVE Goal
    BY <1>0, <2>2, LastReportTypes, FinalizeRunContract DEF SweepRun, LastReports
  <2> QED
    BY <1>5, <2>1, <2>2 DEF SweepStep, SweepSelect, dbVars, jobVars, runVars, Contract!vars
<1>6. CASE ReconcileStep
  BY <1>6
  DEF ReconcileStep, ReconcileSelect, ReconcileRow, dbVars, jobVars, runVars, Contract!vars
<1>7. ASSUME NEW n \in Node,
         \/ CancelJob(n) \/ CancelMark(n)
         \/ RetireWorker(n) \/ RetireMark(n) \/ DeleteWorker(n) \/ ResetBreaker(n)
      PROVE Goal
  <2>1. CASE CancelJob(n) \/ (RetireWorker(n) /\ SetJob(n, "skipped"))
    BY <1>0, <2>1, SetJobContract DEF CancelJob, RetireWorker, runVars
  <2> QED
    BY <1>7, <2>1
    DEF CancelMark, RetireWorker, RetireMark, DeleteWorker, ResetBreaker, jobVars, runVars, Contract!vars
<1>8. CASE Restart \/ UNCHANGED vars
  BY <1>8 DEF Restart, vars, dbVars, jobVars, runVars, Contract!vars
<1> QED
  BY <1>1, <1>2, <1>3, <1>4, <1>5, <1>6, <1>7, <1>8 DEF Next

\* The foreman implements the contract a cycle run is read by, on every graph and fleet.
THEOREM ContractImplemented == Spec => RefinesContract
BY InvariantHolds, ContractInit, ContractStep, PTL DEF Spec, RefinesContract, Contract!Spec
=============================================================================
