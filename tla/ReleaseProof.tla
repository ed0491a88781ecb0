---------------------------- MODULE ReleaseProof ----------------------------
(****************************************************************************)
(* What follows for one cycle run when walks release blocked jobs only.     *)
(*                                                                          *)
(* releaseDependents decides from one read and writes on no condition, so that*)
(* two walks may release one job twice: that is the first finding, and a job*)
(* that is released twice is claimed twice, runs behind a dependency that   *)
(* declined meanwhile, and fails behind a grade that was already written.   *)
(* ReleasesOnlyBlocked says that no write of a walk meets a job that is not *)
(* blocked.  It is a condition on behaviours; the first theorems take it as their*)
(* hypothesis, and show that nothing else in the foreman threatens what they*)
(* state.  The last two sections prove the hypothesis where the code keeps it: on*)
(* every cycle without edges, and on every chain.                           *)
(****************************************************************************)
EXTENDS ForemanProof

-----------------------------------------------------------------------------
(* What a step may do to a job, a run, a poll and the sweep.                *)

\* A walk releases blocked jobs only: the condition its UPDATE does not carry.
ReleasesBlocked ==
  \A r \in Run, n \in Node : WalkQueue(r, n) \/ WalkSkip(r, n) => jobState[n] = "blocked"
ReleasesOnlyBlocked == [][ReleasesBlocked]_vars

\* A job nobody was handed yet.
Waiting(n) == jobState[n] \in {"none", "blocked", "queued"}

\* How a step may end a job: out of the queue, as a swept job without a run, or with its run.
Ends(n) ==
  \/ jobState[n] \in {"blocked", "queued"} /\ jobState'[n] = "skipped" /\ outcome' = outcome
  \/ <<n, 0>> \in sweep.rows /\ jobState'[n] = "failed" /\ outcome' = outcome
  \/ \E r \in RunsOf(n) : /\ outcome[r] = "open" /\ outcome'[r] \in RunOutcomes
                          /\ jobState'[n] = JobStateOf(outcome'[r])
                          /\ \A q \in Run \ {r} : outcome'[q] = outcome[q]

\* What a step may do to a job once the trigger has fired, if walks release blocked jobs only.
Move(n) ==
  \/ /\ jobState'[n] = jobState[n] /\ attempts'[n] = attempts[n]
     /\ n \in settled' => n \in settled
  \/ /\ jobState[n] = "queued" /\ jobState'[n] = "claimed" /\ attempts'[n] = attempts[n] + 1
     /\ n \in settled' => n \in settled
  \/ /\ jobState[n] = "blocked" /\ jobState'[n] = "queued" /\ attempts'[n] = attempts[n]
     /\ n \in settled' => n \in settled
     /\ \E r \in Run : n \in walk[r].queue
  \/ /\ jobState'[n] = "running" /\ attempts'[n] = attempts[n]
     /\ n \in settled' => n \in settled
     /\ \E r \in starting : r[1] = n
  \/ /\ jobState'[n] \in TerminalStates /\ n \in settled' /\ attempts'[n] = attempts[n]
     /\ Ends(n)

Moves == \A n \in Node : Move(n)

\* A step that leaves the jobs alone.
LEMMA MoveStill ==
  ASSUME UNCHANGED <<jobState, attempts, settled>> PROVE Moves
BY DEF Moves, Move

\* A step that updates one job.
LEMMA MoveOne ==
  ASSUME TypeOK, NEW n \in Node, NEW s, SetJob(n, s), attempts' = attempts,
         \/ s = "queued" /\ jobState[n] = "blocked" /\ \E r \in Run : n \in walk[r].queue
         \/ s = "running" /\ \E r \in starting : r[1] = n
         \/ s = "skipped" /\ jobState[n] \in {"blocked", "queued"} /\ outcome' = outcome
         \/ s = "failed" /\ <<n, 0>> \in sweep.rows /\ outcome' = outcome
         \/ \E r \in RunsOf(n) : /\ outcome[r] = "open" /\ outcome'[r] \in RunOutcomes
                                 /\ s = JobStateOf(outcome'[r])
                                 /\ \A q \in Run \ {r} : outcome'[q] = outcome[q]
  PROVE  Moves
<1>1. /\ \A k \in Node \ {n} : jobState'[k] = jobState[k]
      /\ jobState'[n] = s
      /\ s \in TerminalStates => n \in settled'
  BY SetJobFrame
<1>2. /\ \A k \in Node \ {n} : k \in settled' => k \in settled
      /\ s \notin TerminalStates => settled' = settled
  BY DEF SetJob
<1>3. ASSUME NEW k \in Node \ {n} PROVE Move(k)
  BY <1>1, <1>2 DEF Move
<1>4. ASSUME s = "queued" /\ jobState[n] = "blocked" /\ \E r \in Run : n \in walk[r].queue
      PROVE  Move(n)
  BY <1>1, <1>2, <1>4 DEF Move, TerminalStates
<1>5. ASSUME s = "running" /\ \E r \in starting : r[1] = n
      PROVE  Move(n)
  BY <1>1, <1>2, <1>5 DEF Move, TerminalStates
<1>6. ASSUME s = "skipped" /\ jobState[n] \in {"blocked", "queued"} /\ outcome' = outcome
      PROVE  Move(n)
  BY <1>1, <1>6 DEF Move, Ends, TerminalStates
<1>7. ASSUME s = "failed" /\ <<n, 0>> \in sweep.rows /\ outcome' = outcome
      PROVE  Move(n)
  BY <1>1, <1>7 DEF Move, Ends, TerminalStates
<1>8. ASSUME \E r \in RunsOf(n) : /\ outcome[r] = "open" /\ outcome'[r] \in RunOutcomes
                                /\ s = JobStateOf(outcome'[r])
                                /\ \A q \in Run \ {r} : outcome'[q] = outcome[q]
      PROVE  Move(n)
  <2>1. Ends(n)
    BY <1>1, <1>8 DEF Ends
  <2>2. s \in TerminalStates
    BY <1>8 DEF JobStateOf, TerminalStates
  <2> QED
    BY <1>1, <2>1, <2>2 DEF Move
<1>9. Move(n)
  BY <1>4, <1>5, <1>6, <1>7, <1>8
<1> QED
  BY <1>3, <1>9 DEF Moves

\* finalizeRun ends one job with its run, or nothing.
LEMMA FinalizeMoves ==
  ASSUME TypeOK, NEW r \in Run, NEW rep \in RunReport, FinalizeRun(r, rep), attempts' = attempts
  PROVE  Moves
<1>1. CASE ClaimsTheRun(r, rep)
  <2> DEFINE o == DerivedOutcome(rep)
  <2>1. /\ outcome[r] = "open" /\ outcome' = [outcome EXCEPT ![r] = o]
        /\ SetJob(r[1], JobStateOf(o))
    BY <1>1 DEF ClaimsTheRun
  <2>2. o \in RunOutcomes
    BY DerivedTypes
  <2>3. outcome'[r] = o /\ \A q \in Run \ {r} : outcome'[q] = outcome[q]
    BY <2>1 DEF TypeOK
  <2> HIDE DEF o
  <2> QED
    BY <2>1, <2>2, <2>3, RunNode, MoveOne DEF RunsOf
<1>2. CASE AlreadyFinalized(r)
  BY <1>2, MoveStill DEF AlreadyFinalized, jobVars
<1> QED
  BY <1>1, <1>2 DEF FinalizeRun

\* Once the trigger has fired every step moves jobs only in the ways Move lists.
LEMMA MovesStep ==
  ASSUME TypeOK, ReleasesBlocked, [Next]_vars
  PROVE  StartCycleRun \/ Moves
<1>2. ASSUME NEW m \in Runner, PollStep(m) PROVE Moves
  <2>1. CASE PollClaim(m)
    <3>1. PICK ids \in SUBSET Claimable(m) :
         /\ jobState' = [n \in Node |-> IF n \in ids THEN "claimed" ELSE jobState[n]]
         /\ attempts' = [n \in Node |-> IF n \in ids THEN attempts[n] + 1 ELSE attempts[n]]
      BY <2>1 DEF PollClaim
    <3>2. \A n \in ids : jobState[n] = "queued"
      BY <3>1 DEF Claimable
    <3>3. settled' = settled
      BY <2>1 DEF PollClaim
    <3> QED
      BY <3>1, <3>2, <3>3 DEF Moves, Move
  <2> QED
    BY <1>2, <2>1, MoveStill
    DEF PollStep, PollCount, PollHold, PollInsert, PollRespond, dbVars, jobVars
<1>3. ASSUME NEW r \in Run, RunStep(r) PROVE Moves
  <2>1. CASE HandleStarted(r)
    <3>1. r[1] \in Node /\ SetJob(r[1], "running") /\ r \in starting /\ attempts' = attempts
      BY <2>1, RunNode DEF HandleStarted
    <3> QED
      BY <3>1, MoveOne
  <2>2. ASSUME NEW rep, HandleReport(r, rep) PROVE Moves
    <3>1. rep \in RunReport /\ FinalizeRun(r, rep) /\ attempts' = attempts
      BY <2>2 DEF HandleReport, TypeOK
    <3> QED
      BY <3>1, FinalizeMoves
  <2> QED
    BY <1>3, <2>1, <2>2, MoveStill
    DEF RunStep, SendStarted, SendReport, SendLastReport, Publish, HandlePublished,
        RequestFails, RunnerDies, dbVars, jobVars
<1>4. ASSUME NEW r \in Run, WalkStep(r) PROVE Moves
  <2>1. ASSUME NEW n \in Node, WalkQueue(r, n) PROVE Moves
    <3>1. jobState[n] = "blocked"
      BY <2>1 DEF ReleasesBlocked
    <3>2. SetJob(n, "queued") /\ n \in walk[r].queue /\ attempts' = attempts
      BY <2>1 DEF WalkQueue
    <3> QED
      BY <3>1, <3>2, MoveOne
  <2>2. ASSUME NEW n \in Node, WalkSkip(r, n) PROVE Moves
    <3>1. jobState[n] = "blocked"
      BY <2>2 DEF ReleasesBlocked
    <3>2. SetJob(n, "skipped") /\ attempts' = attempts /\ outcome' = outcome
      BY <2>2 DEF WalkSkip, runVars
    <3> QED
      BY <3>1, <3>2, MoveOne
  <2> QED
    BY <1>4, <2>1, <2>2, MoveStill
    DEF WalkStep, WalkRead, WalkDecide, WalkMark, WalkFinish, WalkGrade, dbVars, jobVars
<1>5. CASE SweepStep
  <2>1. ASSUME NEW n \in Node, SweepJob(n) PROVE Moves
    <3>1. SetJob(n, "failed") /\ <<n, 0>> \in sweep.rows /\ attempts' = attempts /\ outcome' = outcome
      BY <2>1 DEF SweepJob, runVars
    <3> QED
      BY <3>1, MoveOne
  <2>2. ASSUME NEW r \in Run, SweepRun(r) PROVE Moves
    <3>1. ErrorReport \in RunReport
      BY LastReportTypes DEF LastReports
    <3>2. FinalizeRun(r, ErrorReport) /\ attempts' = attempts
      BY <2>2 DEF SweepRun
    <3> QED
      BY <3>1, <3>2, FinalizeMoves
  <2> QED
    BY <1>5, <2>1, <2>2, MoveStill DEF SweepStep, SweepSelect, dbVars, jobVars
<1>6. CASE ReconcileStep
  BY <1>6, MoveStill DEF ReconcileStep, ReconcileSelect, ReconcileRow, dbVars, jobVars
<1>7. ASSUME NEW n \in Node,
         \/ CancelJob(n) \/ CancelMark(n)
         \/ RetireWorker(n) \/ RetireMark(n) \/ DeleteWorker(n) \/ ResetBreaker(n)
      PROVE Moves
  <2>1. CASE CancelJob(n)
    <3>1. /\ SetJob(n, "skipped") /\ jobState[n] = "queued"
          /\ attempts' = attempts /\ outcome' = outcome
      BY <2>1 DEF CancelJob, runVars
    <3> QED
      BY <3>1, MoveOne
  <2>2. CASE RetireWorker(n)
    <3>1. attempts' = attempts /\ outcome' = outcome
      BY <2>2 DEF RetireWorker, runVars
    <3>2. CASE jobState[n] \in {"queued", "blocked"}
      <4>1. SetJob(n, "skipped")
        BY <2>2, <3>2 DEF RetireWorker
      <4> QED
        BY <3>1, <3>2, <4>1, MoveOne
    <3>3. CASE jobState[n] \notin {"queued", "blocked"}
      BY <2>2, <3>1, <3>3, MoveStill DEF RetireWorker, jobVars
    <3> QED
      BY <3>2, <3>3
  <2> QED
    BY <1>7, <2>1, <2>2, MoveStill
    DEF CancelMark, RetireMark, DeleteWorker, ResetBreaker, jobVars
<1>8. CASE Restart \/ UNCHANGED vars
  BY <1>8, MoveStill DEF Restart, vars, dbVars, jobVars
<1> QED
  BY <1>2, <1>3, <1>4, <1>5, <1>6, <1>7, <1>8 DEF Next

\* What a step may do to a run.
RunMove(r) ==
  \/ outcome'[r] = outcome[r]
  \/ outcome[r] = "absent" /\ outcome'[r] = "open" /\ \E m \in Runner : r \in poll[m].ids
  \/ outcome[r] = "open" /\ outcome'[r] \in RunOutcomes /\ r[1] \in settled'
RunMoves == \A r \in Run : RunMove(r)

\* What a step may do to a poll: claim what is queued, insert what was claimed.
PollMove(m) ==
  /\ \A r \in poll'[m].ids : r \in poll[m].ids \/ jobState[r[1]] = "queued"
  /\ \A r \in poll'[m].out : r \in poll[m].ids \cup poll[m].out
PollMoves == \A m \in Runner : PollMove(m)

\* What a step may do to the sweep: select a job in flight that no poll is about to answer for.
RowMove(w) ==
  \/ w \in sweep.rows
  \/ /\ w[1] \in InFlight /\ ~Pending(w[1])
     /\ w[2] = 0 => \A r \in RunsOf(w[1]) : outcome[r] = "absent"
     /\ ~JobsOutliveSweep => ~Live(w[1])
     /\ UNCHANGED <<dbVars, poll, netVars>>
RowMoves == \A w \in sweep'.rows : RowMove(w)

\* finalizeRun ends the job of the run it ends.
LEMMA FinalizeRunMoves ==
  ASSUME TypeOK, NEW r \in Run, NEW rep \in RunReport, FinalizeRun(r, rep) PROVE RunMoves
<1>1. CASE ClaimsTheRun(r, rep)
  <2> DEFINE o == DerivedOutcome(rep)
  <2>1. /\ outcome[r] = "open" /\ outcome' = [outcome EXCEPT ![r] = o]
        /\ SetJob(r[1], JobStateOf(o))
    BY <1>1 DEF ClaimsTheRun
  <2>2. o \in RunOutcomes /\ JobStateOf(o) \in TerminalStates
    BY DerivedTypes
  <2>3. outcome'[r] = o /\ \A q \in Run \ {r} : outcome'[q] = outcome[q]
    BY <2>1 DEF TypeOK
  <2>4. r[1] \in settled'
    BY <2>1, <2>2 DEF SetJob
  <2> HIDE DEF o
  <2> QED
    BY <2>1, <2>2, <2>3, <2>4 DEF RunMoves, RunMove
<1>2. CASE AlreadyFinalized(r)
  BY <1>2 DEF AlreadyFinalized, runVars, RunMoves, RunMove
<1> QED
  BY <1>1, <1>2 DEF FinalizeRun

\* A step that gives no run an outcome and inserts none.
LEMMA RunStill == ASSUME UNCHANGED outcome PROVE RunMoves
BY DEF RunMoves, RunMove

\* Every step changes runs only in the ways RunMove lists.
LEMMA RunMovesStep == ASSUME TypeOK, ClaimInv, [Next]_vars PROVE RunMoves
<1>1. ASSUME NEW m \in Runner, PollStep(m) PROVE RunMoves
  <2>1. CASE PollInsert(m)
    <3>1. PICK r \in poll[m].ids : outcome' = outcome \/ outcome' = [outcome EXCEPT ![r] = "open"]
      BY <2>1 DEF PollInsert
    <3>2. r \in Run /\ outcome[r] = "absent"
      BY DEF TypeOK, PollState, ClaimInv
    <3>3. outcome' = outcome \/ (outcome'[r] = "open" /\ \A q \in Run \ {r} : outcome'[q] = outcome[q])
      BY <3>1, <3>2 DEF TypeOK
    <3> QED
      BY <3>2, <3>3 DEF RunMoves, RunMove
  <2> QED
    BY <1>1, <2>1, RunStill
    DEF PollStep, PollCount, PollHold, PollClaim, PollRespond, dbVars, runVars
<1>2. ASSUME NEW r \in Run, RunStep(r) PROVE RunMoves
  <2>1. ASSUME NEW rep, HandleReport(r, rep) PROVE RunMoves
    <3>1. rep \in RunReport /\ FinalizeRun(r, rep)
      BY <2>1 DEF HandleReport, TypeOK
    <3> QED
      BY <3>1, FinalizeRunMoves
  <2> QED
    BY <1>2, <2>1, RunStill
    DEF RunStep, SendStarted, HandleStarted, SendReport, SendLastReport, Publish, HandlePublished,
        RequestFails, RunnerDies, dbVars, runVars
<1>3. ASSUME NEW r \in Run, WalkStep(r) PROVE RunMoves
  BY <1>3, RunStill
  DEF WalkStep, WalkRead, WalkDecide, WalkQueue, WalkSkip, WalkMark, WalkFinish, WalkGrade,
      dbVars, runVars
<1>4. CASE SweepStep
  <2>1. ASSUME NEW r \in Run, SweepRun(r) PROVE RunMoves
    <3>1. ErrorReport \in RunReport /\ FinalizeRun(r, ErrorReport)
      BY <2>1, LastReportTypes DEF SweepRun, LastReports
    <3> QED
      BY <3>1, FinalizeRunMoves
  <2> QED
    BY <1>4, <2>1, RunStill DEF SweepStep, SweepSelect, SweepJob, dbVars, runVars
<1>5. ASSUME NEW n \in Node,
         \/ CancelJob(n) \/ CancelMark(n)
         \/ RetireWorker(n) \/ RetireMark(n) \/ DeleteWorker(n) \/ ResetBreaker(n)
      PROVE RunMoves
  BY <1>5, RunStill
  DEF CancelJob, CancelMark, RetireWorker, RetireMark, DeleteWorker, ResetBreaker, runVars
<1>6. CASE StartCycleRun \/ ReconcileStep \/ Restart \/ UNCHANGED vars
  BY <1>6, RunStill
  DEF StartCycleRun, ReconcileStep, ReconcileSelect, ReconcileRow, Restart, vars, dbVars, runVars
<1> QED
  BY <1>1, <1>2, <1>3, <1>4, <1>5, <1>6 DEF Next

\* Every step changes polls only in the ways PollMove lists.
LEMMA PollMovesStep == ASSUME TypeOK, [Next]_vars PROVE PollMoves
<1>1. ASSUME NEW m \in Runner, PollStep(m) PROVE PollMoves
  <2>1. \A l \in Runner \ {m} : poll'[l] = poll[l]
    BY <1>1 DEF PollStep, PollCount, PollHold, PollClaim, PollInsert, PollRespond, TypeOK
  <2>2. poll[m] \in PollState
    BY DEF TypeOK
  <2>3. CASE PollCount(m) \/ PollRespond(m)
    <3>1. ASSUME PollCount(m) PROVE poll'[m].ids = {} /\ poll'[m].out = {}
      BY <3>1 DEF PollCount, IdlePoll, TypeOK
    <3>2. ASSUME PollRespond(m) PROVE poll'[m].ids = {} /\ poll'[m].out = {}
      BY <3>2 DEF PollRespond, IdlePoll, TypeOK
    <3> QED
      BY <2>1, <2>3, <3>1, <3>2 DEF PollMoves, PollMove
  <2>4. CASE PollHold(m)
    <3>1. poll'[m].ids = poll[m].ids /\ poll'[m].out = poll[m].out
      BY <2>2, <2>4 DEF PollHold, TypeOK, PollState
    <3> QED
      BY <2>1, <3>1 DEF PollMoves, PollMove
  <2>5. CASE PollClaim(m)
    <3>1. PICK ids \in SUBSET Claimable(m) : poll' = [poll EXCEPT ![m] =
            [IdlePoll EXCEPT !.phase = IF ids = {} THEN "idle" ELSE "claimed",
                             !.ids = {<<n, attempts'[n]>> : n \in ids}]]
      BY <2>5 DEF PollClaim
    <3>2. \A n \in ids : jobState[n] = "queued"
      BY <3>1 DEF Claimable
    <3>3. poll'[m].ids = {<<n, attempts'[n]>> : n \in ids} /\ poll'[m].out = {}
      <4> DEFINE answer == [IdlePoll EXCEPT !.phase = IF ids = {} THEN "idle" ELSE "claimed",
                                            !.ids = {<<n, attempts'[n]>> : n \in ids}]
      <4>1. answer.ids = {<<n, attempts'[n]>> : n \in ids} /\ answer.out = {}
        BY DEF IdlePoll
      <4>2. poll' = [poll EXCEPT ![m] = answer]
        BY <3>1
      <4> HIDE DEF answer
      <4> QED
        BY <4>1, <4>2 DEF TypeOK
    <3>4. \A r \in poll'[m].ids : jobState[r[1]] = "queued"
      BY <3>2, <3>3
    <3> QED
      BY <2>1, <3>3, <3>4 DEF PollMoves, PollMove
  <2>6. CASE PollInsert(m)
    <3>1. PICK r \in poll[m].ids :
            \/ poll' = [poll EXCEPT ![m].ids = @ \ {r}]
            \/ poll' = [poll EXCEPT ![m].ids = @ \ {r}, ![m].out = @ \cup {r}]
      BY <2>6 DEF PollInsert
    <3>2. poll'[m].ids \subseteq poll[m].ids /\ poll'[m].out \subseteq poll[m].out \cup {r}
      BY <2>2, <3>1 DEF TypeOK, PollState
    <3> QED
      BY <2>1, <3>1, <3>2 DEF PollMoves, PollMove
  <2> QED
    BY <1>1, <2>3, <2>4, <2>5, <2>6 DEF PollStep
<1>2. CASE poll' = poll
  BY <1>2 DEF PollMoves, PollMove
<1>3. CASE Restart
  BY <1>3 DEF Restart, IdlePoll, PollMoves, PollMove
<1>4. CASE OtherStep
  BY <1>2, <1>4, OtherStepFrame DEF RunsFrame, PollMoves, PollMove, IdlePoll
<1>5. CASE UNCHANGED vars
  BY <1>2, <1>5 DEF vars, handlerVars
<1> QED
  BY <1>1, <1>4, <1>5 DEF Next, OtherStep

\* Every step changes the sweep only in the ways RowMove lists.
LEMMA RowMovesStep == ASSUME TypeOK, [Next]_vars PROVE RowMoves
<1>1. CASE SweepSelect
  <2>1. PICK S \in SUBSET {n \in Node : MayBeStale(n)} : sweep' = [rows |-> StaleRows(S), busy |-> {}]
    BY <1>1 DEF SweepSelect
  <2> SUFFICES ASSUME NEW w \in StaleRows(S) PROVE RowMove(w)
    BY <2>1 DEF RowMoves
  <2>2. w[1] \in S /\ (w[2] = 0 => HasRun(w[1]) = {})
    BY RunNode DEF StaleRows
  <2>3. w[2] = 0 => \A r \in RunsOf(w[1]) : outcome[r] = "absent"
    BY <2>2 DEF HasRun, RunsOf
  <2>4. w[1] \in InFlight /\ ~Pending(w[1]) /\ (~JobsOutliveSweep => ~Live(w[1]))
    BY <2>2 DEF MayBeStale
  <2>5. UNCHANGED <<dbVars, poll, netVars>>
    BY <1>1 DEF SweepSelect
  <2> QED
    BY <2>3, <2>4, <2>5 DEF RowMove
<1>2. CASE sweep'.rows \subseteq sweep.rows
  BY <1>2 DEF RowMoves, RowMove
<1>3. ASSUME NEW m \in Runner, PollStep(m) PROVE RowMoves
  BY <1>2, <1>3 DEF PollStep, PollCount, PollHold, PollClaim, PollInsert, PollRespond
<1>4. ASSUME NEW r \in Run, RunStep(r) PROVE RowMoves
  BY <1>2, <1>4
  DEF RunStep, SendStarted, HandleStarted, SendReport, SendLastReport, HandleReport, Publish,
      HandlePublished, RequestFails, RunnerDies, handlerVars
<1>5. ASSUME NEW r \in Run, WalkStep(r) PROVE RowMoves
  BY <1>2, <1>5
  DEF WalkStep, WalkRead, WalkDecide, WalkQueue, WalkSkip, WalkMark, WalkFinish, WalkGrade
<1>6. ASSUME NEW n \in Node, SweepJob(n) PROVE RowMoves
  BY <1>2, <1>6 DEF SweepJob
<1>7. ASSUME NEW r \in Run, SweepRun(r) PROVE RowMoves
  BY <1>2, <1>7 DEF SweepRun
<1>8. ASSUME NEW n \in Node,
         \/ CancelJob(n) \/ CancelMark(n)
         \/ RetireWorker(n) \/ RetireMark(n) \/ DeleteWorker(n) \/ ResetBreaker(n)
      PROVE RowMoves
  BY <1>2, <1>8
  DEF CancelJob, CancelMark, RetireWorker, RetireMark, DeleteWorker, ResetBreaker, handlerVars
<1>9. CASE StartCycleRun \/ ReconcileStep \/ Restart \/ UNCHANGED vars
  BY <1>2, <1>9
  DEF StartCycleRun, ReconcileStep, ReconcileSelect, ReconcileRow, Restart, NoSweep, vars,
      handlerVars
<1> QED
  BY <1>1, <1>3, <1>4, <1>5, <1>6, <1>7, <1>8, <1>9 DEF Next, SweepStep

-----------------------------------------------------------------------------
(* A job has one run (releaseDependents, POST /jobs/claim).                 *)

\* No run of n is open, and no poll is about to insert one.
Closed(n) ==
  /\ \A r \in RunsOf(n) : outcome[r] # "open"
  /\ \A m \in Runner : \A r \in poll[m].ids : r[1] # n

\* What the sweep selected was handed out, and stays with its runner or with nobody.
Swept(w) ==
  /\ ~Waiting(w[1]) /\ ~Pending(w[1])
  /\ w[2] = 0 => \A r \in RunsOf(w[1]) : outcome[r] = "absent"

\* A job has one run at most, and none once it has ended that is still open.
OnceInv ==
  /\ \A n \in Node : attempts[n] <= 1 /\ (Waiting(n) => attempts[n] = 0)
  /\ \A n \in settled : ~Waiting(n) /\ Closed(n)
  /\ \A w \in sweep.rows : Swept(w)
  /\ \A r \in Run : Finished(r) => r[1] \in settled

\* A job that was never claimed has no run, and no poll is about to give it one.
LEMMA Unclaimed ==
  ASSUME TypeOK, ClaimInv, NEW n \in Node, attempts[n] = 0
  PROVE  /\ \A r \in RunsOf(n) : outcome[r] = "absent" /\ agent[r] = "unknown" /\ r \notin starting
         /\ \A m \in Runner : \A r \in poll[m].ids \cup poll[m].out : r[1] # n
<1>1. ASSUME NEW r \in Run, r[1] = n PROVE ~Issued(r)
  <2>1. r[2] \in Nat /\ r[2] > 0
    BY RunNode
  <2> QED
    BY <1>1, <2>1 DEF Issued
<1> QED
  BY <1>1 DEF ClaimInv, RunsOf, TypeOK, PollState

\* Two runs of a job that was claimed once are one.
LEMMA OnlyRun ==
  ASSUME TypeOK, OnceInv, NEW r \in Run, NEW q \in Run, Issued(r), Issued(q), r[1] = q[1]
  PROVE  r = q
<1>1. r[1] \in Node /\ r[2] \in Nat /\ r[2] > 0 /\ q[2] \in Nat /\ q[2] > 0
  BY RunNode
<1>2. attempts[r[1]] \in Nat /\ attempts[r[1]] <= 1
  BY <1>1 DEF TypeOK, OnceInv
<1>3. r[2] = 1 /\ q[2] = 1
  BY <1>1, <1>2 DEF Issued
<1> QED
  BY <1>3 DEF Run

\* The trigger finds nothing claimed, and leaves nothing claimed.
LEMMA OnceStart == ASSUME IInv, StartCycleRun PROVE OnceInv'
<1>1. cycle = "none" /\ UNCHANGED <<attempts, outcome, poll, sweep>>
  BY DEF StartCycleRun, runVars, handlerVars
<1>2. PICK refused \in SUBSET Refusable :
        /\ jobState' = [n \in Node |->
             CASE n \in refused -> "skipped"
               [] n \notin refused /\ Incoming(n) # {} -> "blocked"
               [] OTHER -> "queued"]
        /\ settled' = refused
  BY DEF StartCycleRun
<1>3. /\ \A n \in Node : attempts[n] = 0
      /\ sweep.rows = {}
      /\ \A r \in Run : outcome[r] = "absent"
      /\ \A m \in Runner : poll[m].ids = {}
  BY <1>1, QuietFacts DEF IInv, QuietInv
<1>4. \A n \in settled' : n \in Node /\ jobState'[n] = "skipped"
  BY <1>2, EnvironmentAssumption
<1> QED
  BY <1>1, <1>3, <1>4 DEF OnceInv, Waiting, Closed, Swept, RunsOf, Finished, RunOutcomes

\* A job that has ended stays ended and closed.
LEMMA ClosedStays ==
  ASSUME IInv, OnceInv, Moves, RunMoves, PollMoves, NEW n \in settled
  PROVE  ~Waiting(n)' /\ Closed(n)'
<1>1. n \in Node /\ ~Waiting(n) /\ Closed(n)
  BY DEF IInv, TypeOK, OnceInv
<1>2. ~Waiting(n)'
  BY <1>1 DEF Moves, Move, Waiting, TerminalStates
<1>3. \A m \in Runner : \A r \in poll'[m].ids : r[1] # n
  BY <1>1 DEF PollMoves, PollMove, Closed, Waiting
<1>4. ASSUME NEW r \in RunsOf(n) PROVE outcome'[r] # "open"
  <2>1. r \in Run /\ r[1] = n
    BY DEF RunsOf
  <2> QED
    BY <1>1, <2>1 DEF RunMoves, RunMove, Closed, RunOutcomes
<1> QED
  BY <1>2, <1>3, <1>4 DEF Closed, RunsOf

\* A job that ends is closed: it never had a run, or its only run ended with it.
LEMMA ClosedWhenEnded ==
  ASSUME IInv, OnceInv, [Next]_vars, Moves, RunMoves, PollMoves, NEW n \in Node,
         jobState'[n] \in TerminalStates, attempts'[n] = attempts[n], Ends(n)
  PROVE  ~Waiting(n)' /\ Closed(n)'
<1>1. ~Waiting(n)'
  BY DEF Waiting, TerminalStates
<1>2. TypeOK /\ ClaimInv /\ TypeOK' /\ ClaimInv'
  BY TypeStep, ClaimStep DEF IInv
<1>3. \A r \in Run : r[1] \in Node /\ r[2] \in Nat /\ r[2] > 0
  BY RunNode
<1>4. CASE jobState[n] \in {"blocked", "queued"} /\ outcome' = outcome
  <2>1. attempts[n] = 0
    BY <1>4 DEF OnceInv, Waiting
  <2>2. \A r \in RunsOf(n) : outcome'[r] # "open"
    BY <1>2, <1>4, <2>1, Unclaimed
  <2>3. \A r \in Run : r[1] = n => ~Issued(r)'
    BY <1>3, <2>1 DEF Issued
  <2>4. \A m \in Runner : \A r \in poll'[m].ids : r[1] # n
    BY <1>2, <2>3 DEF ClaimInv, TypeOK, PollState
  <2> QED
    BY <1>1, <2>2, <2>4 DEF Closed, RunsOf
<1>5. CASE <<n, 0>> \in sweep.rows /\ outcome' = outcome
  <2>1. Swept(<<n, 0>>)
    BY <1>5 DEF OnceInv
  <2>2. /\ ~Waiting(n) /\ ~Pending(n)
        /\ \A r \in RunsOf(n) : outcome[r] = "absent"
    BY <2>1 DEF Swept
  <2>3. \A r \in RunsOf(n) : outcome'[r] # "open"
    BY <1>5, <2>2
  <2>4. \A m \in Runner : \A r \in poll'[m].ids : r[1] # n
    BY <2>2 DEF PollMoves, PollMove, Waiting, Pending
  <2> QED
    BY <1>1, <2>3, <2>4 DEF Closed, RunsOf
<1>6. ASSUME NEW r \in RunsOf(n), outcome[r] = "open", outcome'[r] \in RunOutcomes,
             \A q \in Run \ {r} : outcome'[q] = outcome[q]
      PROVE  Closed(n)'
  <2>1. r \in Run /\ r[1] = n /\ Issued(r)
    BY <1>2, <1>6 DEF RunsOf, ClaimInv
  <2>2. ASSUME NEW q \in RunsOf(n), outcome'[q] = "open" PROVE FALSE
    <3>1. q \in Run /\ q[1] = n /\ q # r /\ outcome[q] = "open"
      BY <1>6, <2>2 DEF RunsOf, RunOutcomes
    <3>2. Issued(q)
      BY <1>2, <3>1 DEF ClaimInv
    <3> QED
      BY <1>2, <2>1, <3>1, <3>2, OnlyRun
  <2>3. ASSUME NEW m \in Runner, NEW q \in poll'[m].ids, q[1] = n PROVE FALSE
    <3>1. q \in Run /\ outcome'[q] = "absent" /\ Issued(q)'
      BY <1>2, <2>3 DEF ClaimInv, TypeOK, PollState
    <3>2. Issued(q)
      BY <2>3, <3>1 DEF Issued
    <3>3. q = r
      BY <1>2, <2>1, <2>3, <3>1, <3>2, OnlyRun
    <3> QED
      BY <1>6, <3>1, <3>3 DEF RunOutcomes
  <2> QED
    BY <2>2, <2>3 DEF Closed, RunsOf
<1> QED
  BY <1>1, <1>4, <1>5, <1>6 DEF Ends

\* What the sweep selected stays with its runner or with nobody.
LEMMA SweptStays ==
  ASSUME IInv, OnceInv, [Next]_vars, Moves, RunMoves, PollMoves, RowMoves, NEW w \in sweep'.rows
  PROVE  Swept(w)'
<1>1. w[1] \in Node /\ (w[2] = 0 => <<w[1], 0>> = w)
  BY TypeStep DEF IInv, TypeOK, SweepState
<1>2. ASSUME Swept(w) PROVE Swept(w)'
  <2>1. ~Waiting(w[1])'
    BY <1>1, <1>2 DEF Swept, Moves, Move, Waiting, TerminalStates
  <2>2. ~Pending(w[1])'
    BY <1>2 DEF Swept, Pending, PollMoves, PollMove, Waiting
  <2>3. ASSUME w[2] = 0, NEW r \in RunsOf(w[1]) PROVE outcome'[r] = "absent"
    <3>1. r \in Run /\ r[1] = w[1] /\ outcome[r] = "absent"
      BY <1>2, <2>3 DEF Swept, RunsOf
    <3>2. \A m \in Runner : r \notin poll[m].ids
      BY <1>2, <3>1 DEF Swept, Pending
    <3> QED
      BY <3>1, <3>2 DEF RunMoves, RunMove
  <2> QED
    BY <2>1, <2>2, <2>3 DEF Swept, RunsOf
<1>3. CASE w \in sweep.rows
  BY <1>2, <1>3 DEF OnceInv
<1>4. CASE w \notin sweep.rows
  <2>1. /\ w[1] \in InFlight /\ ~Pending(w[1])
        /\ w[2] = 0 => \A r \in RunsOf(w[1]) : outcome[r] = "absent"
        /\ UNCHANGED <<jobState, outcome, poll>>
    BY <1>4 DEF RowMoves, RowMove, dbVars, jobVars, runVars
  <2>2. ~Waiting(w[1])
    BY <2>1 DEF InFlight, InFlightStates, Waiting
  <2> QED
    BY <2>1, <2>2 DEF Swept, Waiting, Pending, RunsOf
<1> QED
  BY <1>3, <1>4

\* If walks release blocked jobs only, a job has one run at most, after every step.
LEMMA OnceStep == ASSUME IInv, OnceInv, ReleasesBlocked, [Next]_vars PROVE OnceInv'
<1>1. CASE StartCycleRun
  BY <1>1, OnceStart
<1>2. CASE Moves
  <2>1. RunMoves /\ PollMoves /\ RowMoves /\ settled \subseteq settled' /\ settled' \subseteq Node
    BY RunMovesStep, PollMovesStep, RowMovesStep, SettledStays, TypeStep DEF IInv, TypeOK
  <2>2. ASSUME NEW n \in Node
        PROVE  attempts'[n] <= 1 /\ (Waiting(n)' => attempts'[n] = 0)
    <3>1. attempts[n] <= 1 /\ (Waiting(n) => attempts[n] = 0) /\ Move(n)
      BY <1>2 DEF OnceInv, Moves
    <3> QED
      BY <3>1 DEF Move, Waiting, TerminalStates
  <2>3. ASSUME NEW n \in settled'
        PROVE  ~Waiting(n)' /\ Closed(n)'
    <3>1. CASE n \in settled
      BY <1>2, <2>1, <3>1, ClosedStays
    <3>2. CASE n \notin settled
      <4>1. n \in Node /\ jobState'[n] \in TerminalStates /\ attempts'[n] = attempts[n] /\ Ends(n)
        BY <1>2, <2>1, <3>2 DEF Moves, Move
      <4> QED
        BY <1>2, <2>1, <4>1, ClosedWhenEnded
    <3> QED
      BY <3>1, <3>2
  <2>4. \A w \in sweep'.rows : Swept(w)'
    BY <1>2, <2>1, SweptStays
  <2>5. ASSUME NEW r \in Run, Finished(r)' PROVE r[1] \in settled'
    <3>1. CASE Finished(r)
      BY <2>1, <3>1 DEF OnceInv
    <3>2. CASE ~Finished(r)
      BY <2>1, <2>5, <3>2 DEF RunMoves, RunMove, Finished, RunOutcomes
    <3> QED
      BY <3>1, <3>2
  <2> QED
    BY <2>2, <2>3, <2>4, <2>5 DEF OnceInv
<1> QED
  BY <1>1, <1>2, MovesStep DEF IInv

\* Nothing is claimed at first.
LEMMA OnceInit == Init => OnceInv
BY DEF Init, OnceInv, Waiting, Closed, NoSweep, Finished, RunOutcomes

\* The invariant that releasing blocked jobs only buys.
LEMMA OnceInvariant == Spec /\ ReleasesOnlyBlocked => []OnceInv
<1>1. IInv /\ OnceInv /\ [Next]_vars /\ [ReleasesBlocked]_vars => OnceInv'
  <2> SUFFICES ASSUME IInv, OnceInv, [Next]_vars, [ReleasesBlocked]_vars PROVE OnceInv'
    OBVIOUS
  <2>1. CASE ReleasesBlocked
    BY <2>1, OnceStep
  <2>2. CASE UNCHANGED vars
    BY <2>2 DEF vars, dbVars, jobVars, runVars, handlerVars, netVars, OnceInv, Waiting, Closed,
                Swept, Pending, RunsOf, Finished
  <2> QED
    BY <2>1, <2>2
<1> QED
  BY <1>1, OnceInit, InvariantHolds, PTL DEF Spec, ReleasesOnlyBlocked

\* Were walks to release blocked jobs only, no job would be claimed twice: what the first finding
\* shows has the missing condition of releaseDependents' UPDATE for its only cause.
THEOREM ClaimedOnceWhenBlocked == Spec /\ ReleasesOnlyBlocked => []ClaimedOnce
<1>1. OnceInv => ClaimedOnce
  BY DEF OnceInv, ClaimedOnce
<1> QED
  BY <1>1, OnceInvariant, PTL

-----------------------------------------------------------------------------
(* Edges mean what they say: nobody runs behind a decline.                  *)

\* Who changes a walk: its own steps, the run that starts it, a restart.
WalkMovers ==
  \/ walk' = walk \/ Restart
  \/ \E r \in Run : WalkStep(r)
  \/ \E r \in Run, rep \in RunReport : ClaimsTheRun(r, rep)

\* finalizeRun starts a walk or leaves them alone.
LEMMA FinalizeRunWalks ==
  ASSUME NEW r \in Run, NEW rep \in RunReport, FinalizeRun(r, rep) PROVE WalkMovers
<1>1. CASE AlreadyFinalized(r)
  BY <1>1 DEF AlreadyFinalized, WalkMovers
<1> QED
  BY <1>1, Zenon DEF FinalizeRun, WalkMovers

\* Nobody else changes a walk.
LEMMA WalkMoversStep == ASSUME TypeOK, [Next]_vars PROVE WalkMovers
<1>1. ASSUME NEW r \in Run, RunStep(r) PROVE WalkMovers
  <2>1. ASSUME NEW rep, HandleReport(r, rep) PROVE WalkMovers
    <3>1. rep \in RunReport /\ FinalizeRun(r, rep)
      BY <2>1 DEF HandleReport, TypeOK
    <3> QED
      BY <3>1, FinalizeRunWalks
  <2>2. CASE walk' = walk
    BY <2>2 DEF WalkMovers
  <2> QED
    BY <1>1, <2>1, <2>2
    DEF RunStep, SendStarted, HandleStarted, SendReport, SendLastReport, Publish, HandlePublished,
        RequestFails, RunnerDies, handlerVars
<1>2. CASE SweepStep
  <2>1. ASSUME NEW r \in Run, SweepRun(r) PROVE WalkMovers
    <3>1. ErrorReport \in RunReport /\ FinalizeRun(r, ErrorReport)
      BY <2>1, LastReportTypes DEF SweepRun, LastReports
    <3> QED
      BY <3>1, FinalizeRunWalks
  <2>2. CASE walk' = walk
    BY <2>2 DEF WalkMovers
  <2> QED
    BY <1>2, <2>1, <2>2 DEF SweepStep, SweepSelect, SweepJob
<1>3. ASSUME NEW m \in Runner, PollStep(m) PROVE walk' = walk
  BY <1>3 DEF PollStep, PollCount, PollHold, PollClaim, PollInsert, PollRespond
<1>4. ASSUME NEW n \in Node,
         \/ CancelJob(n) \/ CancelMark(n)
         \/ RetireWorker(n) \/ RetireMark(n) \/ DeleteWorker(n) \/ ResetBreaker(n)
      PROVE walk' = walk
  BY <1>4
  DEF CancelJob, CancelMark, RetireWorker, RetireMark, DeleteWorker, ResetBreaker, handlerVars
<1>5. CASE StartCycleRun \/ ReconcileStep \/ UNCHANGED vars
  <2>1. walk' = walk
    BY <1>5 DEF StartCycleRun, ReconcileStep, ReconcileSelect, ReconcileRow, vars, handlerVars
  <2> QED
    BY <2>1 DEF WalkMovers
<1>6. CASE (\E r \in Run : WalkStep(r)) \/ Restart
  BY <1>6 DEF WalkMovers
<1> QED
  BY <1>1, <1>2, <1>3, <1>4, <1>5, <1>6 DEF Next, WalkMovers

\* No run of n declined the work.
NeverDeclined(n) == \A r \in RunsOf(n) : outcome[r] # "declined"

\* No dependency of n has declined, but one that has also succeeded.
Willing(n) == \A e \in Incoming(n) : HasSucceeded(e.from) \/ NeverDeclined(e.from)

\* What is queued or was handed out is wanted by all it waits for, and so is what a walk is
\* about to queue.
WillingInv ==
  /\ \A n \in Node : jobState[n] = "queued" \/ attempts[n] > 0 => Willing(n)
  /\ \A r \in Run : \A n \in walk[r].queue : Willing(n)

\* Dependencies that have ended change their minds no more.
LEMMA WillingStays ==
  ASSUME IInv, OnceInv, [Next]_vars, NEW n \in Node, DepsEnded(n), Willing(n) PROVE Willing(n)'
<1> SUFFICES ASSUME NEW e \in Incoming(n)
             PROVE  HasSucceeded(e.from)' \/ NeverDeclined(e.from)'
  BY DEF Willing, Incoming
<1>1. e.from \in Node /\ e.from \in settled
  BY GraphAssumption DEF Incoming, DepsEnded
<1>2. CASE HasSucceeded(e.from)
  BY <1>1, <1>2, SucceededStays
<1>3. CASE NeverDeclined(e.from)
  <2>1. RunMoves /\ Closed(e.from)
    BY <1>1, RunMovesStep DEF IInv, OnceInv
  <2> QED
    BY <1>3, <2>1 DEF NeverDeclined, Closed, RunsOf, RunMoves, RunMove, RunOutcomes
<1> QED
  BY <1>2, <1>3 DEF Willing

\* A walk queues what none of its dependencies keeps from running.
LEMMA WillingDecided ==
  ASSUME IInv, NEW r \in Run, WalkDecide(r), NEW n \in walk'[r].queue PROVE Willing(n)
<1> DEFINE seen == walk[r].seen
           skip == {k \in Releasable(seen) : BlockedBy(k, seen, DeclinedNodes) # {}}
           queue == Releasable(seen) \ skip
<1>1. walk' = [walk EXCEPT ![r] = [IdleWalk EXCEPT !.phase = "write", !.skip = skip, !.queue = queue]]
  BY DEF WalkDecide
<1>2. n \in queue => BlockedBy(n, seen, DeclinedNodes) = {}
  OBVIOUS
<1> HIDE DEF skip, queue
<1>3. n \in queue
  BY <1>1 DEF IInv, TypeOK, IdleWalk
<1>4. \A e \in Incoming(n) : seen[e.from] = "succeeded" \/ e.from \notin DeclinedNodes
  BY <1>2, <1>3 DEF BlockedBy
<1>5. ASSUME NEW e \in Incoming(n) PROVE HasSucceeded(e.from) \/ NeverDeclined(e.from)
  <2>1. e.from \in Node
    BY GraphAssumption DEF Incoming
  <2>2. seen[e.from] = "succeeded" => HasSucceeded(e.from)
    BY <2>1 DEF IInv, EarnedInv
  <2>3. e.from \notin DeclinedNodes => NeverDeclined(e.from)
    BY <2>1 DEF DeclinedNodes, HasRun, NeverDeclined, RunsOf
  <2> QED
    BY <1>4, <2>2, <2>3
<1> QED
  BY <1>5 DEF Willing

\* What a walk is about to queue is wanted, after every step.
LEMMA WillingWalks ==
  ASSUME IInv, OnceInv, WillingInv, [Next]_vars, NEW r \in Run, NEW n \in walk'[r].queue
  PROVE  Willing(n)'
<1>1. n \in Node
  BY TypeStep DEF IInv, TypeOK, WalkState
<1>2. ASSUME n \in walk[r].queue PROVE Willing(n)'
  BY <1>1, <1>2, WillingStays DEF IInv, EndedInv, WillingInv
<1>3. CASE walk' = walk
  BY <1>2, <1>3
<1>4. CASE Restart
  BY <1>4 DEF Restart, IdleWalk
<1>5. ASSUME NEW q \in Run, NEW rep \in RunReport, ClaimsTheRun(q, rep) PROVE Willing(n)'
  BY <1>2, <1>5 DEF ClaimsTheRun, IdleWalk, IInv, TypeOK
<1>6. ASSUME NEW q \in Run, WalkStep(q) PROVE Willing(n)'
  <2>1. CASE q # r
    <3>1. walk'[r] = walk[r]
      BY <1>6, <2>1, ZenonT(30)
      DEF WalkStep, WalkRead, WalkDecide, WalkQueue, WalkSkip, WalkMark, WalkFinish, WalkGrade,
          IInv, TypeOK
    <3> QED
      BY <1>2, <3>1
  <2>2. CASE q = r
    <3>1. CASE WalkDecide(r)
      <4>1. Willing(n)
        BY <3>1, WillingDecided
      <4>2. \A e \in Incoming(n) : walk[r].seen[e.from] \in TerminalStates
        <5> DEFINE seen == walk[r].seen
                   skip == {k \in Releasable(seen) : BlockedBy(k, seen, DeclinedNodes) # {}}
                   queue == Releasable(seen) \ skip
        <5>1. walk' = [walk EXCEPT ![r] =
                         [IdleWalk EXCEPT !.phase = "write", !.skip = skip, !.queue = queue]]
          BY <3>1 DEF WalkDecide
        <5>2. queue \subseteq Releasable(seen)
          OBVIOUS
        <5> HIDE DEF queue, skip
        <5>3. n \in queue
          BY <5>1 DEF IInv, TypeOK, IdleWalk
        <5> QED
          BY <5>2, <5>3 DEF Releasable
      <4>3. DepsEnded(n)
        BY <4>2, GraphAssumption DEF DepsEnded, Incoming, IInv, EndedInv
      <4> QED
        BY <1>1, <4>1, <4>3, WillingStays
    <3>2. CASE WalkFinish(r)
      <4>1. walk'[r].queue = {}
        <5>1. CASE \A k \in Node : jobState[k] \in TerminalStates
          BY <3>2, <5>1 DEF WalkFinish, IdleWalk, IInv, TypeOK
        <5>2. CASE ~\A k \in Node : jobState[k] \in TerminalStates
          BY <3>2, <5>2 DEF WalkFinish, IdleWalk, IInv, TypeOK
        <5> QED
          BY <5>1, <5>2
      <4> QED
        BY <4>1
    <3>3. CASE WalkGrade(r)
      BY <3>3 DEF WalkGrade, IdleWalk, IInv, TypeOK
    <3>4. ASSUME WalkRead(r) \/ WalkMark(r) \/ \E k \in Node : WalkQueue(r, k) \/ WalkSkip(r, k)
          PROVE  n \in walk[r].queue
      <4>1. TypeOK /\ walk[r] \in WalkState
        BY DEF IInv, TypeOK
      <4>2. CASE WalkRead(r)
        BY <4>1, <4>2 DEF WalkRead, WalkState, TypeOK
      <4>3. CASE WalkMark(r)
        BY <4>1, <4>3 DEF WalkMark, WalkState, TypeOK
      <4>4. ASSUME NEW k \in Node, WalkQueue(r, k) PROVE n \in walk[r].queue
        BY <4>1, <4>4 DEF WalkQueue, WalkState, TypeOK
      <4>5. ASSUME NEW k \in Node, WalkSkip(r, k) PROVE n \in walk[r].queue
        BY <4>1, <4>5 DEF WalkSkip, WalkState, TypeOK
      <4> QED
        BY <3>4, <4>2, <4>3, <4>4, <4>5
    <3> QED
      BY <1>2, <1>6, <2>2, <3>1, <3>2, <3>3, <3>4 DEF WalkStep
  <2> QED
    BY <2>1, <2>2
<1> QED
  BY <1>3, <1>4, <1>5, <1>6, WalkMoversStep DEF WalkMovers, IInv

\* What is queued, was handed out or is about to be queued is wanted, after every step.
LEMMA WillingStep ==
  ASSUME IInv, OnceInv, WillingInv, ReleasesBlocked, [Next]_vars PROVE WillingInv'
<1>1. ASSUME NEW n \in Node, jobState'[n] = "queued" \/ attempts'[n] > 0 PROVE Willing(n)'
  <2>1. ASSUME jobState[n] = "queued" \/ attempts[n] > 0 PROVE Willing(n)'
    <3>1. DepsEnded(n)
      BY <2>1 DEF IInv, DependenciesFirst, DepsEnded, NonTerminal
    <3> QED
      BY <2>1, <3>1, WillingStays DEF WillingInv
  <2>2. ASSUME NEW r \in Run, n \in walk[r].queue PROVE Willing(n)'
    BY <2>2, WillingStays DEF IInv, EndedInv, WillingInv
  <2>3. CASE StartCycleRun
    <3>1. cycle = "none" /\ attempts' = attempts
      BY <2>3 DEF StartCycleRun
    <3>2. attempts'[n] = 0
      BY <3>1 DEF IInv, QuietInv
    <3>3. Incoming(n) = {}
      BY <1>1, <2>3, <3>2 DEF StartCycleRun
    <3> QED
      BY <3>3 DEF Willing, Incoming
  <2>4. CASE Moves
    BY <1>1, <2>1, <2>2, <2>4 DEF Moves, Move, TerminalStates
  <2> QED
    BY <2>3, <2>4, MovesStep DEF IInv
<1>2. \A r \in Run : \A n \in walk'[r].queue : Willing(n)'
  BY WillingWalks
<1> QED
  BY <1>1, <1>2 DEF WillingInv

\* An edge means what it says, if walks release blocked jobs only: behind a block edge a run of
\* the dependency succeeded, behind any edge it did not only decline, on every graph.
THEOREM EdgesHoldWhenBlocked == Spec /\ ReleasesOnlyBlocked => []EdgesHold
<1>1. Init => WillingInv
  BY DEF Init, WillingInv, IdleWalk
<1>2. IInv /\ OnceInv /\ WillingInv /\ [Next]_vars /\ [ReleasesBlocked]_vars => WillingInv'
  <2> SUFFICES ASSUME IInv, OnceInv, WillingInv, [Next]_vars, [ReleasesBlocked]_vars
               PROVE  WillingInv'
    OBVIOUS
  <2>1. CASE ReleasesBlocked
    BY <2>1, WillingStep
  <2>2. CASE UNCHANGED vars
    BY <2>2 DEF vars, dbVars, jobVars, runVars, handlerVars, WillingInv, Willing, HasSucceeded,
                NeverDeclined, RunsOf, Succeeded
  <2> QED
    BY <2>1, <2>2
<1>3. WillingInv /\ BlockEdgesHold => EdgesHold
  <2> SUFFICES ASSUME WillingInv, BlockEdgesHold, NEW e \in Edge, attempts[e.to] > 0
               PROVE  LET ended == {r \in RunsOf(e.from) : Finished(r)}
                      IN  /\ e.onDepFailure = "block" => \E r \in ended : Succeeded(r)
                          /\ ended # {} => \E r \in ended : outcome[r] # "declined"
    BY DEF EdgesHold
  <2>1. e.from \in Node /\ e.to \in Node /\ e \in Incoming(e.to)
    BY GraphAssumption DEF Incoming
  <2>2. \A r : Succeeded(r) => Finished(r) /\ outcome[r] # "declined"
    BY DEF Succeeded, Finished, RunOutcomes
  <2>3. e.onDepFailure = "block" => HasSucceeded(e.from)
    BY DEF BlockEdgesHold
  <2>4. HasSucceeded(e.from) \/ NeverDeclined(e.from)
    BY <2>1 DEF WillingInv, Willing
  <2> QED
    BY <2>2, <2>3, <2>4 DEF HasSucceeded, NeverDeclined
<1> QED
  BY <1>1, <1>2, <1>3, InvariantHolds, OnceInvariant, BlockEdgesAreHard, PTL
  DEF Spec, ReleasesOnlyBlocked

-----------------------------------------------------------------------------
(* A grade of `declined` hides no failure (finalizeCycleIfDone).            *)

\* How a job ends that did not fail.
Good == {"succeeded", "skipped"}

\* No run of n failed.
Harmless(n) == FailedRuns(n) = {}

\* A job that ended well, or had when a walk read it, has no run that failed behind it.
HarmlessInv ==
  /\ \A n \in Node : jobState[n] \in Good => Harmless(n)
  /\ \A r \in Run : \A n \in Node : walk[r].seen[n] \in Good => Harmless(n)
  /\ \A r \in Run : walk[r].phase = "grade" => \A n \in Node : walk[r].seen[n] \in TerminalStates
  /\ cycle = "declined" => \A n \in Node : Harmless(n)

\* What has ended without a failure has none later.
LEMMA HarmlessStays ==
  ASSUME IInv, OnceInv, RunMoves, NEW n \in settled, Harmless(n) PROVE Harmless(n)'
<1>1. Closed(n)
  BY DEF OnceInv
<1>2. ASSUME NEW r \in Run, r[1] = n PROVE outcome'[r] = outcome[r]
  BY <1>1, <1>2 DEF Closed, RunsOf, RunMoves, RunMove
<1> QED
  BY <1>2 DEF Harmless, FailedRuns, RunsOf, Finished

\* A job that ends well ends without a failed run.
LEMMA EndsHarmless ==
  ASSUME IInv, OnceInv, NEW n \in Node, Ends(n), jobState'[n] \in Good PROVE Harmless(n)'
<1>1. TypeOK /\ ClaimInv
  BY DEF IInv
<1>2. CASE jobState[n] \in {"blocked", "queued"} /\ outcome' = outcome
  <2>1. attempts[n] = 0
    BY <1>2 DEF OnceInv, Waiting
  <2>2. \A r \in RunsOf(n) : outcome'[r] = "absent"
    BY <1>1, <1>2, <2>1, Unclaimed
  <2> QED
    BY <2>2 DEF Harmless, FailedRuns, RunsOf, Finished, RunOutcomes
<1>3. CASE jobState'[n] = "failed"
  BY <1>3 DEF Good
<1>4. ASSUME NEW r \in RunsOf(n), outcome[r] = "open", jobState'[n] = JobStateOf(outcome'[r]),
             \A q \in Run \ {r} : outcome'[q] = outcome[q]
      PROVE  Harmless(n)'
  <2>1. r \in Run /\ r[1] = n /\ Issued(r)
    BY <1>1, <1>4 DEF RunsOf, ClaimInv
  <2> SUFFICES ASSUME NEW q \in Run, q[1] = n, Finished(q)', JobStateOf(outcome'[q]) = "failed"
               PROVE  FALSE
    BY DEF Harmless, FailedRuns, RunsOf
  <2>2. q # r
    BY <1>4 DEF Good
  <2>3. outcome[q] # "absent"
    BY <1>4, <2>2 DEF Finished, RunOutcomes
  <2>4. Issued(q)
    BY <1>1, <2>3 DEF ClaimInv
  <2> QED
    BY <1>1, <2>1, <2>2, <2>4, OnlyRun
<1> QED
  BY <1>2, <1>3, <1>4 DEF Ends

\* A walk that is about to grade read every job as ended, after every step.
LEMMA GradeReads ==
  ASSUME TypeOK, HarmlessInv, [Next]_vars, NEW r \in Run, walk'[r].phase = "grade"
  PROVE  \A n \in Node : walk'[r].seen[n] \in TerminalStates
<1>1. CASE walk'[r] = walk[r]
  BY <1>1 DEF HarmlessInv
<1>2. CASE Restart
  BY <1>2 DEF Restart, IdleWalk
<1>3. ASSUME NEW q \in Run, NEW rep \in RunReport, ClaimsTheRun(q, rep)
      PROVE  walk'[r] = walk[r]
  BY <1>3 DEF ClaimsTheRun, IdleWalk, TypeOK
<1>4. ASSUME NEW q \in Run, WalkStep(q)
      PROVE  \A n \in Node : walk'[r].seen[n] \in TerminalStates
  <2>1. CASE q # r
    <3>1. walk'[r] = walk[r]
      BY <1>4, <2>1, ZenonT(30)
      DEF WalkStep, WalkRead, WalkDecide, WalkQueue, WalkSkip, WalkMark, WalkFinish, WalkGrade, TypeOK
    <3> QED
      BY <1>1, <3>1
  <2>2. CASE q = r
    <3>0. walk[r] \in WalkState
      BY DEF TypeOK
    <3>1. CASE WalkFinish(r)
      <4>1. CASE \A n \in Node : jobState[n] \in TerminalStates
        BY <3>1, <4>1 DEF WalkFinish, IdleWalk, TypeOK
      <4>2. CASE ~\A n \in Node : jobState[n] \in TerminalStates
        BY <3>1, <4>2 DEF WalkFinish, IdleWalk, TypeOK
      <4> QED
        BY <4>1, <4>2
    <3>2. ASSUME WalkRead(r) PROVE FALSE
      BY <3>0, <3>2 DEF WalkRead, WalkState, TypeOK
    <3>3. ASSUME WalkDecide(r) PROVE FALSE
      <4>1. \E Q, S : walk' = [walk EXCEPT ![r] =
              [IdleWalk EXCEPT !.phase = "write", !.skip = S, !.queue = Q]]
        BY <3>3 DEF WalkDecide
      <4> QED
        BY <4>1 DEF IdleWalk, TypeOK
    <3>4. ASSUME NEW k \in Node, WalkQueue(r, k) PROVE FALSE
      BY <3>0, <3>4 DEF WalkQueue, WalkState, TypeOK
    <3>5. ASSUME NEW k \in Node, WalkSkip(r, k) PROVE FALSE
      BY <3>0, <3>5 DEF WalkSkip, WalkState, TypeOK
    <3>6. CASE WalkMark(r)
      <4>1. walk'[r].seen = walk[r].seen /\ walk'[r].phase = walk[r].phase
        BY <3>0, <3>6 DEF WalkMark, WalkState, TypeOK
      <4> QED
        BY <4>1 DEF HarmlessInv
    <3>7. ASSUME WalkGrade(r) PROVE FALSE
      BY <3>7 DEF WalkGrade, IdleWalk, TypeOK
    <3> QED
      BY <1>4, <2>2, <3>1, <3>2, <3>3, <3>4, <3>5, <3>6, <3>7 DEF WalkStep
  <2> QED
    BY <2>1, <2>2
<1> QED
  BY <1>1, <1>2, <1>3, <1>4, WalkMoversStep DEF WalkMovers

\* A job that ended well has no failed run behind it, after every step.
LEMMA HarmlessJobs ==
  ASSUME IInv, OnceInv, HarmlessInv, ReleasesBlocked, [Next]_vars, NEW n \in Node,
         jobState'[n] \in Good
  PROVE  Harmless(n)'
<1>1. CASE StartCycleRun
  <2>1. \A r \in Run : outcome'[r] = "absent"
    BY <1>1, QuietFacts DEF StartCycleRun, IInv, runVars
  <2> QED
    BY <2>1 DEF Harmless, FailedRuns, RunsOf, Finished, RunOutcomes
<1>2. CASE Moves
  <2>1. \/ jobState'[n] = jobState[n]
        \/ Ends(n)
    BY <1>2 DEF Moves, Move, Good
  <2>2. CASE jobState'[n] = jobState[n]
    <3>1. n \in settled /\ Harmless(n)
      BY <2>2 DEF IInv, EndedInv, HarmlessInv, Good, TerminalStates
    <3> QED
      BY <3>1, HarmlessStays, RunMovesStep DEF IInv
  <2> QED
    BY <2>1, <2>2, EndsHarmless
<1> QED
  BY <1>1, <1>2, MovesStep DEF IInv

\* A job that was read as ended well has no failed run behind it, after every step.
LEMMA HarmlessWalks ==
  ASSUME IInv, OnceInv, HarmlessInv, [Next]_vars, NEW r \in Run, NEW n \in Node,
         walk'[r].seen[n] \in Good
  PROVE  Harmless(n)'
<1>1. Good \subseteq TerminalStates /\ "none" \notin Good
  BY DEF Good, TerminalStates
<1>2. ASSUME walk[r].seen[n] \in Good \/ jobState[n] \in Good PROVE Harmless(n)'
  <2>1. n \in settled /\ Harmless(n)
    BY <1>1, <1>2 DEF IInv, EndedInv, HarmlessInv
  <2> QED
    BY <2>1, HarmlessStays, RunMovesStep DEF IInv
<1>3. CASE Restart
  BY <1>1, <1>3 DEF Restart, IdleWalk
<1>4. CASE WalkFrame
  BY <1>1, <1>2, <1>4 DEF WalkFrame, WalkChange
<1> QED
  BY <1>3, <1>4, WalksStep DEF IInv

\* A cycle run is graded declined when nothing failed.
LEMMA HarmlessGrade ==
  ASSUME IInv, OnceInv, HarmlessInv, [Next]_vars, cycle' = "declined", NEW n \in Node
  PROVE  Harmless(n)'
<1>1. ASSUME n \in settled, Harmless(n) PROVE Harmless(n)'
  BY <1>1, HarmlessStays, RunMovesStep DEF IInv
<1>2. CASE cycle' = cycle
  BY <1>1, <1>2 DEF IInv, GradeIsEarned, HarmlessInv
<1>3. CASE StartCycleRun
  BY <1>3 DEF StartCycleRun
<1>4. ASSUME NEW r \in Run, WalkGrade(r), cycle = "running" PROVE Harmless(n)'
  <2>1. GradeOf(walk[r].seen, DeclinedNodes) = "declined" /\ walk[r].phase = "grade"
    BY <1>4 DEF WalkGrade
  <2>2. walk[r].seen[n] # "failed"
    BY <2>1 DEF GradeOf
  <2>3. walk[r].seen[n] \in Good
    BY <2>1, <2>2 DEF HarmlessInv, Good, TerminalStates
  <2> QED
    BY <1>1, <2>1, <2>3 DEF HarmlessInv, IInv, EndedInv
<1> QED
  BY <1>2, <1>3, <1>4, CycleStep DEF CycleChange, IInv

\* A decline never hides a failure, if walks release blocked jobs only: a cycle run graded
\* declined had no run that failed, on every graph (finalizeCycleIfDone).
THEOREM DeclineIsHonestWhenBlocked == Spec /\ ReleasesOnlyBlocked => []DeclineHidesNoFailure
<1>1. Init => HarmlessInv
  BY DEF Init, HarmlessInv, IdleWalk, Good
<1>2. IInv /\ OnceInv /\ HarmlessInv /\ [Next]_vars /\ [ReleasesBlocked]_vars => HarmlessInv'
  <2> SUFFICES ASSUME IInv, OnceInv, HarmlessInv, [Next]_vars, [ReleasesBlocked]_vars
               PROVE  HarmlessInv'
    OBVIOUS
  <2>1. CASE ReleasesBlocked
    <3>1. TypeOK
      BY DEF IInv
    <3> QED
      BY <2>1, <3>1, HarmlessJobs, HarmlessWalks, GradeReads, HarmlessGrade DEF HarmlessInv
  <2>2. CASE UNCHANGED vars
    BY <2>2 DEF vars, dbVars, jobVars, runVars, handlerVars, HarmlessInv, Harmless, FailedRuns,
                RunsOf, Finished
  <2> QED
    BY <2>1, <2>2
<1>3. HarmlessInv => DeclineHidesNoFailure
  <2> SUFFICES ASSUME HarmlessInv, cycle = "declined", NEW r \in Run, Finished(r)
               PROVE  JobStateOf(outcome[r]) # "failed"
    BY DEF DeclineHidesNoFailure
  <2>1. r[1] \in Node
    BY RunNode
  <2> QED
    BY <2>1 DEF HarmlessInv, Harmless, FailedRuns, RunsOf
<1> QED
  BY <1>1, <1>2, <1>3, InvariantHolds, OnceInvariant, PTL DEF Spec, ReleasesOnlyBlocked

-----------------------------------------------------------------------------
(* Runners and their requests: what has ended is not started again.         *)

\* One run, as its runner and its requests in flight tell it: one request at a time, and none
\* of preparation once the run has ended.
AgentOK(r) ==
  /\ \A rep \in RunReport : <<r, rep>> \in reports =>
       /\ agent[r] \in {"reporting", "apologising", "done"} /\ r \notin starting
       /\ \A also \in RunReport : <<r, also>> \in reports => also = rep
  /\ r \in starting => agent[r] \in {"starting", "done"}
  /\ Finished(r) => r \notin starting /\ agent[r] \notin {"accepted", "starting", "working"}
  /\ agent[r] # "unknown" \/ r \in starting => outcome[r] # "absent"

\* A run a poll is about to answer with is open, and nobody works on it yet.
AnswerOK(m) ==
  \A r \in poll[m].out :
    /\ outcome[r] = "open" /\ agent[r] = "unknown" /\ r \notin starting
    /\ \A l \in Runner : r \in poll[l].out => m = l

\* No request lands late and nothing outlives the sweep's cutoff: what is swept is dead.
AgentInv ==
  /\ \A r \in Run : AgentOK(r)
  /\ \A m \in Runner : AnswerOK(m)
  /\ \A w \in sweep.rows : ~Live(w[1])

\* The runner of r does nothing, and nothing is told of it.
Same(r) ==
  /\ agent'[r] = agent[r] /\ outcome'[r] = outcome[r]
  /\ r \in starting' <=> r \in starting
  /\ \A rep \in RunReport : <<r, rep>> \in reports' <=> <<r, rep>> \in reports

\* Something of r is under way.
Busy(r) == Active(r) \/ r \in starting \/ \E rep \in RunReport : <<r, rep>> \in reports

\* A job is live when one of its runs is.
LEMMA LiveIsBusy ==
  ASSUME TypeOK, NEW n PROVE Live(n) <=> \E r \in Run : r[1] = n /\ Busy(r)
<1>1. \A q \in reports : q[1] \in Run /\ q[2] \in RunReport /\ q = <<q[1], q[2]>>
  BY DEF TypeOK
<1>2. \A r \in Run : (\E q \in reports : q[1] = r) <=> \E rep \in RunReport : <<r, rep>> \in reports
  BY <1>1
<1> QED
  BY <1>2 DEF Live, Busy

\* The same of the next state.
LEMMA LiveIsBusyNext ==
  ASSUME TypeOK', NEW n PROVE Live(n)' <=> \E r \in Run : r[1] = n /\ Busy(r)'
<1>1. \A q \in reports' : q[1] \in Run /\ q[2] \in RunReport /\ q = <<q[1], q[2]>>
  BY DEF TypeOK
<1>2. \A r \in Run : (\E q \in reports' : q[1] = r) <=> \E rep \in RunReport : <<r, rep>> \in reports'
  BY <1>1
<1> QED
  BY <1>2 DEF Live, Busy

\* executeJob of one run tells nothing of another.
LEMMA RunStepOthers ==
  ASSUME TypeOK, NEW r \in Run, RunStep(r)
  PROVE  (\A q \in Run \ {r} : Same(q)) /\ Busy(r) /\ UNCHANGED <<poll, sweep>>
<1>1. CASE SendStarted(r)
  BY <1>1 DEF SendStarted, Same, Busy, Active, TypeOK, dbVars, runVars, handlerVars
<1>2. CASE HandleStarted(r)
  BY <1>2 DEF HandleStarted, Same, Busy, TypeOK, runVars, handlerVars
<1>3. CASE SendReport(r)
  BY <1>3 DEF SendReport, Same, Busy, Active, TypeOK, dbVars, runVars, handlerVars
<1>4. CASE SendLastReport(r)
  BY <1>4 DEF SendLastReport, Same, Busy, Active, TypeOK, dbVars, runVars, handlerVars
<1>5. ASSUME NEW q \in reports, q[1] = r, HandleReport(r, q[2])
      PROVE  (\A k \in Run \ {r} : Same(k)) /\ Busy(r) /\ UNCHANGED <<poll, sweep>>
  <2>1. q[2] \in RunReport /\ <<r, q[2]>> \in reports
    BY <1>5 DEF TypeOK
  <2>2. \A k \in Run \ {r} : outcome'[k] = outcome[k]
    BY <1>5 DEF HandleReport, FinalizeRun, ClaimsTheRun, AlreadyFinalized, TypeOK, runVars
  <2>3. \A k \in Run \ {r} : agent'[k] = agent[k]
    BY <1>5 DEF HandleReport, TypeOK
  <2>4. starting' = starting /\ reports' = reports \ {<<r, q[2]>>} /\ UNCHANGED <<poll, sweep>>
    BY <1>5 DEF HandleReport
  <2> QED
    BY <2>1, <2>2, <2>3, <2>4 DEF Same, Busy
<1>6. CASE Publish(r)
  BY <1>6 DEF Publish, Same, Busy, Active, TypeOK, dbVars, runVars, handlerVars
<1>7. CASE HandlePublished(r)
  BY <1>7 DEF HandlePublished, Same, Busy, Active, TypeOK, handlerVars
<1>8. CASE RequestFails(r)
  BY <1>8 DEF RequestFails, Same, Busy, Active, TypeOK, dbVars, runVars, handlerVars
<1>9. CASE RunnerDies(r)
  BY <1>9 DEF RunnerDies, Same, Busy, TypeOK, dbVars, runVars, handlerVars
<1> QED
  BY <1>1, <1>2, <1>3, <1>4, <1>5, <1>6, <1>7, <1>8, <1>9 DEF RunStep

\* executeJob makes one request at a time.
LEMMA RunStepAgent ==
  ASSUME TypeOK, ~LateRequests, NEW r \in Run, RunStep(r), AgentOK(r) PROVE AgentOK(r)'
<1>1. CASE SendStarted(r)
  BY <1>1 DEF SendStarted, AgentOK, TypeOK, dbVars, runVars, Finished
<1>2. CASE HandleStarted(r)
  BY <1>2 DEF HandleStarted, AgentOK, TypeOK, runVars, Finished
<1>3. CASE SendReport(r)
  <2>1. PICK rep \in AgentReport : reports' = reports \cup {<<r, rep>>}
    BY <1>3 DEF SendReport
  <2>2. /\ agent[r] = "working" /\ agent'[r] = "reporting"
        /\ UNCHANGED <<outcome, starting>>
    BY <1>3 DEF SendReport, TypeOK, dbVars, runVars
  <2> QED
    BY <2>1, <2>2 DEF AgentOK, Finished
<1>4. CASE SendLastReport(r)
  <2>1. \E rep : reports' = reports \cup {<<r, rep>>}
    BY <1>4 DEF SendLastReport
  <2>2. /\ agent[r] \in {"accepted", "working", "failing"} /\ agent'[r] = "apologising"
        /\ UNCHANGED <<outcome, starting>>
    BY <1>4 DEF SendLastReport, TypeOK, dbVars, runVars
  <2> QED
    BY <2>1, <2>2 DEF AgentOK, Finished
<1>5. ASSUME NEW q \in reports, q[1] = r, HandleReport(r, q[2]) PROVE AgentOK(r)'
  <2> DEFINE rep == q[2]
  <2>1. rep \in RunReport /\ <<r, rep>> \in reports
    BY <1>5 DEF TypeOK
  <2>2. starting' = starting /\ reports' = reports \ {<<r, rep>>}
    BY <1>5 DEF HandleReport
  <2>3. agent[r] \in {"reporting", "apologising", "done"} /\ r \notin starting
        /\ outcome[r] # "absent"
    BY <2>1 DEF AgentOK
  <2>4. agent'[r] \in {"apologising", "done", "publishing", "failing"}
    <3>1. PICK heard \in Heard(r, rep) : agent' = [agent EXCEPT ![r] =
            CASE @ = "reporting" -> heard
              [] @ = "apologising" /\ rep \in LastReports -> "done"
              [] OTHER -> @]
      BY <1>5 DEF HandleReport
    <3>2. heard \in {"publishing", "done", "failing"}
      BY DEF Heard
    <3>3. agent'[r] = CASE agent[r] = "reporting" -> heard
                        [] agent[r] = "apologising" /\ rep \in LastReports -> "done"
                        [] OTHER -> agent[r]
      BY <3>1 DEF TypeOK
    <3> HIDE DEF rep
    <3> QED
      BY <2>3, <3>2, <3>3
  <2>5. outcome'[r] # "absent"
    BY <1>5, <2>1, <2>3, FinalizeRunFrame DEF HandleReport, RunOutcomes
  <2>6. \A also \in RunReport : <<r, also>> \notin reports'
    BY <2>1, <2>2 DEF AgentOK
  <2> QED
    BY <2>2, <2>3, <2>4, <2>5, <2>6 DEF AgentOK
<1>6. CASE Publish(r)
  BY <1>6 DEF Publish, AgentOK, TypeOK, dbVars, runVars, Finished
<1>7. CASE HandlePublished(r)
  BY <1>7 DEF HandlePublished, AgentOK, TypeOK, Finished
<1>8. CASE RequestFails(r)
  <2>1. CASE agent[r] = "starting"
    BY <1>8, <2>1 DEF RequestFails, AgentOK, TypeOK, dbVars, runVars, Finished
  <2>2. CASE agent[r] = "announcing"
    BY <1>8, <2>2 DEF RequestFails, AgentOK, TypeOK, dbVars, runVars, Finished
  <2>3. CASE agent[r] \in {"reporting", "apologising"}
    <3>1. reports' = {q \in reports : q[1] # r} /\ UNCHANGED <<starting, outcome>>
      BY <1>8, <2>3 DEF RequestFails, dbVars, runVars
    <3>2. agent'[r] \in {"failing", "done"}
      BY <1>8, <2>3 DEF RequestFails, TypeOK
    <3>3. \A rep \in RunReport : <<r, rep>> \notin reports'
      BY <3>1
    <3> QED
      BY <2>3, <3>1, <3>2, <3>3 DEF AgentOK, Finished
  <2> QED
    BY <1>8, <2>1, <2>2, <2>3 DEF RequestFails
<1>9. CASE RunnerDies(r)
  BY <1>9 DEF RunnerDies, Active, AgentOK, TypeOK, dbVars, runVars, Finished
<1> QED
  BY <1>1, <1>2, <1>3, <1>4, <1>5, <1>6, <1>7, <1>8, <1>9 DEF RunStep

\* What executeJob does to one run disturbs no poll and nothing the sweep selected.
LEMMA AgentRuns ==
  ASSUME IInv, OnceInv, AgentInv, TypeOK', ~LateRequests, NEW r \in Run, RunStep(r)
  PROVE  AgentInv'
<1>1. TypeOK /\ AgentOK(r)
  BY DEF IInv, AgentInv
<1>2. (\A q \in Run \ {r} : Same(q)) /\ Busy(r) /\ UNCHANGED <<poll, sweep>>
  BY <1>1, RunStepOthers
<1>3. AgentOK(r)'
  BY <1>1, RunStepAgent
<1>4. ASSUME NEW q \in Run \ {r} PROVE AgentOK(q)'
  BY <1>2 DEF AgentInv, AgentOK, Same, Finished
<1>5. agent[r] # "unknown"
  BY <1>1, <1>2 DEF Busy, Active, AgentOK
<1>6. ASSUME NEW m \in Runner PROVE AnswerOK(m)'
  <2>1. AnswerOK(m) /\ r \notin poll[m].out /\ poll[m].out \subseteq Run
    BY <1>1, <1>5 DEF AgentInv, AnswerOK, TypeOK, PollState
  <2> QED
    BY <1>2, <2>1 DEF AnswerOK, Same
<1>7. ASSUME NEW w \in sweep'.rows PROVE ~Live(w[1])'
  <2>1. ~Live(w[1])
    BY <1>2 DEF AgentInv
  <2>2. \A q \in Run : q[1] = w[1] => ~Busy(q)
    BY <1>1, <2>1, LiveIsBusy
  <2>3. \A q \in Run : q[1] = w[1] => ~Busy(q)'
    BY <1>2, <2>2 DEF Busy, Active, Same
  <2> QED
    BY <2>3, LiveIsBusyNext
<1> QED
  BY <1>3, <1>4, <1>6, <1>7 DEF AgentInv

\* A step of the control plane that tells runners nothing.
LEMMA AgentStill ==
  ASSUME AgentInv, UNCHANGED <<agent, starting, reports, outcome>>,
         \A m \in Runner : poll'[m].out \subseteq poll[m].out,
         \A w \in sweep'.rows : w \in sweep.rows \/ ~Live(w[1])
  PROVE  AgentInv'
<1>1. \A r \in Run : AgentOK(r)'
  BY DEF AgentInv, AgentOK, Finished
<1>2. \A m \in Runner : AnswerOK(m)'
  BY DEF AgentInv, AnswerOK
<1>3. \A w \in sweep'.rows : ~Live(w[1])'
  BY DEF AgentInv, Live, Active
<1> QED
  BY <1>1, <1>2, <1>3 DEF AgentInv

\* A poll leaves the other polls, the sweep and the requests in flight alone.
LEMMA PollOthers ==
  ASSUME TypeOK, NEW m \in Runner, PollStep(m)
  PROVE  /\ \A l \in Runner \ {m} : poll'[l] = poll[l]
         /\ UNCHANGED <<sweep, starting, reports>>
<1>1. \A l \in Runner \ {m} : poll'[l] = poll[l]
  BY DEF PollStep, PollCount, PollHold, PollClaim, PollInsert, PollRespond, TypeOK
<1>2. UNCHANGED <<sweep, starting, reports>>
  BY DEF PollStep, PollCount, PollHold, PollClaim, PollInsert, PollRespond, netVars
<1> QED
  BY <1>1, <1>2

\* Polling hands out each run once, to be worked on by one runner.
LEMMA AgentPolls ==
  ASSUME IInv, OnceInv, AgentInv, TypeOK', NEW m \in Runner, PollStep(m) PROVE AgentInv'
<1>1. TypeOK /\ ClaimInv
  BY DEF IInv
<1>2. /\ \A l \in Runner \ {m} : poll'[l] = poll[l]
      /\ UNCHANGED <<sweep, starting, reports>>
  BY <1>1, PollOthers
<1>3. CASE UNCHANGED <<agent, outcome>> /\ poll'[m].out \subseteq poll[m].out
  BY <1>2, <1>3, AgentStill
<1>4. CASE PollCount(m)
  <2>1. poll'[m].out = {} /\ UNCHANGED <<agent, outcome>>
    BY <1>1, <1>4 DEF PollCount, IdlePoll, TypeOK, dbVars, runVars, netVars
  <2> QED
    BY <1>3, <2>1
<1>5. CASE PollHold(m)
  <2>1. poll[m] \in PollState
    BY <1>1 DEF TypeOK
  <2>2. poll'[m].out = poll[m].out /\ UNCHANGED <<agent, outcome>>
    BY <1>1, <1>5, <2>1 DEF PollHold, PollState, TypeOK, dbVars, runVars, netVars
  <2> QED
    BY <1>3, <2>2
<1>6. CASE PollClaim(m)
  <2>1. PICK ids, phase : poll' = [poll EXCEPT ![m] = [IdlePoll EXCEPT !.phase = phase, !.ids = ids]]
    BY <1>6 DEF PollClaim
  <2>2. poll'[m].out = {}
    BY <1>1, <2>1 DEF IdlePoll, TypeOK
  <2>3. UNCHANGED <<agent, outcome>>
    BY <1>6 DEF PollClaim, runVars, netVars
  <2> QED
    BY <1>3, <2>2, <2>3
<1>7. CASE PollInsert(m)
  <2>1. PICK r \in poll[m].ids :
       IF r[1] \in orphaned
       THEN /\ poll' = [poll EXCEPT ![m].ids = @ \ {r}]
            /\ UNCHANGED outcome
       ELSE /\ outcome' = [outcome EXCEPT ![r] = "open"]
            /\ poll' = [poll EXCEPT ![m].ids = @ \ {r}, ![m].out = @ \cup {r}]
    BY <1>7 DEF PollInsert
  <2>2. agent' = agent /\ poll[m] \in PollState
    BY <1>1, <1>7 DEF PollInsert, netVars, TypeOK
  <2>3. r \in Run /\ outcome[r] = "absent"
    BY <1>1, <2>2 DEF PollState, ClaimInv
  <2>4. CASE r[1] \in orphaned
    <3>1. poll'[m].out = poll[m].out /\ outcome' = outcome
      BY <1>1, <2>1, <2>2, <2>4 DEF TypeOK, PollState
    <3> QED
      BY <1>3, <2>2, <3>1
  <2>5. CASE r[1] \notin orphaned
    <3>1. poll'[m].out = poll[m].out \cup {r}
      BY <1>1, <2>1, <2>2, <2>5 DEF TypeOK, PollState
    <3>2. outcome'[r] = "open" /\ \A q \in Run \ {r} : outcome'[q] = outcome[q]
      BY <1>1, <2>1, <2>3, <2>5 DEF TypeOK
    <3>3. AgentOK(r)
      BY <2>3 DEF AgentInv
    <3>4. agent[r] = "unknown" /\ r \notin starting
      BY <2>3, <3>3 DEF AgentOK
    <3>5. AgentOK(r)'
      BY <1>2, <2>2, <3>2, <3>3, <3>4 DEF AgentOK, Finished, RunOutcomes
    <3>6. ASSUME NEW q \in Run \ {r} PROVE AgentOK(q)'
      BY <1>2, <2>2, <3>2 DEF AgentInv, AgentOK, Finished
    <3>7. ASSUME NEW l \in Runner PROVE AnswerOK(l)'
      <4>1. \A k \in Runner : r \notin poll[k].out
        BY <2>3 DEF AgentInv, AnswerOK
      <4>2. poll[l].out \subseteq Run /\ AnswerOK(l) /\ AnswerOK(m)
        BY <1>1 DEF TypeOK, PollState, AgentInv
      <4>3. \A k \in Runner : poll'[k].out = IF k = m THEN poll[m].out \cup {r} ELSE poll[k].out
        BY <1>2, <3>1
      <4>4. poll[m].out \subseteq Run
        BY <1>1 DEF TypeOK, PollState
      <4> QED
        BY <1>2, <2>2, <3>2, <3>4, <4>1, <4>2, <4>3, <4>4 DEF AnswerOK
    <3>8. \A w \in sweep'.rows : ~Live(w[1])'
      BY <1>2, <2>2 DEF AgentInv, Live, Active
    <3> QED
      BY <3>5, <3>6, <3>7, <3>8 DEF AgentInv
  <2> QED
    BY <2>4, <2>5
<1>8. CASE PollRespond(m)
  <2>1. poll'[m].out = {} /\ outcome' = outcome
    BY <1>1, <1>8 DEF PollRespond, IdlePoll, TypeOK, dbVars, runVars
  <2>2. CASE agent' = agent
    BY <1>3, <2>1, <2>2
  <2>3. CASE agent' = [r \in Run |-> IF r \in poll[m].out THEN "accepted" ELSE agent[r]]
    <3>1. AnswerOK(m) /\ poll[m].out \subseteq Run
      BY <1>1 DEF AgentInv, TypeOK, PollState
    <3>2. ASSUME NEW r \in Run PROVE AgentOK(r)'
      <4>1. AgentOK(r)
        BY DEF AgentInv
      <4>2. CASE r \notin poll[m].out
        BY <1>2, <2>1, <2>3, <4>1, <4>2 DEF AgentOK, Finished
      <4>3. CASE r \in poll[m].out
        <5>1. outcome[r] = "open" /\ agent[r] = "unknown" /\ r \notin starting /\ agent'[r] = "accepted"
          BY <2>3, <3>1, <4>3 DEF AnswerOK
        <5>2. \A rep \in RunReport : <<r, rep>> \notin reports
          BY <4>1, <5>1 DEF AgentOK
        <5> QED
          BY <1>2, <2>1, <5>1, <5>2 DEF AgentOK, Finished, RunOutcomes
      <4> QED
        BY <4>2, <4>3
    <3>3. ASSUME NEW l \in Runner PROVE AnswerOK(l)'
      <4>1. CASE l = m
        BY <2>1, <4>1 DEF AnswerOK
      <4>2. CASE l # m
        <5>1. AnswerOK(l) /\ poll'[l] = poll[l] /\ poll[l].out \subseteq Run
          BY <1>1, <1>2, <4>2 DEF AgentInv, TypeOK, PollState
        <5>2. \A r \in poll[l].out : r \notin poll[m].out
          BY <4>2, <5>1 DEF AnswerOK
        <5>3. \A r \in poll[l].out : agent'[r] = agent[r]
          BY <2>3, <5>1, <5>2
        <5> QED
          BY <1>2, <2>1, <5>1, <5>3 DEF AnswerOK
      <4> QED
        BY <4>1, <4>2
    <3>4. ASSUME NEW w \in sweep'.rows PROVE ~Live(w[1])'
      <4>1. ~Live(w[1]) /\ ~Pending(w[1])
        BY <1>2 DEF AgentInv, OnceInv, Swept
      <4>2. \A r \in Run : r[1] = w[1] => agent'[r] = agent[r]
        BY <2>3, <4>1 DEF Pending
      <4> QED
        BY <1>2, <4>1, <4>2 DEF Live, Active
    <3> QED
      BY <3>2, <3>3, <3>4 DEF AgentInv
  <2> QED
    BY <1>8, <2>2, <2>3 DEF PollRespond
<1> QED
  BY <1>4, <1>5, <1>6, <1>7, <1>8 DEF PollStep

\* The sweep ends runs nobody works on, and selects no others.
LEMMA AgentSweep ==
  ASSUME IInv, OnceInv, AgentInv, ~JobsOutliveSweep, [Next]_vars, SweepStep PROVE AgentInv'
<1>1. TypeOK
  BY DEF IInv
<1>2. UNCHANGED <<poll, agent, starting, reports>>
  BY DEF SweepStep, SweepSelect, SweepJob, SweepRun, netVars
<1>3. \A w \in sweep'.rows : w \in sweep.rows \/ ~Live(w[1])
  BY <1>1, RowMovesStep DEF RowMoves, RowMove
<1>4. CASE outcome' = outcome
  BY <1>2, <1>3, <1>4, AgentStill
<1>5. ASSUME NEW r \in Run, SweepRun(r) PROVE AgentInv'
  <2>1. r \in sweep.rows /\ FinalizeRun(r, ErrorReport) /\ ErrorReport \in RunReport
    BY <1>5, LastReportTypes DEF SweepRun, LastReports
  <2>2. ~Live(r[1]) /\ ~Pending(r[1])
    BY <2>1 DEF AgentInv, OnceInv, Swept
  <2>3. ~Busy(r)
    BY <1>1, <2>2, LiveIsBusy
  <2>4. \A q \in Run \ {r} : outcome'[q] = outcome[q]
    BY <1>1, <2>1 DEF FinalizeRun, ClaimsTheRun, AlreadyFinalized, TypeOK, runVars
  <2>5. outcome[r] # "absent" /\ outcome'[r] # "absent"
    <3>1. CASE ClaimsTheRun(r, ErrorReport)
      BY <1>1, <2>1, <3>1, FinalizeRunFrame DEF ClaimsTheRun, RunOutcomes
    <3>2. CASE AlreadyFinalized(r)
      BY <3>2 DEF AlreadyFinalized, Finished, RunOutcomes, runVars
    <3> QED
      BY <2>1, <3>1, <3>2 DEF FinalizeRun
  <2>6. AgentOK(r)'
    BY <1>2, <2>3, <2>5 DEF AgentOK, Busy, Active
  <2>7. \A q \in Run \ {r} : AgentOK(q)'
    BY <1>2, <2>4 DEF AgentInv, AgentOK, Finished
  <2>8. ASSUME NEW m \in Runner PROVE AnswerOK(m)'
    <3>1. r \notin poll[m].out /\ poll[m].out \subseteq Run /\ AnswerOK(m)
      BY <1>1, <2>2 DEF Pending, TypeOK, PollState, AgentInv
    <3> QED
      BY <1>2, <2>4, <3>1 DEF AnswerOK
  <2>9. \A w \in sweep'.rows : ~Live(w[1])'
    BY <1>2, <1>3 DEF AgentInv, Live, Active
  <2> QED
    BY <2>6, <2>7, <2>8, <2>9 DEF AgentInv
<1> QED
  BY <1>4, <1>5 DEF SweepStep, SweepSelect, SweepJob, dbVars, runVars

\* Without late requests and jobs that outlive the sweep, a run that has ended is never started,
\* after every step.
LEMMA AgentStep ==
  ASSUME IInv, OnceInv, AgentInv, ~LateRequests, ~JobsOutliveSweep, [Next]_vars PROVE AgentInv'
<1>1. TypeOK /\ TypeOK'
  BY TypeStep DEF IInv
<1>2. ASSUME UNCHANGED <<agent, starting, reports, outcome, poll>>, sweep'.rows \subseteq sweep.rows
      PROVE  AgentInv'
  BY <1>2, AgentStill
<1>3. ASSUME NEW m \in Runner, PollStep(m) PROVE AgentInv'
  BY <1>1, <1>3, AgentPolls
<1>4. ASSUME NEW r \in Run, RunStep(r) PROVE AgentInv'
  BY <1>1, <1>4, AgentRuns
<1>5. ASSUME NEW r \in Run, WalkStep(r) PROVE AgentInv'
  BY <1>2, <1>5
  DEF WalkStep, WalkRead, WalkDecide, WalkQueue, WalkSkip, WalkMark, WalkFinish, WalkGrade,
      dbVars, runVars, netVars
<1>6. CASE SweepStep
  BY <1>6, AgentSweep
<1>7. ASSUME NEW n \in Node,
         \/ CancelJob(n) \/ CancelMark(n)
         \/ RetireWorker(n) \/ RetireMark(n) \/ DeleteWorker(n) \/ ResetBreaker(n)
      PROVE AgentInv'
  BY <1>2, <1>7
  DEF CancelJob, CancelMark, RetireWorker, RetireMark, DeleteWorker, ResetBreaker, handlerVars,
      runVars, netVars
<1>8. CASE StartCycleRun \/ ReconcileStep \/ UNCHANGED vars
  BY <1>2, <1>8
  DEF StartCycleRun, ReconcileStep, ReconcileSelect, ReconcileRow, vars, dbVars, runVars,
      handlerVars, netVars
<1>9. CASE Restart
  <2>1. /\ UNCHANGED <<agent, starting, reports, outcome>> /\ sweep'.rows = {}
        /\ \A m \in Runner : poll'[m].out = {}
    BY <1>9 DEF Restart, NoSweep, IdlePoll, dbVars, runVars, netVars
  <2> QED
    BY <2>1, AgentStill
<1> QED
  BY <1>3, <1>4, <1>5, <1>6, <1>7, <1>8, <1>9 DEF Next

\* No runner has anything to do at first.
LEMMA AgentInit == Init => AgentInv
BY DEF Init, AgentInv, AgentOK, AnswerOK, IdlePoll, NoSweep, Finished, RunOutcomes

\* What is started is in flight: a job that has ended is not revived.
LEMMA StartedIsInFlight ==
  ASSUME IInv, OnceInv, AgentInv, NEW r \in starting PROVE r[1] \in InFlight
<1>1. r \in Run /\ r[1] \in Node /\ r[2] \in Nat /\ r[2] > 0 /\ TypeOK
  BY RunNode DEF IInv, TypeOK
<1>2. AgentOK(r) /\ Issued(r)
  BY <1>1 DEF AgentInv, IInv, ClaimInv
<1>3. outcome[r] = "open"
  BY <1>1, <1>2 DEF AgentOK, Finished, TypeOK
<1>4. attempts[r[1]] # 0
  BY <1>1, <1>2 DEF Issued
<1>5. r[1] \notin settled
  BY <1>1, <1>3 DEF OnceInv, Closed, RunsOf
<1> QED
  BY <1>1, <1>4, <1>5
  DEF OnceInv, Waiting, IInv, EndedInv, TypeOK, InFlight, InFlightStates, JobStates, NonTerminal

-----------------------------------------------------------------------------
(* The cap of the machine (POST /jobs/claim).                               *)

\* What is in flight and what polls may still add to it find room on as many caps as there are runners.
CapInv ==
  /\ \A m \in Runner : Offering(m) => poll[m].slots <= MaxConcurrentJobs
  /\ Cardinality(InFlight) + Cardinality(Offers) <= Cardinality(Places)

\* The sets that are counted are finite.
LEMMA CountedSets ==
  ASSUME IsFiniteSet(Runner)
  PROVE  /\ IsFiniteSet(Places) /\ Cardinality(Places) \in Nat
         /\ Cardinality(Places) = Cardinality(Runner) * MaxConcurrentJobs
         /\ IsFiniteSet(Offers) /\ Cardinality(Offers) \in Nat
         /\ IsFiniteSet(Offers') /\ Cardinality(Offers') \in Nat
         /\ IsFiniteSet(InFlight) /\ Cardinality(InFlight) \in Nat
         /\ IsFiniteSet(InFlight') /\ Cardinality(InFlight') \in Nat
<1> DEFINE P == 1 .. MaxConcurrentJobs
<1>1. MaxConcurrentJobs \in Nat
  BY BoundAssumption
<1>2. IsFiniteSet(P) /\ Cardinality(P) = MaxConcurrentJobs
  BY <1>1, FS_Interval
<1> HIDE DEF P
<1>3. IsFiniteSet(Runner \X P) /\ Cardinality(Runner \X P) = Cardinality(Runner) * Cardinality(P)
  BY <1>2, FS_Product
<1>4. Places = Runner \X P
  BY DEF Places, P
<1>5. Offers \subseteq Places /\ Offers' \subseteq Places
  BY DEF Offers, Places
<1>6. InFlight \subseteq Node /\ InFlight' \subseteq Node
  BY DEF InFlight
<1>7. /\ IsFiniteSet(Places)
      /\ IsFiniteSet(Offers) /\ IsFiniteSet(Offers')
      /\ IsFiniteSet(InFlight) /\ IsFiniteSet(InFlight')
  BY <1>3, <1>4, <1>5, <1>6, GraphAssumption, FS_Subset
<1> QED
  BY <1>2, <1>3, <1>4, <1>7, FS_CardinalityType

\* The places of one runner, up to a number of slots.
Column(m, s) == {m} \X (1 .. s)

\* There are as many as slots.
LEMMA ColumnSize ==
  ASSUME NEW m, NEW s \in Nat PROVE IsFiniteSet(Column(m, s)) /\ Cardinality(Column(m, s)) = s
<1> DEFINE P == 1 .. s
<1>1. IsFiniteSet(P) /\ Cardinality(P) = s
  BY FS_Interval
<1>2. IsFiniteSet({m}) /\ Cardinality({m}) = 1
  BY FS_Singleton
<1> HIDE DEF P
<1>3. IsFiniteSet({m} \X P) /\ Cardinality({m} \X P) = Cardinality({m}) * Cardinality(P)
  BY <1>1, <1>2, FS_Product
<1>4. Cardinality({m} \X P) = s
  BY <1>1, <1>2, <1>3
<1> QED
  BY <1>3, <1>4 DEF Column, P

\* Only the claim's UPDATE puts a job in flight that was not.
LEMMA InFlightShrinks ==
  ASSUME IInv, OnceInv, AgentInv, ReleasesBlocked, [Next]_vars, attempts' = attempts
  PROVE  InFlight' \subseteq InFlight
<1> SUFFICES ASSUME NEW n \in Node, jobState'[n] \in InFlightStates PROVE jobState[n] \in InFlightStates
  BY DEF InFlight
<1>1. CASE StartCycleRun
  BY <1>1 DEF StartCycleRun, InFlightStates
<1>2. CASE Moves
  <2>1. attempts[n] \in Nat /\ attempts'[n] # attempts[n] + 1
    BY DEF IInv, TypeOK
  <2>2. ASSUME NEW r \in starting, r[1] = n PROVE jobState[n] \in InFlightStates
    BY <2>2, StartedIsInFlight DEF InFlight
  <2> QED
    BY <1>2, <2>1, <2>2 DEF Moves, Move, InFlightStates, TerminalStates
<1> QED
  BY <1>1, <1>2, MovesStep DEF IInv

\* POST /jobs/claim reads the cap: what it counts as free fits its runner's places.
LEMMA CapCounted ==
  ASSUME TypeOK, CapInv, IsFiniteSet(Runner), NEW m \in Runner, PollCount(m) PROVE CapInv'
<1> DEFINE M == MaxConcurrentJobs
           i == Cardinality(InFlight)
           c == Cardinality(Offers)
           d == Cardinality(Offers')
           k == Cardinality(Places)
<1>1. /\ IsFiniteSet(Places) /\ k \in Nat /\ IsFiniteSet(Offers) /\ c \in Nat
      /\ i \in Nat /\ M \in Nat
  BY CountedSets, BoundAssumption
<1>2. PICK capacity \in 1 .. RunnerCapacity :
        LET slots == Least(capacity, RemainingCapacity)
        IN  /\ slots > 0
            /\ poll' = [poll EXCEPT ![m] = [IdlePoll EXCEPT !.phase = "counted", !.slots = slots]]
  BY DEF PollCount
<1> DEFINE s == Least(capacity, RemainingCapacity)
<1>3. s \in Nat /\ s > 0 /\ i + s <= M
  <2>1. capacity \in Nat /\ RemainingCapacity \in Nat
    BY CapType, BoundAssumption
  <2>2. s \in Nat /\ s <= RemainingCapacity
    BY <2>1 DEF Least
  <2>3. RemainingCapacity = IF i < M THEN M - i ELSE 0
    BY DEF RemainingCapacity
  <2> HIDE DEF s, i, M
  <2>4. s > 0
    BY <1>2 DEF s
  <2> QED
    BY <1>1, <2>1, <2>2, <2>3, <2>4
<1>4. /\ poll'[m].phase = "counted" /\ poll'[m].slots = s
      /\ \A l \in Runner \ {m} : poll'[l] = poll[l]
      /\ poll[m].phase = "idle"
      /\ InFlight' = InFlight
  <2>1. poll' = [poll EXCEPT ![m] = [IdlePoll EXCEPT !.phase = "counted", !.slots = s]]
    BY <1>2
  <2> HIDE DEF s
  <2>2. /\ poll'[m].phase = "counted" /\ poll'[m].slots = s
        /\ \A l \in Runner \ {m} : poll'[l] = poll[l]
    BY <2>1 DEF IdlePoll, TypeOK
  <2>3. poll[m].phase = "idle" /\ InFlight' = InFlight
    BY DEF PollCount, InFlight, dbVars, jobVars
  <2> QED
    BY <2>2, <2>3
<1> HIDE DEF s
<1>5. Offers \subseteq Places \ Column(m, M) /\ Column(m, M) \subseteq Places
  BY <1>4 DEF Offers, Offering, Places, Column
<1>6. Offers' \subseteq Offers \cup Column(m, s)
  BY <1>4 DEF Offers, Offering, Places, Column
<1>7. c <= k - M
  <2>1. IsFiniteSet(Column(m, M)) /\ Cardinality(Column(m, M)) = M
    BY <1>1, ColumnSize
  <2>2. Places \cap Column(m, M) = Column(m, M)
    BY <1>5
  <2>3. /\ IsFiniteSet(Places \ Column(m, M))
        /\ Cardinality(Places \ Column(m, M)) = k - Cardinality(Places \cap Column(m, M))
    BY <1>1, FS_Difference
  <2>4. c <= Cardinality(Places \ Column(m, M))
    BY <1>5, <2>3, FS_Subset
  <2> QED
    BY <2>1, <2>2, <2>3, <2>4
<1>8. d <= c + s
  <2> DEFINE C == Column(m, s)
  <2>1. IsFiniteSet(C) /\ Cardinality(C) = s
    BY <1>3, ColumnSize
  <2> HIDE DEF C
  <2>2. /\ IsFiniteSet(Offers \cup C)
        /\ Cardinality(Offers \cup C) = Cardinality(Offers) + Cardinality(C) - Cardinality(Offers \cap C)
    BY <1>1, <2>1, FS_Union
  <2>3. Cardinality(Offers \cap C) \in Nat
    BY <1>1, FS_Intersection, FS_CardinalityType
  <2>4. d <= Cardinality(Offers \cup C) /\ d \in Nat
    BY <1>6, <2>2, CountedSets, FS_Subset DEF C
  <2> HIDE DEF c, d
  <2>5. c = Cardinality(Offers) /\ c \in Nat /\ s \in Nat
    BY <1>1, <1>3 DEF c
  <2> QED
    BY <2>1, <2>2, <2>3, <2>4, <2>5
<1>9. d \in Nat /\ Cardinality(InFlight') = i /\ Cardinality(Places') = k
  BY <1>4, CountedSets DEF Places
<1>10. i + d <= k
  <2> HIDE DEF i, c, d, k, M
  <2> QED
    BY <1>1, <1>3, <1>7, <1>8, <1>9
<1>11. \A l \in Runner : Offering(l)' => poll'[l].slots <= M
  <2>1. s <= M
    <3> HIDE DEF i, M
    <3> QED
      BY <1>1, <1>3
  <2> QED
    BY <1>4, <2>1 DEF CapInv, Offering
<1> QED
  BY <1>9, <1>10, <1>11 DEF CapInv

\* The claim's UPDATE fills no more places than it was offered.
LEMMA CapClaimed ==
  ASSUME TypeOK, CapInv, IsFiniteSet(Runner), NEW m \in Runner, PollClaim(m) PROVE CapInv'
<1> DEFINE i == Cardinality(InFlight)
           j == Cardinality(InFlight')
           c == Cardinality(Offers)
           d == Cardinality(Offers')
           k == Cardinality(Places)
           s == poll[m].slots
<1>1. /\ IsFiniteSet(Places) /\ k \in Nat /\ IsFiniteSet(Offers) /\ c \in Nat /\ d \in Nat
      /\ IsFiniteSet(InFlight) /\ i \in Nat /\ j \in Nat
  BY CountedSets
<1>2. PICK ids \in SUBSET Claimable(m) :
       /\ Cardinality(ids) = Least(poll[m].slots, Cardinality(Claimable(m)))
       /\ jobState' = [n \in Node |-> IF n \in ids THEN "claimed" ELSE jobState[n]]
       /\ poll' = [poll EXCEPT ![m] =
            [IdlePoll EXCEPT !.phase = IF ids = {} THEN "idle" ELSE "claimed",
                             !.ids = {<<n, attempts'[n]>> : n \in ids}]]
  BY DEF PollClaim
<1>3. ids \subseteq Node /\ Claimable(m) \subseteq Node /\ IsFiniteSet(ids) /\ Cardinality(ids) \in Nat
      /\ Cardinality(Claimable(m)) \in Nat
  <2>1. Claimable(m) \subseteq Node
    BY FleetAssumption DEF Claimable
  <2> QED
    BY <1>2, <2>1, GraphAssumption, FS_Subset, FS_CardinalityType
<1>4. s \in Nat /\ s <= MaxConcurrentJobs /\ Offering(m)
  BY DEF TypeOK, PollState, CapInv, Offering, PollClaim
<1>5. Cardinality(ids) <= s
  BY <1>2, <1>3, <1>4 DEF Least
<1>6. ~Offering(m)' /\ \A l \in Runner \ {m} : poll'[l] = poll[l]
  <2> DEFINE answer == [IdlePoll EXCEPT !.phase = IF ids = {} THEN "idle" ELSE "claimed",
                                        !.ids = {<<n, attempts'[n]>> : n \in ids}]
  <2>1. answer.phase \in {"idle", "claimed"}
    BY DEF IdlePoll
  <2>2. poll' = [poll EXCEPT ![m] = answer]
    BY <1>2
  <2> HIDE DEF answer
  <2> QED
    BY <2>1, <2>2 DEF TypeOK, Offering
<1>7. j <= i + s
  <2>1. InFlight' \subseteq InFlight \cup ids
    BY <1>2 DEF InFlight
  <2>2. /\ IsFiniteSet(InFlight \cup ids)
        /\ Cardinality(InFlight \cup ids)
             = Cardinality(InFlight) + Cardinality(ids) - Cardinality(InFlight \cap ids)
    BY <1>1, <1>3, FS_Union
  <2>3. Cardinality(InFlight \cap ids) \in Nat
    BY <1>1, FS_Intersection, FS_CardinalityType
  <2>4. j <= Cardinality(InFlight \cup ids)
    BY <2>1, <2>2, FS_Subset
  <2>5. i = Cardinality(InFlight)
    OBVIOUS
  <2> HIDE DEF i, j, s
  <2> QED
    BY <1>1, <1>3, <1>4, <1>5, <2>2, <2>3, <2>4, <2>5
<1>8. d <= c - s
  <2> DEFINE C == Column(m, s)
  <2>1. IsFiniteSet(C) /\ Cardinality(C) = s
    BY <1>4, ColumnSize
  <2>2. C \subseteq Offers
    BY <1>4, BoundAssumption DEF Column, Offers, Places
  <2>3. Offers' \subseteq Offers \ C
    BY <1>6 DEF Offers, Offering, Places, Column
  <2> HIDE DEF C
  <2>4. Offers \cap C = C
    BY <2>2
  <2>5. /\ IsFiniteSet(Offers \ C)
        /\ Cardinality(Offers \ C) = Cardinality(Offers) - Cardinality(Offers \cap C)
    BY <1>1, FS_Difference
  <2>6. d <= Cardinality(Offers \ C)
    BY <2>3, <2>5, FS_Subset
  <2> QED
    BY <2>1, <2>4, <2>5, <2>6
<1>9. j + d <= k
  <2>1. i + c <= k
    BY DEF CapInv
  <2> HIDE DEF i, j, c, d, k, s
  <2> QED
    BY <1>1, <1>4, <1>7, <1>8, <2>1
<1>10. \A l \in Runner : Offering(l)' => poll'[l].slots <= MaxConcurrentJobs
  BY <1>6 DEF CapInv, Offering
<1> QED
  BY <1>9, <1>10 DEF CapInv, Places

\* Any other step keeps what is in flight within it, and offers nothing.
LEMMA CapOthers ==
  ASSUME CapInv, IsFiniteSet(Runner), InFlight' \subseteq InFlight,
         \A l \in Runner : Offering(l)' => Offering(l) /\ poll'[l].slots = poll[l].slots
  PROVE  CapInv'
<1> DEFINE i == Cardinality(InFlight)
           j == Cardinality(InFlight')
           c == Cardinality(Offers)
           d == Cardinality(Offers')
           k == Cardinality(Places)
<1>1. Offers' \subseteq Offers
  BY DEF Offers, Places
<1>2. /\ IsFiniteSet(InFlight) /\ IsFiniteSet(Offers)
      /\ i \in Nat /\ j \in Nat /\ c \in Nat /\ d \in Nat /\ k \in Nat
  BY CountedSets
<1>3. j <= i /\ d <= c
  BY <1>1, <1>2, FS_Subset
<1>4. i + c <= k
  BY DEF CapInv
<1>5. j + d <= k
  <2> HIDE DEF i, j, c, d, k
  <2> QED
    BY <1>2, <1>3, <1>4
<1>6. \A l \in Runner : Offering(l)' => poll'[l].slots <= MaxConcurrentJobs
  BY DEF CapInv
<1> QED
  BY <1>5, <1>6 DEF CapInv, Places

\* What is in flight and what is offered fit, after every step.
LEMMA CapStep ==
  ASSUME IInv, OnceInv, AgentInv, CapInv, IsFiniteSet(Runner), ReleasesBlocked, [Next]_vars
  PROVE  CapInv'
<1>1. TypeOK
  BY DEF IInv
<1>2. ASSUME attempts' = attempts,
             \A l \in Runner : Offering(l)' => Offering(l) /\ poll'[l].slots = poll[l].slots
      PROVE  CapInv'
  BY <1>2, CapOthers, InFlightShrinks
<1>3. ASSUME NEW m \in Runner, PollStep(m) PROVE CapInv'
  <2>1. CASE PollHold(m)
    <3>1. poll[m] \in PollState /\ poll[m].phase = "counted" /\ attempts' = attempts
      BY <1>1, <2>1 DEF TypeOK, PollHold, dbVars
    <3>2. poll'[m].slots = poll[m].slots /\ \A l \in Runner \ {m} : poll'[l] = poll[l]
      BY <1>1, <2>1, <3>1 DEF TypeOK, PollHold, PollState
    <3> QED
      BY <1>2, <3>1, <3>2 DEF Offering
  <2>2. CASE PollInsert(m)
    <3>1. attempts' = attempts
      BY <2>2 DEF PollInsert
    <3>2. PICK r \in poll[m].ids :
            \/ poll' = [poll EXCEPT ![m].ids = @ \ {r}]
            \/ poll' = [poll EXCEPT ![m].ids = @ \ {r}, ![m].out = @ \cup {r}]
      BY <2>2 DEF PollInsert
    <3>3. poll[m] \in PollState
      BY <1>1 DEF TypeOK
    <3>4. /\ poll'[m].phase = poll[m].phase /\ poll'[m].slots = poll[m].slots
          /\ \A l \in Runner \ {m} : poll'[l] = poll[l]
      BY <1>1, <3>2, <3>3 DEF TypeOK, PollState
    <3> QED
      BY <1>2, <3>1, <3>4 DEF Offering
  <2>3. CASE PollRespond(m)
    <3>1. attempts' = attempts /\ poll' = [poll EXCEPT ![m] = IdlePoll]
      BY <2>3 DEF PollRespond, dbVars
    <3>2. ~Offering(m)' /\ \A l \in Runner \ {m} : poll'[l] = poll[l]
      BY <1>1, <3>1 DEF TypeOK, IdlePoll, Offering
    <3> QED
      BY <1>2, <3>1, <3>2 DEF Offering
  <2> QED
    BY <1>1, <1>3, <2>1, <2>2, <2>3, CapCounted, CapClaimed DEF PollStep
<1>4. CASE OtherStep
  <2>1. attempts' = attempts /\ (poll' = poll \/ poll' = [m \in Runner |-> IdlePoll])
    BY <1>1, <1>4, OtherStepFrame DEF RunsFrame
  <2>2. \A l \in Runner : Offering(l)' => Offering(l) /\ poll'[l].slots = poll[l].slots
    BY <2>1 DEF Offering, IdlePoll
  <2> QED
    BY <1>2, <2>1, <2>2
<1>5. CASE UNCHANGED vars
  <2>1. attempts' = attempts /\ poll' = poll
    BY <1>5 DEF vars, dbVars, handlerVars
  <2> QED
    BY <1>2, <2>1 DEF Offering
<1> QED
  BY <1>3, <1>4, <1>5 DEF Next, OtherStep

\* Nothing is in flight at first, and nothing offered.
LEMMA CapInit == ASSUME IsFiniteSet(Runner), Init PROVE CapInv
<1>1. InFlight = {} /\ Offers = {} /\ \A m \in Runner : ~Offering(m)
  BY DEF Init, InFlight, InFlightStates, Offers, Offering, Places, IdlePoll
<1>2. Cardinality({}) = 0
  BY FS_EmptySet
<1>3. Cardinality(InFlight) = 0 /\ Cardinality(Offers) = 0
  BY <1>1, <1>2
<1>4. Cardinality(Places) \in Nat
  BY CountedSets
<1> QED
  BY <1>1, <1>3, <1>4 DEF CapInv

\* Nobody works on what has ended, and what is in flight or offered fits, on any number of runners.
LEMMA CapInvariant ==
  ASSUME IsFiniteSet(Runner), ~LateRequests, ~JobsOutliveSweep
  PROVE  Spec /\ ReleasesOnlyBlocked => [](AgentInv /\ CapInv)
<1>1. IInv /\ OnceInv /\ AgentInv /\ [Next]_vars => AgentInv'
  BY AgentStep
<1>2. IInv /\ OnceInv /\ AgentInv /\ CapInv /\ [Next]_vars /\ [ReleasesBlocked]_vars => CapInv'
  <2> SUFFICES ASSUME IInv, OnceInv, AgentInv, CapInv, [Next]_vars, [ReleasesBlocked]_vars
               PROVE  CapInv'
    OBVIOUS
  <2>1. CASE ReleasesBlocked
    BY <2>1, CapStep
  <2>2. CASE UNCHANGED vars
    <3>1. jobState' = jobState /\ poll' = poll
      BY <2>2 DEF vars, dbVars, jobVars, handlerVars
    <3>2. InFlight' = InFlight /\ Offers' = Offers /\ Places' = Places
      BY <3>1 DEF InFlight, Offers, Offering, Places
    <3> QED
      BY <3>1, <3>2 DEF CapInv, Offering
  <2> QED
    BY <2>1, <2>2
<1>3. Init => AgentInv /\ CapInv
  BY AgentInit, CapInit
<1> QED
  BY <1>1, <1>2, <1>3, InvariantHolds, OnceInvariant, PTL DEF Spec, ReleasesOnlyBlocked

\* However many runners poll at once, each has read the cap for itself: together they carry, and
\* have counted as free, no more than the cap times their number, as long as no request lands late, no job outlives the
\* sweep's cutoff and walks release blocked jobs only (POST /jobs/claim).
THEOREM CapHoldsPerRunner ==
  ASSUME IsFiniteSet(Runner), ~LateRequests, ~JobsOutliveSweep
  PROVE  Spec /\ ReleasesOnlyBlocked => []CapPerRunner
<1>1. CapInv => CapPerRunner
  <2> SUFFICES ASSUME CapInv PROVE CapPerRunner
    OBVIOUS
  <2> DEFINE i == Cardinality(InFlight)
             c == Cardinality(Offers)
             k == Cardinality(Places)
             most == Cardinality(Runner) * MaxConcurrentJobs
  <2>1. i \in Nat /\ c \in Nat /\ k \in Nat /\ k = most /\ i + c <= k
    BY CountedSets DEF CapInv
  <2> HIDE DEF i, c, k, most
  <2>2. i + c <= most
    BY <2>1
  <2> QED
    BY <2>2 DEF i, c, most, CapPerRunner
<1> QED
  BY <1>1, CapInvariant, PTL

\* With one runner polling the cap is hard: what it counted as free is still free when its UPDATE
\* takes it, because nothing else puts a job in flight.
THEOREM CapIsHardForOneRunner ==
  ASSUME NEW m, Runner = {m}, ~LateRequests, ~JobsOutliveSweep
  PROVE  Spec /\ ReleasesOnlyBlocked => []CapIsHard
<1>1. IsFiniteSet(Runner) /\ Cardinality(Runner) = 1
  BY FS_Singleton
<1>2. Cardinality(Runner) * MaxConcurrentJobs = MaxConcurrentJobs
  BY <1>1, BoundAssumption
<1>3. CapPerRunner => CapIsHard
  <2>1. Cardinality(InFlight) \in Nat /\ Cardinality(Offers) \in Nat
    BY <1>1, CountedSets
  <2> QED
    BY <1>2, <2>1, BoundAssumption DEF CapPerRunner, CapIsHard
<1>4. Spec /\ ReleasesOnlyBlocked => []CapPerRunner
  BY <1>1, CapHoldsPerRunner
<1> QED
  BY <1>3, <1>4, PTL

\* What has ended is terminal, and a run that ended is not brought back by its own requests.
LEMMA EndedStep ==
  ASSUME IInv, OnceInv, AgentInv, ReleasesBlocked, [Next]_vars,
         \A n \in settled : jobState[n] \in TerminalStates, NEW n \in settled'
  PROVE  jobState'[n] \in TerminalStates
<1>1. n \in Node /\ settled \subseteq Node
  BY TypeStep DEF IInv, TypeOK
<1>2. CASE StartCycleRun
  BY <1>1, <1>2, EnvironmentAssumption DEF StartCycleRun, TerminalStates
<1>3. CASE Moves
  <2>1. Move(n)
    BY <1>1, <1>3 DEF Moves
  <2>2. n \in settled => jobState[n] \in TerminalStates
    OBVIOUS
  <2>3. \A r \in starting : r[1] = n => jobState[n] \in InFlightStates
    BY StartedIsInFlight DEF InFlight
  <2> QED
    BY <2>1, <2>2, <2>3 DEF Move, TerminalStates, InFlightStates
<1> QED
  BY <1>2, <1>3, MovesStep DEF IInv

\* A job that has ended stays ended: no release, no poll and no request of its runner revives it,
\* though every write of its state is unconditional but the claim's and the cancel's.
THEOREM EndedForGood ==
  ASSUME ~LateRequests, ~JobsOutliveSweep
  PROVE  Spec /\ ReleasesOnlyBlocked => [](\A n \in settled : jobState[n] \in TerminalStates)
<1> DEFINE Ended == \A n \in settled : jobState[n] \in TerminalStates
<1>1. Init => AgentInv /\ Ended
  BY AgentInit DEF Init
<1>2. IInv /\ OnceInv /\ AgentInv /\ [Next]_vars => AgentInv'
  BY AgentStep
<1>3. IInv /\ OnceInv /\ AgentInv /\ Ended /\ [Next]_vars /\ [ReleasesBlocked]_vars => Ended'
  <2> SUFFICES ASSUME IInv, OnceInv, AgentInv, Ended, [Next]_vars, [ReleasesBlocked]_vars PROVE Ended'
    OBVIOUS
  <2>1. CASE ReleasesBlocked
    BY <2>1, EndedStep
  <2>2. CASE UNCHANGED vars
    BY <2>2 DEF vars, dbVars, jobVars
  <2> QED
    BY <2>1, <2>2
<1> HIDE DEF Ended
<1>4. Spec /\ ReleasesOnlyBlocked => []Ended
  BY <1>1, <1>2, <1>3, InvariantHolds, OnceInvariant, PTL DEF Spec, ReleasesOnlyBlocked
<1> QED
  BY <1>4 DEF Ended

-----------------------------------------------------------------------------
(* Where nothing is blocked: a cycle without edges.                         *)

\* What a step may do to a walk, in the parts a release depends on.
WalkStays(r) ==
  /\ walk'[r].phase = walk[r].phase /\ walk'[r].seen = walk[r].seen
  /\ walk'[r].queue = walk[r].queue /\ walk'[r].skip = walk[r].skip
WalkEnds(r) ==
  walk'[r].phase \in {"idle", "grade"} /\ walk'[r].queue = {} /\ walk'[r].skip = {}
WalkStarts(r) ==
  /\ walk'[r].phase = "release" /\ walk'[r].queue = {} /\ walk'[r].skip = {}
  /\ \E rep \in RunReport : ClaimsTheRun(r, rep)
WalkReads(r) ==
  /\ walk[r].phase = "release" /\ walk'[r].phase = "decide" /\ walk'[r].seen = jobState
  /\ walk'[r].queue = walk[r].queue /\ walk'[r].skip = walk[r].skip
WalkDecides(r) ==
  /\ walk[r].phase = "decide" /\ walk'[r].phase = "write"
  /\ walk'[r].queue \cup walk'[r].skip \subseteq Releasable(walk[r].seen)
  /\ walk'[r].queue \cap walk'[r].skip = {}
WalkReleases(r, n) ==
  /\ walk[r].phase = "write" /\ walk'[r].phase = "write"
  /\ \/ n \in walk[r].queue /\ walk'[r].queue = walk[r].queue \ {n} /\ walk'[r].skip = walk[r].skip
     \/ n \in walk[r].skip /\ walk'[r].skip = walk[r].skip \ {n} /\ walk'[r].queue = walk[r].queue
WalkMove(r) ==
  \/ WalkStays(r) \/ WalkEnds(r) \/ WalkStarts(r) \/ WalkReads(r) \/ WalkDecides(r)
  \/ \E n \in Node : WalkReleases(r, n)

\* A step of a release takes one job out of the walk's list.
LEMMA WalkReleaseMoves ==
  ASSUME TypeOK, NEW r \in Run, NEW n \in Node, WalkQueue(r, n) \/ WalkSkip(r, n)
  PROVE  WalkReleases(r, n)
<1>1. walk[r] \in WalkState
  BY DEF TypeOK
<1>2. CASE WalkQueue(r, n)
  BY <1>1, <1>2 DEF WalkQueue, WalkState, TypeOK, WalkReleases
<1>3. CASE WalkSkip(r, n)
  BY <1>1, <1>3 DEF WalkSkip, WalkState, TypeOK, WalkReleases
<1> QED
  BY <1>2, <1>3

\* A walk decides on what it has read.
LEMMA WalkDecideMoves == ASSUME TypeOK, NEW r \in Run, WalkDecide(r) PROVE WalkDecides(r)
<1> DEFINE seen == walk[r].seen
           skip == {n \in Releasable(seen) : BlockedBy(n, seen, DeclinedNodes) # {}}
           queue == Releasable(seen) \ skip
<1>1. /\ walk' = [walk EXCEPT ![r] = [IdleWalk EXCEPT !.phase = "write", !.skip = skip, !.queue = queue]]
      /\ walk[r].phase = "decide"
  BY DEF WalkDecide
<1>2. queue \cup skip \subseteq Releasable(seen) /\ queue \cap skip = {}
  OBVIOUS
<1> HIDE DEF skip, queue
<1>3. walk'[r].phase = "write" /\ walk'[r].queue = queue /\ walk'[r].skip = skip
  BY <1>1 DEF TypeOK, IdleWalk
<1> QED
  BY <1>1, <1>2, <1>3 DEF WalkDecides

\* Every step changes walks only in the ways WalkMove lists.
LEMMA WalkMovesStep == ASSUME TypeOK, [Next]_vars, NEW r \in Run PROVE WalkMove(r)
<1>1. CASE walk' = walk
  BY <1>1 DEF WalkMove, WalkStays
<1>2. CASE Restart
  BY <1>2 DEF Restart, IdleWalk, WalkMove, WalkEnds
<1>3. ASSUME NEW q \in Run, NEW rep \in RunReport, ClaimsTheRun(q, rep) PROVE WalkMove(r)
  <2>1. walk' = [walk EXCEPT ![q] = [IdleWalk EXCEPT !.phase = "release"]]
    BY <1>3 DEF ClaimsTheRun
  <2>2. CASE q # r
    BY <2>1, <2>2 DEF TypeOK, WalkMove, WalkStays
  <2>3. CASE q = r
    <3>1. walk'[r].phase = "release" /\ walk'[r].queue = {} /\ walk'[r].skip = {}
      BY <2>1, <2>3 DEF TypeOK, IdleWalk
    <3> QED
      BY <1>3, <2>3, <3>1, Zenon DEF WalkMove, WalkStarts
  <2> QED
    BY <2>2, <2>3
<1>4. ASSUME NEW q \in Run, WalkStep(q), q # r PROVE WalkMove(r)
  <2>1. walk'[r] = walk[r]
    BY <1>4, ZenonT(30)
    DEF WalkStep, WalkRead, WalkDecide, WalkQueue, WalkSkip, WalkMark, WalkFinish, WalkGrade, TypeOK
  <2> QED
    BY <2>1 DEF WalkMove, WalkStays
<1>5. ASSUME WalkStep(r) PROVE WalkMove(r)
  <2>1. walk[r] \in WalkState
    BY DEF TypeOK
  <2>2. CASE WalkRead(r)
    BY <2>1, <2>2 DEF WalkRead, WalkState, TypeOK, WalkMove, WalkReads
  <2>3. CASE WalkDecide(r)
    BY <2>3, WalkDecideMoves DEF WalkMove
  <2>4. ASSUME NEW n \in Node, WalkQueue(r, n) \/ WalkSkip(r, n) PROVE WalkMove(r)
    BY <2>4, WalkReleaseMoves DEF WalkMove
  <2>5. CASE WalkMark(r)
    BY <2>1, <2>5 DEF WalkMark, WalkState, TypeOK, WalkMove, WalkStays
  <2>6. CASE WalkFinish(r)
    <3>1. CASE \A n \in Node : jobState[n] \in TerminalStates
      BY <2>6, <3>1 DEF WalkFinish, IdleWalk, TypeOK, WalkMove, WalkEnds
    <3>2. CASE ~\A n \in Node : jobState[n] \in TerminalStates
      BY <2>6, <3>2 DEF WalkFinish, IdleWalk, TypeOK, WalkMove, WalkEnds
    <3> QED
      BY <3>1, <3>2
  <2>7. CASE WalkGrade(r)
    BY <2>7 DEF WalkGrade, IdleWalk, TypeOK, WalkMove, WalkEnds
  <2> QED
    BY <1>5, <2>2, <2>3, <2>4, <2>5, <2>6, <2>7 DEF WalkStep
<1> QED
  BY <1>1, <1>2, <1>3, <1>4, <1>5, WalkMoversStep DEF WalkMovers

\* A cycle without edges blocks nothing, and its walks have nothing to release.
FreeInv ==
  /\ \A n \in Node : jobState[n] # "blocked"
  /\ \A r \in Run : /\ walk[r].queue = {} /\ walk[r].skip = {}
                    /\ walk[r].phase = "decide" => \A n \in Node : walk[r].seen[n] # "blocked"

\* Nothing to release, nothing released.
LEMMA FreeReleases == ASSUME FreeInv PROVE ReleasesBlocked
BY DEF FreeInv, ReleasesBlocked, WalkQueue, WalkSkip

\* Without edges nothing is ever blocked.
LEMMA FreeStep == ASSUME Edge = {}, IInv, FreeInv, [Next]_vars PROVE FreeInv'
<1>1. TypeOK /\ ReleasesBlocked
  BY FreeReleases DEF IInv
<1>2. ASSUME NEW n \in Node PROVE jobState'[n] # "blocked"
  <2>1. CASE StartCycleRun
    BY <2>1 DEF StartCycleRun, Incoming
  <2>2. CASE Moves
    BY <2>2 DEF Moves, Move, FreeInv, TerminalStates
  <2> QED
    BY <1>1, <2>1, <2>2, MovesStep
<1>3. ASSUME NEW r \in Run
      PROVE  /\ walk'[r].queue = {} /\ walk'[r].skip = {}
             /\ walk'[r].phase = "decide" => \A n \in Node : walk'[r].seen[n] # "blocked"
  <2>1. WalkMove(r)
    BY <1>1, WalkMovesStep
  <2>2. CASE WalkDecides(r)
    BY <2>2 DEF WalkDecides, Releasable, FreeInv
  <2> QED
    BY <2>1, <2>2
    DEF WalkMove, WalkStays, WalkEnds, WalkStarts, WalkReads, WalkReleases, FreeInv
<1> QED
  BY <1>2, <1>3 DEF FreeInv

\* On a cycle without edges walks release nothing at all: the condition of the theorems above is
\* met by the constants.
THEOREM NoEdgesReleaseBlocked == ASSUME Edge = {} PROVE Spec => ReleasesOnlyBlocked
<1>1. Init => FreeInv
  BY DEF Init, FreeInv, IdleWalk
<1>2. IInv /\ FreeInv /\ [Next]_vars => FreeInv'
  BY FreeStep
<1>3. FreeInv /\ [Next]_vars => [ReleasesBlocked]_vars
  BY FreeReleases
<1> QED
  BY <1>1, <1>2, <1>3, InvariantHolds, PTL DEF Spec, ReleasesOnlyBlocked

\* So a cycle of independent jobs claims each job once, whatever is cancelled, removed, refused,
\* lost or late, and however often the control plane restarts.
THEOREM ClaimedOnceWithoutEdges == ASSUME Edge = {} PROVE Spec => []ClaimedOnce
BY NoEdgesReleaseBlocked, ClaimedOnceWhenBlocked, PTL

\* Its grade never calls a failure a decline.
THEOREM DeclineIsHonestWithoutEdges == ASSUME Edge = {} PROVE Spec => []DeclineHidesNoFailure
BY NoEdgesReleaseBlocked, DeclineIsHonestWhenBlocked, PTL

\* The runners that poll it carry at most the cap each, however their polls overlap.
THEOREM CapPerRunnerWithoutEdges ==
  ASSUME IsFiniteSet(Runner), Edge = {}, ~LateRequests, ~JobsOutliveSweep
  PROVE  Spec => []CapPerRunner
<1>1. Spec => ReleasesOnlyBlocked
  BY NoEdgesReleaseBlocked
<1>2. Spec /\ ReleasesOnlyBlocked => []CapPerRunner
  BY CapHoldsPerRunner
<1> QED
  BY <1>1, <1>2

\* And one runner that polls it keeps to the cap.
THEOREM CapIsHardWithoutEdges ==
  ASSUME NEW m, Runner = {m}, Edge = {}, ~LateRequests, ~JobsOutliveSweep
  PROVE  Spec => []CapIsHard
<1>1. Spec => ReleasesOnlyBlocked
  BY NoEdgesReleaseBlocked
<1>2. Spec /\ ReleasesOnlyBlocked => []CapIsHard
  BY CapIsHardForOneRunner
<1> QED
  BY <1>1, <1>2

-----------------------------------------------------------------------------
(* Where one walk meets no other: a chain.                                  *)

\* The nodes are one chain: each waits for the one before it.
Line(pos) ==
  /\ pos \in [Node -> Nat]
  /\ \A n, k \in Node : pos[n] = pos[k] => n = k
  /\ \A e \in Edge : pos[e.to] = pos[e.from] + 1
  /\ \A n \in Node : pos[n] > 0 => Incoming(n) # {}

\* A walk that may still release something.
Walking(r) ==
  \/ walk[r].phase \in {"release", "decide"}
  \/ walk[r].phase = "write" /\ walk[r].queue \cup walk[r].skip # {}

\* What is behind a walk is blocked and what is ahead of an unblocked job has ended, so that a
\* walk has one job to release, the next one.
LineJobs(pos) ==
  /\ cycle # "none" => \A n \in Node : jobState[n] # "none"
  /\ \A n, k \in Node : jobState[n] \notin {"none", "blocked"} /\ pos[k] < pos[n] => k \in settled
LineBehind(pos) ==
  \A r \in Run : Walking(r) => \A k \in Node : pos[r[1]] < pos[k] => jobState[k] = "blocked"
LineWalks(pos) ==
  \A r \in Run :
    /\ walk[r].phase = "decide" =>
         \A k \in Node : walk[r].seen[k] = "blocked" => pos[r[1]] < pos[k]
    /\ \A k \in walk[r].queue \cup walk[r].skip : pos[k] = pos[r[1]] + 1
    /\ walk[r].queue \cap walk[r].skip = {}
LineInv(pos) == LineJobs(pos) /\ LineBehind(pos) /\ LineWalks(pos)

\* A run that exists, or is being started, is of a job that was handed out.
LEMMA HandedOut ==
  ASSUME IInv, OnceInv, NEW r \in Run, outcome[r] # "absent" \/ r \in starting
  PROVE  Issued(r) /\ r[1] \in Node /\ ~Waiting(r[1])
<1>1. r[1] \in Node /\ r[2] \in Nat /\ r[2] > 0
  BY RunNode
<1>2. Issued(r)
  BY DEF IInv, ClaimInv
<1>3. attempts[r[1]] # 0
  BY <1>1, <1>2 DEF Issued
<1> QED
  BY <1>1, <1>2, <1>3 DEF OnceInv

\* Whoever walks the graph has ended its own job.
LEMMA WalkerEnded ==
  ASSUME IInv, OnceInv, NEW r \in Run, walk[r].phase # "idle"
  PROVE  Issued(r) /\ r[1] \in Node /\ r[1] \in settled /\ ~Waiting(r[1])
<1>1. Finished(r)
  BY DEF IInv, WalkInv
<1>2. outcome[r] # "absent"
  BY <1>1 DEF Finished, RunOutcomes
<1> QED
  BY <1>1, <1>2, HandedOut DEF OnceInv

\* finalizeRun does nothing to a job that was not handed out.
LEMMA FinalizeLeavesBlocked ==
  ASSUME IInv, OnceInv, NEW r \in Run, NEW rep \in RunReport, FinalizeRun(r, rep),
         NEW n \in Node, jobState[n] = "blocked"
  PROVE  jobState'[n] = "blocked"
<1>1. CASE ClaimsTheRun(r, rep)
  <2>1. outcome[r] = "open" /\ SetJob(r[1], JobStateOf(DerivedOutcome(rep)))
    BY <1>1 DEF ClaimsTheRun
  <2>2. r[1] \in Node /\ r[1] # n /\ TypeOK
    BY <2>1, HandedOut DEF Waiting, IInv
  <2> QED
    BY <2>1, <2>2, SetJobFrame
<1>2. CASE AlreadyFinalized(r)
  BY <1>2 DEF AlreadyFinalized, jobVars
<1> QED
  BY <1>1, <1>2 DEF FinalizeRun

\* As long as no worker is removed, only a walk takes a job out of the blocked ones.
LEMMA BlockedLeaves ==
  ASSUME IInv, OnceInv, Removable = {}, [Next]_vars, NEW n \in Node, jobState[n] = "blocked"
  PROVE  jobState'[n] = "blocked" \/ \E r \in Run : WalkQueue(r, n) \/ WalkSkip(r, n)
<1> DEFINE Goal == jobState'[n] = "blocked" \/ \E r \in Run : WalkQueue(r, n) \/ WalkSkip(r, n)
<1>1. TypeOK
  BY DEF IInv
<1>2. ASSUME NEW k \in Node, NEW s, SetJob(k, s), k # n PROVE Goal
  BY <1>1, <1>2, SetJobFrame
<1>3. ASSUME jobState' = jobState PROVE Goal
  BY <1>3
<1>4. ASSUME NEW m \in Runner, PollStep(m) PROVE Goal
  <2>1. CASE PollClaim(m)
    BY <2>1 DEF PollClaim, Claimable
  <2> QED
    BY <1>3, <1>4, <2>1 DEF PollStep, PollCount, PollHold, PollInsert, PollRespond, dbVars, jobVars
<1>5. ASSUME NEW r \in Run, RunStep(r) PROVE Goal
  <2>1. CASE HandleStarted(r)
    <3>1. r \in starting /\ SetJob(r[1], "running")
      BY <2>1 DEF HandleStarted
    <3>2. r[1] \in Node /\ r[1] # n
      BY <3>1, HandedOut DEF Waiting
    <3> QED
      BY <1>2, <3>1, <3>2
  <2>2. ASSUME NEW rep, HandleReport(r, rep) PROVE Goal
    <3>1. rep \in RunReport /\ FinalizeRun(r, rep)
      BY <1>1, <2>2 DEF HandleReport, TypeOK
    <3> QED
      BY <3>1, FinalizeLeavesBlocked
  <2> QED
    BY <1>3, <1>5, <2>1, <2>2
    DEF RunStep, SendStarted, SendReport, SendLastReport, Publish, HandlePublished,
        RequestFails, RunnerDies, dbVars, jobVars
<1>6. ASSUME NEW r \in Run, WalkStep(r) PROVE Goal
  <2>1. ASSUME NEW k \in Node, WalkQueue(r, k) PROVE Goal
    BY <1>2, <2>1 DEF WalkQueue
  <2>2. ASSUME NEW k \in Node, WalkSkip(r, k) PROVE Goal
    BY <1>2, <2>2 DEF WalkSkip
  <2> QED
    BY <1>3, <1>6, <2>1, <2>2
    DEF WalkStep, WalkRead, WalkDecide, WalkMark, WalkFinish, WalkGrade, dbVars, jobVars
<1>7. CASE SweepStep
  <2>1. ASSUME NEW k \in Node, SweepJob(k) PROVE Goal
    <3>1. <<k, 0>> \in sweep.rows /\ SetJob(k, "failed")
      BY <2>1 DEF SweepJob
    <3>2. k # n
      BY <3>1 DEF OnceInv, Swept, Waiting
    <3> QED
      BY <1>2, <3>1, <3>2
  <2>2. ASSUME NEW r \in Run, SweepRun(r) PROVE Goal
    <3>1. ErrorReport \in RunReport /\ FinalizeRun(r, ErrorReport)
      BY <2>2, LastReportTypes DEF SweepRun, LastReports
    <3> QED
      BY <3>1, FinalizeLeavesBlocked
  <2> QED
    BY <1>3, <1>7, <2>1, <2>2 DEF SweepStep, SweepSelect, dbVars, jobVars
<1>8. ASSUME NEW k \in Node,
         \/ CancelJob(k) \/ CancelMark(k)
         \/ RetireWorker(k) \/ RetireMark(k) \/ DeleteWorker(k) \/ ResetBreaker(k)
      PROVE Goal
  <2>1. CASE CancelJob(k)
    <3>1. SetJob(k, "skipped") /\ k # n
      BY <2>1 DEF CancelJob
    <3> QED
      BY <1>2, <3>1
  <2>2. ~RetireWorker(k)
    BY DEF RetireWorker
  <2> QED
    BY <1>3, <1>8, <2>1, <2>2 DEF CancelMark, RetireMark, DeleteWorker, ResetBreaker, jobVars
<1>9. CASE StartCycleRun
  BY <1>9 DEF StartCycleRun, IInv, QuietInv
<1>10. CASE ReconcileStep \/ Restart \/ UNCHANGED vars
  BY <1>3, <1>10
  DEF ReconcileStep, ReconcileSelect, ReconcileRow, Restart, vars, dbVars, jobVars
<1> QED
  BY <1>4, <1>5, <1>6, <1>7, <1>8, <1>9, <1>10 DEF Next

\* On a chain what a walk releases is behind it, and so blocked.
LEMMA LineReleases ==
  ASSUME TypeOK, NEW pos, Line(pos), LineInv(pos) PROVE ReleasesBlocked
<1> SUFFICES ASSUME NEW r \in Run, NEW n \in Node, WalkQueue(r, n) \/ WalkSkip(r, n)
             PROVE  jobState[n] = "blocked"
  BY DEF ReleasesBlocked
<1>1. walk[r].phase = "write" /\ n \in walk[r].queue \cup walk[r].skip
  BY DEF WalkQueue, WalkSkip
<1>2. r[1] \in Node /\ Walking(r)
  BY <1>1, RunNode DEF Walking
<1>3. pos[n] = pos[r[1]] + 1 /\ pos[r[1]] \in Nat
  BY <1>1, <1>2 DEF LineInv, LineWalks, Line
<1>4. pos[r[1]] < pos[n]
  BY <1>3
<1> QED
  BY <1>2, <1>4 DEF LineInv, LineBehind

\* The node before one that is not the first.
LEMMA LineBefore ==
  ASSUME NEW pos, Line(pos), NEW n \in Node, pos[n] > 0
  PROVE  \E e \in Incoming(n) : e.from \in Node /\ pos[n] = pos[e.from] + 1 /\ pos[e.from] \in Nat
<1>1. PICK e \in Incoming(n) : TRUE
  BY DEF Line
<1>2. e \in Edge /\ e.to = n /\ e.from \in Node
  BY GraphAssumption DEF Incoming
<1> QED
  BY <1>2 DEF Line

\* What is ahead of a job that has ended, or was handed out, has ended.
LEMMA LineAhead ==
  ASSUME NEW pos, LineInv(pos), NEW n \in Node, NEW k \in Node, pos[k] < pos[n], ~Waiting(n)
  PROVE  k \in settled
BY DEF LineInv, LineJobs, Waiting

\* The trigger queues the first job alone.
LEMMA LineStart ==
  ASSUME NEW pos, Line(pos), Refusable = {}, StartCycleRun PROVE LineJobs(pos)'
<1>1. jobState' = [n \in Node |-> IF Incoming(n) # {} THEN "blocked" ELSE "queued"]
  BY DEF StartCycleRun
<1>2. ASSUME NEW n \in Node, NEW k \in Node, jobState'[n] \notin {"none", "blocked"}, pos[k] < pos[n]
      PROVE  FALSE
  <2>1. pos[n] \in Nat /\ pos[k] \in Nat
    BY DEF Line
  <2>2. pos[n] > 0
    BY <1>2, <2>1
  <2> QED
    BY <1>1, <1>2, <2>2 DEF Line
<1> QED
  BY <1>1, <1>2 DEF LineJobs

\* A job is released when the one before it has ended, and with it all that are ahead.
LEMMA LineReleased ==
  ASSUME IInv, OnceInv, NEW pos, Line(pos), LineInv(pos), NEW r \in Run, NEW n \in Node,
         WalkQueue(r, n) \/ WalkSkip(r, n), NEW k \in Node, pos[k] < pos[n]
  PROVE  k \in settled
<1>1. walk[r].phase = "write" /\ n \in walk[r].queue \cup walk[r].skip
  BY DEF WalkQueue, WalkSkip
<1>2. r[1] \in Node /\ r[1] \in settled /\ ~Waiting(r[1])
  BY <1>1, WalkerEnded
<1>3. pos[n] = pos[r[1]] + 1 /\ pos[r[1]] \in Nat /\ pos[k] \in Nat
  BY <1>1, <1>2 DEF LineInv, LineWalks, Line
<1>4. CASE pos[k] = pos[r[1]]
  BY <1>2, <1>4 DEF Line
<1>5. CASE pos[k] < pos[r[1]]
  BY <1>2, <1>5, LineAhead
<1> QED
  BY <1>3, <1>4, <1>5

\* The jobs of a chain end in its order, after every step.
LEMMA LineJobsStep ==
  ASSUME IInv, OnceInv, NEW pos, Line(pos), LineInv(pos), Refusable = {}, Removable = {}, [Next]_vars
  PROVE  LineJobs(pos)'
<1>1. CASE StartCycleRun
  BY <1>1, LineStart
<1>2. CASE Moves /\ cycle # "none"
  <2>1. ASSUME NEW n \in Node PROVE jobState'[n] # "none"
    <3>1. jobState[n] # "none" /\ Move(n)
      BY <1>2 DEF LineInv, LineJobs, Moves
    <3> QED
      BY <3>1 DEF Move, TerminalStates
  <2>2. ASSUME NEW n \in Node, NEW k \in Node, jobState'[n] \notin {"none", "blocked"}, pos[k] < pos[n]
        PROVE  k \in settled
    <3>1. CASE jobState[n] = "blocked"
      BY <2>2, <3>1, BlockedLeaves, LineReleased
    <3>2. CASE jobState[n] # "blocked"
      BY <1>2, <2>2, <3>2 DEF LineInv, LineJobs
    <3> QED
      BY <3>1, <3>2
  <2>3. settled \subseteq settled'
    BY SettledStays
  <2> QED
    BY <2>1, <2>2, <2>3 DEF LineJobs
<1>3. CASE QuietFrame /\ cycle = "none"
  BY <1>3 DEF QuietFrame, LineInv, LineJobs
<1>4. StartCycleRun \/ Moves
  BY LineReleases, MovesStep DEF IInv
<1>5. cycle = "none" => StartCycleRun \/ QuietFrame
  BY QuietSteps DEF IInv
<1> QED
  BY <1>1, <1>2, <1>3, <1>4, <1>5

\* A walk that starts has nothing but blocked jobs behind it, and leaves them so.
LEMMA LineWalkStarts ==
  ASSUME IInv, OnceInv, NEW pos, Line(pos), LineInv(pos), NEW r \in Run, WalkStarts(r),
         NEW k \in Node, pos[r[1]] < pos[k]
  PROVE  jobState'[k] = "blocked"
<1>1. PICK rep \in RunReport : ClaimsTheRun(r, rep)
  BY DEF WalkStarts
<1>2. outcome[r] = "open" /\ SetJob(r[1], JobStateOf(DerivedOutcome(rep)))
  BY <1>1 DEF ClaimsTheRun
<1>3. Issued(r) /\ r[1] \in Node /\ r \in RunsOf(r[1])
  BY <1>2, HandedOut DEF RunsOf
<1>4. r[1] \notin settled
  BY <1>2, <1>3 DEF OnceInv, Closed
<1>5. attempts[r[1]] # 0
  <2>1. r[2] \in Nat /\ r[2] > 0
    BY RunNode
  <2> QED
    BY <1>3, <2>1 DEF Issued
<1>6. cycle # "none"
  BY <1>3, <1>5 DEF IInv, QuietInv
<1>7. jobState[k] = "blocked"
  BY <1>3, <1>4, <1>6 DEF LineInv, LineJobs
<1>8. k # r[1] /\ TypeOK
  BY <1>3 DEF Line, IInv
<1> QED
  BY <1>2, <1>3, <1>7, <1>8, SetJobFrame

\* Two walks that release the same job are one, and it is done with the job then.
LEMMA LineOneWalk ==
  ASSUME IInv, OnceInv, NEW pos, Line(pos), LineInv(pos), NEW r \in Run, Walking(r),
         NEW k \in Node, pos[r[1]] < pos[k], NEW q \in Run, WalkQueue(q, k) \/ WalkSkip(q, k)
  PROVE  q = r /\ ~Walking(r)'
<1>1. TypeOK
  BY DEF IInv
<1>2. WalkReleases(q, k) /\ walk[q].phase = "write" /\ k \in walk[q].queue \cup walk[q].skip
  BY <1>1, WalkReleaseMoves DEF WalkReleases
<1>3. walk[r].phase # "idle"
  BY DEF Walking
<1>4. Issued(r) /\ Issued(q) /\ r[1] \in Node /\ q[1] \in Node /\ ~Waiting(q[1])
  BY <1>2, <1>3, WalkerEnded
<1>5. pos[k] = pos[q[1]] + 1 /\ pos[q[1]] \in Nat /\ pos[r[1]] \in Nat
  BY <1>2, <1>4 DEF LineInv, LineWalks, Line
<1>6. ~(pos[r[1]] < pos[q[1]])
  BY <1>4 DEF LineInv, LineBehind, Waiting
<1>7. pos[r[1]] = pos[q[1]]
  BY <1>5, <1>6
<1>8. q = r
  BY <1>1, <1>4, <1>7, OnlyRun DEF Line
<1>9. \A n \in walk[r].queue \cup walk[r].skip : n = k
  <2>1. \A n \in walk[r].queue \cup walk[r].skip : n \in Node /\ pos[n] = pos[k]
    BY <1>1, <1>5, <1>7 DEF LineInv, LineWalks, TypeOK, WalkState
  <2> QED
    BY <2>1 DEF Line
<1>10. walk[r].queue \cap walk[r].skip = {}
  BY DEF LineInv, LineWalks
<1>11. walk'[r].queue \cup walk'[r].skip = {} /\ walk'[r].phase = "write"
  BY <1>2, <1>8, <1>9, <1>10 DEF WalkReleases
<1> QED
  BY <1>8, <1>11 DEF Walking

\* What is behind a walk is blocked, after every step.
LEMMA LineBehindStep ==
  ASSUME IInv, OnceInv, NEW pos, Line(pos), LineInv(pos), Removable = {}, [Next]_vars
  PROVE  LineBehind(pos)'
<1> SUFFICES ASSUME NEW r \in Run, Walking(r)', NEW k \in Node, pos[r[1]] < pos[k]
             PROVE  jobState'[k] = "blocked"
  BY DEF LineBehind
<1>1. CASE Walking(r)
  <2>1. jobState[k] = "blocked"
    BY <1>1 DEF LineInv, LineBehind
  <2> QED
    BY <1>1, <2>1, BlockedLeaves, LineOneWalk
<1>2. CASE ~Walking(r)
  <2>1. WalkMove(r)
    BY WalkMovesStep DEF IInv
  <2>2. WalkStarts(r)
    BY <1>2, <2>1
    DEF WalkMove, WalkStays, WalkEnds, WalkReads, WalkDecides, WalkReleases, Walking
  <2> QED
    BY <2>2, LineWalkStarts
<1> QED
  BY <1>1, <1>2

\* A walk that reads the jobs sees blocked ones behind it only.
LEMMA LineRead ==
  ASSUME IInv, OnceInv, NEW pos, Line(pos), LineInv(pos), NEW r \in Run, walk[r].phase # "idle",
         NEW k \in Node, jobState[k] = "blocked"
  PROVE  pos[r[1]] < pos[k]
<1>1. r[1] \in Node /\ ~Waiting(r[1]) /\ Waiting(k)
  BY WalkerEnded DEF Waiting
<1>2. pos[k] \in Nat /\ pos[r[1]] \in Nat /\ pos[k] # pos[r[1]]
  BY <1>1 DEF Line
<1>3. ~(pos[k] < pos[r[1]])
  BY <1>1, LineAhead DEF OnceInv
<1> QED
  BY <1>2, <1>3

\* And decides to release the next one.
LEMMA LineDecided ==
  ASSUME IInv, OnceInv, NEW pos, Line(pos), LineInv(pos), NEW r \in Run, walk[r].phase = "decide",
         NEW k \in Releasable(walk[r].seen)
  PROVE  pos[k] = pos[r[1]] + 1
<1>1. k \in Node /\ r[1] \in Node /\ Walking(r)
  BY RunNode DEF Releasable, Walking
<1>2. pos[r[1]] < pos[k] /\ pos[r[1]] \in Nat /\ pos[k] \in Nat
  BY <1>1 DEF Releasable, LineInv, LineWalks, Line
<1>3. PICK e \in Incoming(k) : e.from \in Node /\ pos[k] = pos[e.from] + 1 /\ pos[e.from] \in Nat
  BY <1>1, <1>2, LineBefore
<1>4. e.from \in settled
  BY <1>3 DEF Releasable, IInv, EndedInv
<1>5. jobState[e.from] # "blocked"
  BY <1>4 DEF OnceInv, Waiting
<1>6. ~(pos[r[1]] < pos[e.from])
  BY <1>1, <1>3, <1>5 DEF LineInv, LineBehind
<1> QED
  BY <1>2, <1>3, <1>6

\* A walk has one job to release, after every step.
LEMMA LineWalksStep ==
  ASSUME IInv, OnceInv, NEW pos, Line(pos), LineInv(pos), [Next]_vars
  PROVE  LineWalks(pos)'
<1> SUFFICES ASSUME NEW r \in Run
             PROVE  /\ walk'[r].phase = "decide" =>
                         \A k \in Node : walk'[r].seen[k] = "blocked" => pos[r[1]] < pos[k]
                    /\ \A k \in walk'[r].queue \cup walk'[r].skip : pos[k] = pos[r[1]] + 1
                    /\ walk'[r].queue \cap walk'[r].skip = {}
  BY DEF LineWalks
<1>1. WalkMove(r)
  BY WalkMovesStep DEF IInv
<1>2. /\ walk[r].phase = "decide" =>
           \A k \in Node : walk[r].seen[k] = "blocked" => pos[r[1]] < pos[k]
      /\ \A k \in walk[r].queue \cup walk[r].skip : pos[k] = pos[r[1]] + 1
      /\ walk[r].queue \cap walk[r].skip = {}
  BY DEF LineInv, LineWalks
<1>3. CASE WalkStays(r) \/ WalkEnds(r) \/ WalkStarts(r) \/ \E n \in Node : WalkReleases(r, n)
  BY <1>2, <1>3 DEF WalkStays, WalkEnds, WalkStarts, WalkReleases
<1>4. CASE WalkReads(r)
  BY <1>2, <1>4, LineRead DEF WalkReads
<1>5. CASE WalkDecides(r)
  BY <1>5, LineDecided DEF WalkDecides
<1> QED
  BY <1>1, <1>3, <1>4, <1>5 DEF WalkMove

\* The order of a chain is kept, and with it that each job has one run at most.
LEMMA LineInvariant ==
  ASSUME NEW pos, Line(pos), Refusable = {}, Removable = {} PROVE Spec => [](OnceInv /\ LineInv(pos))
<1>1. Init => OnceInv /\ LineInv(pos)
  BY OnceInit DEF Init, LineInv, LineJobs, LineBehind, LineWalks, Walking, IdleWalk
<1>2. IInv /\ OnceInv /\ LineInv(pos) /\ [Next]_vars => OnceInv' /\ LineInv(pos)'
  <2> SUFFICES ASSUME IInv, OnceInv, LineInv(pos), [Next]_vars PROVE OnceInv' /\ LineInv(pos)'
    OBVIOUS
  <2>1. ReleasesBlocked
    BY LineReleases DEF IInv
  <2>2. OnceInv'
    BY <2>1, OnceStep
  <2>3. LineJobs(pos)' /\ LineBehind(pos)' /\ LineWalks(pos)'
    BY LineJobsStep, LineBehindStep, LineWalksStep
  <2> QED
    BY <2>2, <2>3 DEF LineInv
<1> QED
  BY <1>1, <1>2, InvariantHolds, PTL DEF Spec

\* On a chain no job is released twice: when nothing is refused at the trigger and no worker is
\* removed, walks release blocked jobs only, whatever is cancelled, swept, reported late or
\* interrupted by a restart of the control plane (releaseDependents).
THEOREM ChainReleasesBlocked ==
  ASSUME NEW pos, Line(pos), Refusable = {}, Removable = {} PROVE Spec => ReleasesOnlyBlocked
<1>1. Spec => [](OnceInv /\ LineInv(pos))
  BY LineInvariant
<1>2. IInv /\ LineInv(pos) => ReleasesBlocked
  BY LineReleases DEF IInv
<1> QED
  BY <1>1, <1>2, InvariantHolds, PTL DEF Spec, ReleasesOnlyBlocked

\* So on a chain no job is claimed twice.
THEOREM ClaimedOnceOnAChain ==
  ASSUME NEW pos, Line(pos), Refusable = {}, Removable = {} PROVE Spec => []ClaimedOnce
BY ChainReleasesBlocked, ClaimedOnceWhenBlocked, PTL

\* Its edges mean what they say.
THEOREM EdgesHoldOnAChain ==
  ASSUME NEW pos, Line(pos), Refusable = {}, Removable = {} PROVE Spec => []EdgesHold
BY ChainReleasesBlocked, EdgesHoldWhenBlocked, PTL

\* And its grade never calls a failure a decline.
THEOREM DeclineIsHonestOnAChain ==
  ASSUME NEW pos, Line(pos), Refusable = {}, Removable = {} PROVE Spec => []DeclineHidesNoFailure
BY ChainReleasesBlocked, DeclineIsHonestWhenBlocked, PTL

\* However many runners poll a chain, they share one job at a time: whatever it is, the cap is hard.
THEOREM CapIsHardOnAChain ==
  ASSUME NEW pos, Line(pos), Refusable = {}, Removable = {}, ~LateRequests, ~JobsOutliveSweep,
         MaxConcurrentJobs > 0
  PROVE  Spec => []CapIsHard
<1> DEFINE Ended == \A n \in settled : jobState[n] \in TerminalStates
<1>1. Ended /\ LineInv(pos) => CapIsHard
  <2> SUFFICES ASSUME Ended, LineInv(pos) PROVE CapIsHard
    OBVIOUS
  <2>1. ASSUME NEW n \in InFlight, NEW k \in InFlight PROVE ~(pos[k] < pos[n])
    <3>1. n \in Node /\ k \in Node /\ ~Waiting(n) /\ jobState[k] \notin TerminalStates
      BY DEF InFlight, InFlightStates, Waiting, TerminalStates
    <3> QED
      BY <3>1, LineAhead
  <2>2. ASSUME NEW n \in InFlight, NEW k \in InFlight PROVE n = k
    <3>1. n \in Node /\ k \in Node
      BY DEF InFlight
    <3>2. pos[n] \in Nat /\ pos[k] \in Nat
      BY <3>1 DEF Line
    <3>3. pos[n] = pos[k]
      BY <2>1, <3>2
    <3> QED
      BY <3>1, <3>3 DEF Line
  <2>3. Cardinality(InFlight) <= 1
    <3>1. CASE InFlight = {}
      BY <3>1, FS_EmptySet
    <3>2. ASSUME NEW n \in InFlight PROVE Cardinality(InFlight) <= 1
      <4>1. InFlight = {n}
        BY <2>2
      <4>2. Cardinality({n}) = 1
        BY FS_Singleton
      <4> QED
        BY <4>1, <4>2
    <3> QED
      BY <3>1, <3>2
  <2>4. Cardinality(InFlight) \in Nat /\ MaxConcurrentJobs \in Nat
    <3>1. IsFiniteSet(InFlight)
      BY GraphAssumption, FS_Subset DEF InFlight
    <3> QED
      BY <3>1, FS_CardinalityType, BoundAssumption
  <2> QED
    BY <2>3, <2>4 DEF CapIsHard
<1>2. Spec => ReleasesOnlyBlocked
  BY ChainReleasesBlocked
<1>3. Spec /\ ReleasesOnlyBlocked => []Ended
  BY EndedForGood
<1>4. Spec => [](OnceInv /\ LineInv(pos))
  BY LineInvariant
<1> HIDE DEF Ended
<1> QED
  BY <1>1, <1>2, <1>3, <1>4, PTL
=============================================================================
