------------------------------- MODULE Rounds -------------------------------
(***************************************************************************)
(* One run on the runner, after the claim and up to its report: executeJob *)
(* of runner/pipeline.ts with the verify gate (verify.ts, review.ts,       *)
(* bootstrap.ts), the retry decision (retry.ts), patch extraction          *)
(* (patch.ts) and the sweep between rounds (workspace.ts).                 *)
(*                                                                         *)
(* Time is counted in units of the job's timeout; whatever takes less than *)
(* one (git, reading a file, the 10 s of grace before SIGKILL) takes none. *)
(* What the suite, a build or a reviewer answers is chosen by the step.    *)
(***************************************************************************)
EXTENDS Integers, Sequences, FiniteSets

CONSTANTS
  Order,    \* the jobs: what a worker asks of its run
  Timeout,  \* job.timeoutMs
  Longest,  \* bound: how long an expectation's command runs
  MaxRounds, \* MAX_MODIFIER_ROUNDS
  Leavings  \* what one command of the gate may leave behind: sets of the kinds below

\* What a command leaves in the workspace it is given read-write: new files, edited ones, a
\* repository it cloned, files git ignores - and commits.
Loose == {"untracked", "tracked", "nested", "ignored"}
Kinds == Loose \cup {"committed"}

ASSUME RoundsAssumption ==
  /\ Timeout \in Nat \ {0} /\ Longest \in 1 .. Timeout /\ MaxRounds \in Nat \ {0}
  /\ Leavings \subseteq SUBSET Kinds
  /\ Order \subseteq [permissions : {"reviewer", "modifier"}, sandbox : {"container", "worktree"},
                      downgradable : BOOLEAN, bootstrap : BOOLEAN, testCommand : BOOLEAN,
                      defaults : BOOLEAN, expectation : BOOLEAN, review : BOOLEAN]

VARIABLES
  order,    \* the job
  phase,    \* where executeJob stands
  round,    \* `rounds`: the round running, or the one that is reported
  left,     \* deadline - now; negative once it is past
  tree,     \* the workspace
  change,   \* the last extraction
  onDisk,   \* scratch/patches/<run>/changes.patch
  results,  \* the gate's results so far, in order
  spent,    \* tests, review and image of the running gate
  verdict,  \* what the last finished gate returned
  pending,  \* the retry's budget and reserve
  report    \* what cp.report was given

roundsVars == <<order, phase, round, left, tree, change, onDisk, results, spent, verdict,
                pending, report>>

Unmeasured == 0                   \* no durationMs; whatever is measured takes a unit at least
Took(ran, took) == [ran |-> ran, took |-> took]
NotRun == Took(FALSE, Unmeasured)
NothingSpent == [tests |-> NotRun, review |-> NotRun, image |-> NotRun]
NoVerdict == [gates |-> <<>>, spent |-> NothingSpent]
Patch(work, suite) == [work |-> work, suite |-> suite]
NoPatch == Patch(0, {})           \* no difference from the base
NoReport == [outcome |-> "none", change |-> NoPatch, gates |-> <<>>, rounds |-> 1]

LensNames == {"commit-message", "self-gating", "project-image", "tests", "schema", "grounded",
              "expectation", "review"}
Measures == [ran : BOOLEAN, took : 0 .. Timeout]
Trees == [work : 0 .. MaxRounds, suite : SUBSET Kinds, loose : SUBSET Loose,
          broken : {"no", "rewritten", "oversize"}]
Results == [lens : LensNames, answer : {"passed", "refused", "starved"}, judged : Trees]
Patches == [work : 0 .. MaxRounds, suite : SUBSET Kinds]
Spendings == [tests : Measures, review : Measures, image : Measures]

RoundsTypeOK ==
  /\ order \in Order
  /\ phase \in {"prepare", "agent", "extract", "gate", "decide", "sweep", "report", "done"}
  /\ round \in 1 .. MaxRounds
  /\ left \in Int /\ left =< Timeout
  /\ tree \in Trees
  /\ change \in Patches /\ onDisk \in Patches
  /\ results \in Seq(Results)
  /\ spent \in Spendings
  /\ verdict \in [gates : Seq(Results), spent : Spendings]
  /\ pending \in [budget : Nat, reserve : Nat]
  /\ report \in [outcome : {"none", "refused", "error", "declined", "dispatched", "approved"},
                change : Patches, gates : Seq(Results), rounds : 1 .. MaxRounds]

RoundsInit ==
  /\ order \in Order
  /\ phase = "prepare" /\ round = 1 /\ left = Timeout
  /\ tree = [work |-> 0, suite |-> {}, loose |-> {}, broken |-> "no"]
  /\ change = NoPatch /\ onDisk = NoPatch
  /\ results = <<>> /\ spent = NothingSpent /\ verdict = NoVerdict
  /\ pending = [budget |-> Timeout, reserve |-> 0]
  /\ report = NoReport

-----------------------------------------------------------------------------
Modifier == order.permissions = "modifier"

\* resolveLenses, the tool lenses first; a project's own expectation is one with a command.
Lenses ==
  (IF Modifier
   THEN <<"commit-message", "self-gating",
          IF order.bootstrap THEN "project-image" ELSE "tests">>
   ELSE IF order.defaults THEN <<"schema", "grounded">> ELSE <<>>)
  \o (IF order.expectation THEN <<"expectation">> ELSE <<>>)
  \o (IF order.review THEN <<"review">> ELSE <<>>)

Reported(outcome, theChange, gates, rounds) ==
  /\ phase' = "done"
  /\ report' = [outcome |-> outcome, change |-> theChange, gates |-> gates, rounds |-> rounds]

\* fail(): an error report carries no patch and no gate.
Fail == Reported("error", NoPatch, <<>>, round)

-----------------------------------------------------------------------------
\* Before the agent: the checkout, then what the config of the pinned commit refuses.
DowngradeRefused == Modifier /\ order.sandbox = "worktree" /\ ~order.downgradable
NoPinnedSuite == Modifier /\ ~order.testCommand /\ ~order.bootstrap
Refused == DowngradeRefused \/ NoPinnedSuite
Refuse == Reported("refused", NoPatch, <<>>, round)

\* The declared environment cannot be read, or a secret it names not be had.
EnvironmentRefused == ~Refused /\ Refuse

\* The upstream findings, the history, the skill and the sandbox: without a history the run
\* goes on, without any of the others it fails.
Furnish ==
  /\ ~Refused
  /\ Fail \/ (phase' = "agent" /\ UNCHANGED report)

Prepare ==
  /\ phase = "prepare"
  /\ \E took \in 0 .. 1 : left' = left - took
  /\ (Refused /\ Refuse) \/ EnvironmentRefused \/ Furnish
  /\ UNCHANGED <<order, round, tree, change, onDisk, results, spent, verdict, pending>>

\* What a round of the agent leaves: nothing new, its work, the base again, or work git cannot
\* hand over; and what it found beside its own, or none of that.
Worked ==
  {tree, [tree EXCEPT !.work = 0], [tree EXCEPT !.work = 0, !.suite = {}]}
    \cup {[tree EXCEPT !.work = round, !.broken = b] : b \in {"no", "rewritten", "oversize"}}

\* The first round may use the whole timeout, a retry what the reserve left it.
AgentBudget == pending.budget

AgentFinishes ==
  /\ phase = "agent"
  /\ \E took \in 0 .. AgentBudget : left' = left - took
  /\ tree' \in Worked
  /\ \/ phase' = "extract" /\ UNCHANGED report
     \/ Fail                           \* its output could not be read
  /\ UNCHANGED <<order, round, change, onDisk, results, spent, verdict, pending>>

\* A crash, or the kill at the end of its budget.  A retry's is survived: the round before
\* it is reported.
AgentFails ==
  /\ phase = "agent"
  /\ \E took \in 0 .. AgentBudget : left' = left - took
  /\ tree' \in Worked
  /\ IF round = 1
     THEN Fail /\ UNCHANGED round
     ELSE round' = round - 1 /\ phase' = "report" /\ UNCHANGED report
  /\ UNCHANGED <<order, change, onDisk, results, spent, verdict, pending>>

-----------------------------------------------------------------------------
\* extractPatch commits whatever is left in the worktree, whoever left it: `git add -A` takes
\* a nested repository as a link, and what is ignored only if the work no longer ignores it.
Added(t) == {t.loose, t.loose \ {"ignored"}}
Committed(t, added) == [t EXCEPT !.suite = @ \cup added, !.loose = @ \ added]
Differs(t) == t.work # 0 \/ t.suite # {}

\* Mutant: the second gate goes on from the first one's results.
BeginGateAppending == phase' = "gate" /\ spent' = NothingSpent /\ UNCHANGED results

BeginGate == phase' = "gate" /\ results' = <<>> /\ spent' = NothingSpent

Extract ==
  /\ phase = "extract" /\ Modifier
  /\ \E added \in Added(tree) : tree' = Committed(tree, added)
  /\ LET made == Patch(tree'.work, tree'.suite)
     IN \/ /\ ~Differs(tree')
           /\ change' = NoPatch
           /\ BeginGate /\ UNCHANGED <<onDisk, report>>
        \/ /\ Differs(tree') /\ tree'.broken = "no"
           /\ change' = made /\ onDisk' = made
           /\ BeginGate /\ UNCHANGED report
        \/ /\ Differs(tree') /\ tree'.broken # "no"
           /\ change' = NoPatch
           /\ onDisk' = IF tree'.broken = "oversize" THEN NoPatch ELSE onDisk
           /\ Fail /\ UNCHANGED <<results, spent>>
  /\ UNCHANGED <<order, round, left, verdict, pending>>

\* git failed, halfway through the file or before it.
ExtractThrows ==
  /\ phase = "extract" /\ Modifier
  /\ onDisk' \in {onDisk, NoPatch}
  /\ Fail
  /\ UNCHANGED <<order, round, left, tree, change, results, spent, verdict, pending>>

NothingToExtract ==
  /\ phase = "extract" /\ ~Modifier
  /\ BeginGate
  /\ UNCHANGED <<order, round, left, tree, change, onDisk, verdict, pending, report>>

-----------------------------------------------------------------------------
\* runVerifyGate: one lens after another, up to the first that refuses.
NextLens == Lenses[Len(results) + 1]
AtLens(lens) == phase = "gate" /\ Len(results) < Len(Lenses) /\ NextLens = lens

Answers(lens, answer, measures) ==
  /\ results' = Append(results, [lens |-> lens, answer |-> answer, judged |-> tree])
  /\ spent' = measures
  /\ IF answer = "passed" /\ Len(results') < Len(Lenses)
     THEN UNCHANGED <<phase, verdict>>
     ELSE /\ phase' = "decide"
          /\ verdict' = [gates |-> results', spent |-> measures]
  /\ UNCHANGED <<order, round, change, onDisk, pending, report>>

\* A command run in the workspace writes into it, and may commit there.
Littered ==
  {[tree EXCEPT !.loose = @ \cup (mess \cap Loose), !.suite = @ \cup (mess \ Loose)] :
     mess \in Leavings}

NoLens ==
  /\ phase = "gate" /\ Lenses = <<>>
  /\ phase' = "decide" /\ verdict' = [gates |-> <<>>, spent |-> spent]
  /\ UNCHANGED <<order, round, left, tree, change, onDisk, results, spent, pending, report>>

PatchLens ==
  /\ \/ AtLens("commit-message")
        /\ \E answer \in {"passed"} \cup (IF change = NoPatch THEN {} ELSE {"refused"}) :
             Answers("commit-message", answer, spent)
     \/ AtLens("self-gating") /\ Answers("self-gating", "passed", spent)
  /\ UNCHANGED <<left, tree>>

DocumentLens ==
  /\ \E lens \in {"schema", "grounded"}, answer \in {"passed", "refused"} :
       AtLens(lens) /\ Answers(lens, answer, spent)
  /\ UNCHANGED <<left, tree>>

\* An expectation's command has no deadline of its own: the sandbox's timeout, whatever is left.
ExpectationLens ==
  /\ AtLens("expectation")
  /\ \E took \in 1 .. Longest, answer \in {"passed", "refused"} :
       left' = left - took /\ Answers("expectation", answer, spent)
  /\ tree' \in Littered

\* testsCheck, and the suite inside the image a bootstrap job built.
SuiteAnswer(lens) ==
  \/ /\ left =< 0
     /\ Answers(lens, "starved", [spent EXCEPT !.tests = NotRun])
     /\ UNCHANGED <<left, tree>>
  \/ /\ left > 0
     /\ \E took \in 1 .. left :
          /\ left' = left - took
          /\ \/ \E answer \in {"passed", "refused"} :
                  Answers(lens, answer, [spent EXCEPT !.tests = Took(TRUE, took)])
             \/ /\ took = left          \* killed
                /\ Answers(lens, "refused", [spent EXCEPT !.tests = Took(TRUE, Unmeasured)])
     /\ tree' \in Littered

SuiteLens == AtLens("tests") /\ SuiteAnswer("tests")

\* runProjectImageLens up to the image; then its suite.
ImageRefused ==
  /\ AtLens("project-image") /\ ~spent.image.ran
  /\ \E answer \in {"passed", "refused", "starved"} :
       /\ answer = "passed" <=> change = NoPatch      \* nothing to build
       /\ answer = "starved" => left =< 0
       /\ Answers("project-image", answer, [spent EXCEPT !.image = NotRun])
  /\ UNCHANGED <<left, tree>>

BuildImage ==
  /\ AtLens("project-image") /\ ~spent.image.ran
  /\ change # NoPatch /\ order.sandbox = "container" /\ left > 0
  /\ \E took \in 1 .. left :
       /\ left' = left - took
       /\ \/ /\ spent' = [spent EXCEPT !.image = Took(TRUE, took)]
             /\ UNCHANGED <<order, phase, round, change, onDisk, results, verdict, pending,
                            report>>
          \/ Answers("project-image", "refused", [spent EXCEPT !.image = Took(TRUE, took)])
          \/ /\ took = left
             /\ Answers("project-image", "refused",
                        [spent EXCEPT !.image = Took(TRUE, Unmeasured)])
  /\ UNCHANGED tree

ImageSuite ==
  /\ AtLens("project-image") /\ spent.image.ran
  /\ SuiteAnswer("project-image")

\* reviewVerdict: a document that cannot be read is a refusal and no review.
ReviewVerdicts ==
  {[ran |-> FALSE, answer |-> "refused"]} \cup {[ran |-> TRUE, answer |-> a] : a \in {"passed", "refused"}}

\* runReviewLens: the reviewer has what is left, and works in the same workspace.
Reviewed ==
  \/ /\ left =< 0
     /\ Answers("review", "starved", [spent EXCEPT !.review = NotRun])
     /\ UNCHANGED <<left, tree>>
  \/ /\ left > 0
     /\ \E took \in 1 .. left, v \in ReviewVerdicts :
          /\ left' = left - took
          /\ Answers("review", v.answer, [spent EXCEPT !.review = Took(v.ran, took)])
     /\ tree' \in Littered

\* reviewCheck.
ReviewLens ==
  /\ AtLens("review")
  /\ \/ /\ change = NoPatch
        /\ Answers("review", "passed", [spent EXCEPT !.review = NotRun])
        /\ UNCHANGED <<left, tree>>
     \/ change # NoPatch /\ Reviewed

\* A lens throws: the sandbox or the builder is gone.
GateThrows ==
  /\ phase = "gate"
  /\ Fail
  /\ UNCHANGED <<order, round, left, tree, change, onDisk, results, spent, verdict, pending>>

-----------------------------------------------------------------------------
\* retryDecision.  What was not measured counts for nothing in the sums and for everything in
\* the refusals.
Measured(m) == m.took # Unmeasured
Share(v) == v.tests.took + v.image.took
\* Mutant: the reserve forgets the reviewer.
ReserveWithoutReview(v) == v.tests.took + v.image.took

Reserve(v) == v.tests.took + v.review.took + v.image.took

Permanent(lens, v) ==
  \/ lens \notin {"tests", "review", "project-image"}
  \/ lens = "tests" /\ ~(v.tests.ran /\ Measured(v.tests))
  \/ lens = "project-image" /\ (~v.image.ran \/ ~Measured(v.image) \/
                                 (v.tests.ran /\ ~Measured(v.tests)))
  \/ lens = "review" /\ ~v.review.ran

Refusals(gates) == {gates[k].lens : k \in {j \in DOMAIN gates : gates[j].answer # "passed"}}

Retries ==
  LET v == verdict.spent IN
  /\ Modifier
  /\ Refusals(verdict.gates) # {}
  /\ \A lens \in Refusals(verdict.gates) : ~Permanent(lens, v)
  /\ round < MaxRounds
  /\ Measured(v.tests) \/ Measured(v.image)
  /\ left >= Share(v) + Reserve(v)

Decide ==
  /\ phase = "decide"
  /\ IF Retries
     THEN /\ phase' = "sweep"
          /\ pending' = [budget |-> left - Reserve(verdict.spent),
                         reserve |-> Reserve(verdict.spent)]
     ELSE phase' = "report" /\ UNCHANGED pending
  /\ UNCHANGED <<order, round, left, tree, change, onDisk, results, spent, verdict, report>>

\* Mutant: an edited file does not end the loop.
SweepLeavesEdits ==
  /\ phase = "sweep"
  /\ tree' = [tree EXCEPT !.loose = @ \ {"untracked"}]
  /\ phase' = "agent" /\ round' = round + 1
  /\ UNCHANGED <<order, left, change, onDisk, results, spent, verdict, pending, report>>

\* sweepGateArtifacts: untracked files go, and edited ones end the loop.  `git clean -fd` keeps
\* a nested repository and what is ignored, and a commit is no difference from HEAD.
Sweep ==
  /\ phase = "sweep"
  /\ tree' = [tree EXCEPT !.loose = @ \ {"untracked"}]
  /\ IF "tracked" \in tree.loose
     THEN phase' = "report" /\ UNCHANGED round
     ELSE phase' = "agent" /\ round' = round + 1
  /\ UNCHANGED <<order, left, change, onDisk, results, spent, verdict, pending, report>>

SweepThrows ==
  /\ phase = "sweep"
  /\ Fail
  /\ UNCHANGED <<order, round, left, tree, change, onDisk, results, spent, verdict, pending>>

\* The agent's document may decline the work, which outranks a patch.
Outcomes == {"declined", IF change = NoPatch THEN "approved" ELSE "dispatched"}

SendsReport ==
  /\ phase = "report"
  /\ \E outcome \in Outcomes : Reported(outcome, change, verdict.gates, round)
  /\ UNCHANGED <<order, round, left, tree, change, onDisk, results, spent, verdict, pending>>

RoundsNext ==
  \/ Prepare \/ AgentFinishes \/ AgentFails
  \/ Extract \/ ExtractThrows \/ NothingToExtract
  \/ NoLens \/ PatchLens \/ DocumentLens \/ ExpectationLens \/ SuiteLens
  \/ ImageRefused \/ BuildImage \/ ImageSuite \/ ReviewLens \/ GateThrows
  \/ Decide \/ Sweep \/ SweepThrows \/ SendsReport

RoundsSpec == RoundsInit /\ [][RoundsNext]_roundsVars

-----------------------------------------------------------------------------
\* A report that carries a patch carries the one on disk, and the gates beside it judged that
\* patch: every lens this work and none of another round, the suite with what earlier gates
\* committed and nothing loose beside it but what git ignores; and when none refused, every
\* lens the run was owed.  (pipeline.ts, the rounds of executeJob)
ReportedWorkWasJudged ==
  report.change # NoPatch =>
    /\ onDisk = report.change
    /\ \A k \in DOMAIN report.gates :
         /\ report.gates[k].judged.work = report.change.work
         /\ report.gates[k].lens = "tests" =>
              /\ report.gates[k].judged.suite = report.change.suite
              /\ report.gates[k].judged.loose \subseteq {"ignored"}
    /\ (Refusals(report.gates) = {} =>
          [k \in DOMAIN report.gates |-> report.gates[k].lens] = Lenses)

\* What the sweep can see never reaches a patch: no file the gate's own commands created, and
\* no edit of theirs, is in one, whatever the rounds before did.  (workspace.ts
\* sweepGateArtifacts, patch.ts)
HiddenOutput == {"nested", "ignored", "committed"}
OnlyHiddenOutputInAPatch == onDisk.suite \subseteq HiddenOutput

\* "extraction committed everything before the gate ran", so that whatever is there afterwards
\* "is the gate's" and is swept (workspace.ts:132-135).  It fails in a second round: the clone,
\* the un-ignored file and the commit of the first gate are none of them swept.
NoSuiteOutputInAPatch == onDisk.suite = {}

\* A retry is only taken with room for its gate: if the round before measured every part of
\* the gate and no part is slower the second time, no lens of the second gate is refused for
\* want of time.
NoSlower(before, after) ==
  /\ Measured(before)
  /\ Measured(after) => after.took =< before.took

GateAffordedAgain ==
  (phase = "gate" /\ phase' = "decide" /\ round > 1
     /\ NoSlower(verdict.spent.tests, verdict'.spent.tests)
     /\ (order.bootstrap => NoSlower(verdict.spent.image, verdict'.spent.image))
     /\ (order.review => Measured(verdict.spent.review)))
  => \A k \in DOMAIN results' : results'[k].answer # "starved"

SecondGateIsNotStarved == [][~order.expectation => GateAffordedAgain]_roundsVars

\* The same for a worker that states an expectation of its own.  It fails: what an
\* expectation took is in no reserve.
SecondReviewIsAfforded == [][GateAffordedAgain]_roundsVars
=============================================================================
