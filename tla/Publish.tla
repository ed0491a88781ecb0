------------------------------ MODULE Publish ------------------------------
(***************************************************************************)
(* From a run's report to its pull request: the tail of executeJob and     *)
(* publishIfReady (runner/pipeline.ts), publishPatch and githubCli         *)
(* (runner/publish.ts), POST /runs/:id/published (server/routes/runs.ts).  *)
(* Several runs publish at once; the remote is GitHub, where people open,  *)
(* merge and close pull requests too.                                      *)
(***************************************************************************)
EXTENDS Naturals, Sequences, FiniteSets, SequencesExt

CONSTANTS
  Run,         \* runs of modifiers, each with a patch
  Outsider,    \* bound: pull requests people open
  Slots,       \* maxConcurrentJobs of the project's runners together
  MaxOpen,     \* policies.maxOpenPullRequests at the pinned base
  ListLimit,   \* gh pr list --limit
  MaxLoss      \* bound: runners killed and requests lost

ASSUME PublishAssumption ==
  /\ Slots \in Nat \ {0} /\ MaxOpen \in Nat /\ ListLimit \in Nat /\ MaxLoss \in Nat
  /\ Run \cap Outsider = {}

VARIABLES
  tests,     \* per run: what its gate said of the suite
  recorded,  \* per run: the outcome the control plane recorded
  row,       \* per run: its row in changes
  stage,     \* per run: where its runner stands
  branches,  \* the branches on the remote
  prs,       \* the open pull requests, newest last
  ever,      \* the runs a pull request was ever opened for
  losses

publishVars == <<tests, recorded, row, stage, branches, prs, ever, losses>>

Stages == {"working", "reporting", "apply", "count", "push", "create", "announce", "done"}

PublishTypeOK ==
  /\ tests \in [Run -> {"passed", "failed", "not run", "absent"}]
  /\ recorded \in [Run -> {"none", "error", "declined", "dispatched", "changes-requested"}]
  /\ row \in [Run -> {"none", "unpublished", "published"}]
  /\ stage \in [Run -> Stages]
  /\ branches \subseteq Run /\ ever \subseteq branches
  /\ prs \in Seq(Run \cup Outsider)
  /\ losses \in 0 .. MaxLoss

PublishInit ==
  /\ tests \in [Run -> {"passed", "failed"}]
  /\ recorded = [r \in Run |-> "none"]
  /\ row = [r \in Run |-> "none"]
  /\ stage = [r \in Run |-> "working"]
  /\ branches = {} /\ prs = <<>> /\ ever = {} /\ losses = 0

-----------------------------------------------------------------------------
Enter(r, from, to) == stage[r] = from /\ stage' = [stage EXCEPT ![r] = to]
Busy == {r \in Run : stage[r] \notin {"working", "done"}}

\* The slot is held from the claim on; before the report nothing of it matters here.
Reports(r) ==
  /\ Cardinality(Busy) < Slots
  /\ Enter(r, "working", "reporting")
  /\ UNCHANGED <<tests, recorded, row, branches, prs, ever, losses>>

\* finalizeRun: a patch whose gate refused it is not dispatched, whether it was the suite or
\* another lens, the review say; nor is one whose author declined the work.
Recorded(r) ==
  {"changes-requested"} \cup (IF tests[r] = "passed" THEN {"dispatched", "declined"} ELSE {})

\* Mutant: whatever did not fail is published.
PublishableUnlessError(r, outcome) == outcome # "error"

\* refuseBefore, by the outcome that was recorded and by the suite's own result.
Publishable(r, outcome) == outcome = "dispatched" /\ tests[r] = "passed"

\* POST /report, and its answer.  When the answer is lost the runner reports an error, which
\* finds the run finished, and never publishes.
ReportHandled(r) ==
  /\ \E outcome \in Recorded(r) : recorded' = [recorded EXCEPT ![r] = outcome]
  /\ row' = [row EXCEPT ![r] = "unpublished"]
  /\ \/ Enter(r, "reporting", IF Publishable(r, recorded'[r]) THEN "apply" ELSE "done")
        /\ UNCHANGED losses
     \/ Enter(r, "reporting", "done") /\ losses < MaxLoss /\ losses' = losses + 1
  /\ UNCHANGED <<tests, branches, prs, ever>>

ReportLost(r) ==
  /\ losses < MaxLoss /\ losses' = losses + 1
  /\ Enter(r, "reporting", "done")
  /\ recorded' = [recorded EXCEPT ![r] = "error"]
  /\ UNCHANGED <<tests, row, branches, prs, ever>>

\* A worktree at the base, `git am`: the patch may not apply, or change nothing.
ApplyPatch(r) ==
  /\ Enter(r, "apply", "count") \/ Enter(r, "apply", "done")
  /\ UNCHANGED <<tests, recorded, row, branches, prs, ever, losses>>

\* gh lists the newest pull requests, and the branch prefix is looked for in that list.
Listed == {prs[k] : k \in {j \in DOMAIN prs : Len(prs) - j < ListLimit}}
CountOpenPullRequests == Cardinality(Listed \cap Run)

\* Mutant: one more than the cap.
CountOpenPast(r) ==
  /\ IF CountOpenPullRequests > MaxOpen
     THEN Enter(r, "count", "done")
     ELSE Enter(r, "count", "push")
  /\ UNCHANGED <<tests, recorded, row, branches, prs, ever, losses>>

CountOpen(r) ==
  /\ IF CountOpenPullRequests >= MaxOpen
     THEN Enter(r, "count", "done")
     ELSE Enter(r, "count", "push")
  /\ UNCHANGED <<tests, recorded, row, branches, prs, ever, losses>>

Push(r) ==
  /\ \/ Enter(r, "push", "create") /\ branches' = branches \cup {r}
     \/ Enter(r, "push", "done") /\ UNCHANGED branches
  /\ UNCHANGED <<tests, recorded, row, prs, ever, losses>>

\* gh pr create: opened and told, opened and not told, or refused.
CreatePullRequest(r) ==
  /\ \/ /\ prs' = Append(prs, r) /\ ever' = ever \cup {r}
        /\ \/ Enter(r, "create", "announce") /\ UNCHANGED losses
           \/ Enter(r, "create", "done") /\ losses < MaxLoss /\ losses' = losses + 1
     \/ Enter(r, "create", "done") /\ UNCHANGED <<prs, ever, losses>>
  /\ UNCHANGED <<tests, recorded, row, branches>>

\* POST /published: only for a dispatched run, and only into an empty branch column.
Announce(r) ==
  /\ Enter(r, "announce", "done")
  /\ \/ /\ row' = [row EXCEPT ![r] =
                     IF recorded[r] = "dispatched" /\ @ = "unpublished" THEN "published" ELSE @]
        /\ UNCHANGED losses
     \/ losses < MaxLoss /\ losses' = losses + 1 /\ UNCHANGED row
  /\ UNCHANGED <<tests, recorded, branches, prs, ever>>

\* The runner dies.  A run it had not reported is reported an error by the sweep; publishing
\* is not taken up again.
RunnerDies(r) ==
  /\ losses < MaxLoss /\ losses' = losses + 1
  /\ r \in Busy
  /\ stage' = [stage EXCEPT ![r] = "done"]
  /\ recorded' = [recorded EXCEPT ![r] = IF @ = "none" THEN "error" ELSE @]
  /\ UNCHANGED <<tests, row, branches, prs, ever>>

\* People.
OpenOne(o) ==
  /\ ~Contains(prs, o)
  /\ prs' = Append(prs, o)
  /\ UNCHANGED <<tests, recorded, row, stage, branches, ever, losses>>

CloseOne(k) ==
  /\ prs' = RemoveAt(prs, k)
  /\ UNCHANGED <<tests, recorded, row, stage, branches, ever, losses>>

PublishNext ==
  \/ \E r \in Run :
       \/ Reports(r) \/ ReportHandled(r) \/ ReportLost(r) \/ ApplyPatch(r) \/ CountOpen(r)
       \/ Push(r) \/ CreatePullRequest(r) \/ Announce(r) \/ RunnerDies(r)
  \/ \E o \in Outsider : OpenOne(o)
  \/ \E k \in DOMAIN prs : CloseOne(k)

PublishSpec == PublishInit /\ [][PublishNext]_publishVars

-----------------------------------------------------------------------------
Open == {r \in Run : Contains(prs, r)}
Counted == {r \in Run : stage[r] \in {"push", "create"}}

\* Report first, then publish: whatever is on the remote, the control plane has a finished,
\* dispatched run and a changes row for it, and a row only names a pull request that exists.
NothingUnheardOf ==
  /\ \A r \in branches : recorded[r] = "dispatched" /\ row[r] # "none" /\ tests[r] = "passed"
  /\ \A r \in Run : row[r] = "published" => r \in ever

\* The cap is counted live, so it is passed only by the publishers between their count and
\* their pull request: never by as many as there are slots.
CapHoldsUpToTheSlots ==
  Cardinality(Open \cup Counted) < MaxOpen + Slots

\* policies.maxOpenPullRequests bounds what reaches the remote.  It fails: counting and
\* creating are two requests.
CapIsRespected == Cardinality(Open) =< MaxOpen
=============================================================================
