# Verification of ogun

TLA+ modules, TLC configurations and TLAPS proofs about the control plane, the
runners, the gateway and the configuration of ogun. Paths are relative to the
repository root; `server/`, `runner/`, `core/`, `gateway/`, `cli/` abbreviate
`src/packages/<name>/src/`.

```
tlasany M.tla                          parse a module
tlc -workers 2 -config X.cfg M         check a configuration, M as in the table of runs
tlapm ForemanProof.tla                 check the proofs of a module
```

## The system

A *control plane* (`server`) keeps everything in Postgres. A trigger, a schedule
or a ticket starts a *cycle run*: one job per node of a frozen graph of workers.
*Runners* enrol with an invite and poll it for queued jobs, run an agent in a
sandbox, verify the result, report, and publish a modifier's patch as a draft pull
request. The *foreman*, inside the control plane, turns each report into an
outcome, releases the jobs behind it and grades the cycle run when nothing is
left; findings go to an inbox. A *sweep* ends what nobody reported. The *gateway*
gives the sandboxes their egress and injects credentials. What a project is made
of stands in its `config.yaml`, indexed into tables; what a machine knows stands
in its `config.json`.

Everything in a control plane shares one event loop and one database: a
transaction or a single statement is atomic, and any other handler, of this
process or another, may run at each `await` between two of them. Runners, people
with an editor and other processes on the machine come on top. That is where the
hard behaviour is.

| component | state | operations | what is hard | what makes it correct |
|---|---|---|---|---|
| cycle runs (`server/foreman/cycles.ts`) | `cycle_runs.state`, `jobs.state`, `coverage` | start, release dependents, skip, grade | walks decide from one read and write unconditionally; several walks of one graph at once | dependencies first; block edges and declines hold; one grade, earned; every cycle run ends |
| finalizing (`server/foreman/finalize.ts`) | `runs.outcome`, `changes`, `breakers`, findings | one transaction per report, then a walk | reports that arrive twice, late, or after the sweep; a crash before the walk | a run is finalized once; ledger, breaker and change agree with its outcome |
| sweep (`server/foreman/sweep.ts`) | none of its own | fail stale claims; reconcile the ledger | races a late report, a late `/started`, a cancel | every claim ends; the ledger catches up |
| routes (`server/routes/jobs.ts`, `runs.ts`) | `jobs.attempts`, run rows | claim, cancel, started, report, published | caps read in one statement and spent in another; a claim that loses its answer | caps; claimed once |
| admission (`server/foreman/admission.ts`) | breakers, what machines say of themselves | admit, caps, hold-backs, reset | counters against concurrent claims; a word that is out of date | the breaker counts runs; a worker is not refused for good over a fault that is mended |
| definition and index (`server/config-store.ts`, `reindex.ts`, `drift.ts`) | `config.yaml`; workers, cycles, sources, `schedules` | edit, sync, delete | edits that meet, syncs that overlap one another and a person's editor | no edit erases another; the rows are the file's |
| cycle definitions (`core/config/cycle.ts`) | none | validate, expand the short form | loops, dangling edges | an accepted graph can finish, a refused one cannot |
| scheduler (`server/foreman/scheduler.ts`) | `schedules.last_run_at` | occurrences, compare-and-set, missed policy | two ticks, several control planes, a start that throws | an occurrence starts at most one cycle run; nothing stays due |
| sources (`server/foreman/sources.ts`, `source-health.ts`) | `source_emissions`, `source_polls` | poll, emit, cap, health | a crash between claiming a ticket and starting its cycle; a source that goes silent | a ticket starts at most one cycle run; a backlog drains; trouble is told |
| Linear connection (`server/foreman/linear-grant.ts`, `routes/oauth.ts`, `core/integrations`) | application, grant, key | use, renew, connect, disconnect | a rotating token renewed by two polls, flows that replace what a poll holds | a grant is never stranded, and renewed in the end |
| inbox (`server/foreman/finalize.ts`, `suppression.ts`, `routes/findings.ts`) | findings, dismissals | sight, dismiss, lapse, adjudicate | two transactions decide from one inbox; duplicates of duplicates | a person's decision stands; verdicts close no loop |
| run events (`server/events-bus.ts`, `routes/runs.ts`, `runner/client.ts`) | `run_events`, buffers | flush, append, backfill, subscribe | retries, order, backfill against live | nothing lost but at the end; the page comes to show it all |
| runner: rounds (`runner/pipeline.ts`, `verify.ts`, `retry.ts`, `patch.ts`, `workspace.ts`) | workspace, patch, results of the gate | agent, extract, judge, retry, sweep, report | one deadline for all; a gate that writes into what it judges | what is reported was judged; a retry can afford its gate |
| runner: publishing (`runner/publish.ts`) | branches, pull requests | refuse, apply, count, push, open, announce | a cap counted live; each call may fail after it took effect | report first; the cap, up to the slots |
| runner: process and sandboxes (`runner/main.ts`, `sandbox/container.ts`) | jobs, containers, gateway sessions | tick, shut down, provision, dispose | ticks that overlap; disposal racing provisioning | nothing outlives its job; capacity |
| connections of a sandbox (`runner/sandbox/connections.ts`) | a cached credential | prime, refresh, keep | refreshes behind requests, a store in any of its shapes | a renewal reaches a sandbox that is up |
| gateway: authority (`gateway/ca.ts`) | `ca.key`, `ca.pem`, `ca.lock` | load, generate, wait, break a lock | a pair of files written one after the other by whoever starts first | what signs is what is trusted |
| gateway: proxy (`gateway/server.ts`) | sessions, sockets | open, connect, forward, revoke | a revocation while a request waits for its upstream | a revoked session has no connection left |
| registry and authentication (`server/routes/runners.ts`, `auth.ts`) | invites, runners | mint, join, revoke, forget, identify | joins that present one invite at once; a revocation while a claim is answered | one machine per invite; a claim speaks for its own machine |
| machine configuration (`core/config/machine.ts`) | `config.json`, its lock file | locked read-modify-write | a lock with no pid in it yet, dead owners, recycled pids | no edit lost among the living; nobody waits for the dead |
| secrets (`core/config/secrets.ts`) | a part of `config.json` | store, clear | see the Linear connection | see there |
| runtimes and prompts, project configuration, read-only routes, CLI and daemon, web application | | | I/O, parsing, rendering | not modelled, see below |

## Modules

| module | what it is |
|---|---|
| `Foreman` | one cycle run from its trigger to its grade: the foreman, the routes, the sweep, worker removal, and the runners as far as the control plane can tell |
| `CycleContract` | abstract: dependencies first, one outcome per run, one earned grade; `Foreman` implements it |
| `AtMostOnce` | abstract: work is claimed before it is acted on, claimed once, acted on once; `Scheduler` and `Sources` implement it |
| `Scheduler` | cron occurrences, several control planes, the syncs that write `schedules` |
| `Sources` | polls of ticket sources, their ledger, and the health read from it |
| `LinearConnection` | the credential of a project, its renewal, and every flow that connects or disconnects |
| `Index` | `config.yaml`, its editors, and reindexing statement by statement |
| `CycleGraph` | the short form of a cycle, and the depth-first check of its graph |
| `ConfigLock` | the lock of `config.json` |
| `Inbox` | findings, dismissals and verdicts |
| `Fleet` | enrolment, tokens, claims, and admission by what machines say |
| `RunEvents` | the timeline of a run, from the runner's buffer to an open page |
| `Rounds` | the rounds of one job on its runner, with the whole gate |
| `Publish` | from report to pull request, several runs at once |
| `Host` | a runner process: ticks, shutdown, containers, gateway sessions |
| `ConnectionReader` | the cached credential of a running sandbox |
| `Authority` | the gateway's certificate authority on disk |
| `MCForeman`, `MCTriggers`, `MCProject`, `MCRunner`, `MCFleet` | instances for TLC |
| `ForemanProof` | theorems about `Foreman` |
| `ReleaseProof` | theorems about `Foreman` where walks release blocked jobs only, and where they do |
| `SchedulerProof`, `FleetProof` | theorems about `Scheduler`, `Fleet` |
| `SourcesProof` | theorems about `Sources` and `LinearConnection` |
| `ProjectProof` | theorems about `ConfigLock`, `CycleGraph`, `Index` and `Inbox` |
| `RunnerProof` | theorems about `Rounds`, `Publish` and `RunEvents` |
| `GatewayProof` | theorems about `Host`, `ConnectionReader` and `Authority` |

Where one module meets another it takes the other's interface as a choice: a
trigger in `Scheduler` or `Sources` ends with a cycle run started, `Foreman`
begins there; `Foreman` takes which machine authenticates what from its
constants, `Fleet` is where that comes from; `Rounds` ends with a report,
`Publish` begins with one, and `Foreman` has both as one step each; `CycleGraph`
says which graphs `Foreman` is given, though no theorem about `Foreman` needs it.

### How `Foreman` corresponds to the code

*State.* `cycle`, `jobState`, `attempts`, `outcome`, `changes`, `coverage`,
`breakers`, `failures`, `opened` are the columns their comments name. A run is
named by its job and the number of the claim that inserted it, since a claim
increments `jobs.attempts` and inserts at most one run. `orphaned` is
`jobs.worker_id is null`. The handlers in flight are variables too (`poll`,
`walk`, `sweep`, `reconcile`, `cancelling`, `removing`), because they hold what
they read until they write; a restart clears them and nothing else. `agent`,
`starting`, `reports` and `prs` are the runners, the requests on the wire and
GitHub. `settled` is an observation: the nodes whose job has been terminal.

*Actions*, in the order a job meets them:

| action | code |
|---|---|
| `StartCycleRun` | `startCycleRun`: one transaction; refused nodes are terminal at once; nothing walks |
| `PollCount`, `PollHold`, `PollClaim`, `PollInsert`, `PollRespond` | `POST /jobs/claim`, statement by statement |
| `SendStarted`, `HandleStarted` | `/started`: sets the job running whatever its state |
| `SendReport`, `SendLastReport`, `HandleReport` | `/report` by executeJob, or by `fail` and `refuse` |
| `FinalizeRun` (in `HandleReport` and `SweepRun`) | the transaction of `finalizeRun`: win the claim and write everything, or lose it and write nothing |
| `Publish`, `HandlePublished` | `publishIfReady`, `/published` |
| `RequestFails`, `RunnerDies` | a request that throws at its sender, having landed or not; a machine that goes away |
| `WalkRead` to `WalkSkip`, `WalkMark` | `releaseDependents`: one read, then one unconditional update per job |
| `WalkFinish`, `WalkGrade` | `finalizeCycleIfDone`: a second read, then a conditional update |
| `SweepSelect`, `SweepJob`, `SweepRun` | `sweepStaleClaims`, row by row, each to the end of its walk |
| `ReconcileSelect`, `ReconcileRow` | `reconcileCoverage` |
| `CancelJob`, `CancelMark` | `POST /jobs/:id/cancel` |
| `RetireWorker`, `RetireMark`, `DeleteWorker` | a worker that left `config.yaml` |
| `ResetBreaker`, `Restart` | the route; the process |

*Abstractions.* A report is its outcome, whether a gate failed, whether it has
findings and whether the tree changed. Why admission refuses a node is a choice
(`Refusable`), as are which runner can authenticate what and which equal jobs a
claim takes. Rounds of the agent are repeated `/started`s. The read of declined
runs is taken with the decision that uses it, and the two updates of `/started`
are one step. The nodes of a run have different workers. The sweep is assumed to
finish within its interval of a minute, which nothing in the code enforces, so
that it does not overlap itself; a tick of a runner that
outlives its poll interval is a second element of `Runner`. A worker is not
removed between `finalizeRun`'s read of the run and its transaction.

### How the other modules correspond

`PROJECT.json` names the lines of every definition. In short:

- **`Scheduler`**. A clock tick is `TickRead` (`findDue`'s select), `Anchor` per
  row without a `lastRunAt`, then per due row `Claim` or `LoseClaim` (the
  compare-and-set) and `Start` or `StartThrows`. A sync is `SyncRead` and one of
  `SyncDelete`, `SyncUpdate`, `SyncInsert`. `rows` are the rows of `schedules` by
  id, `tick` what a control plane holds between statements, `won` and `starts`
  observations. What a cron expression names is a constant (`Fires`); a server may
  crash in mid-tick.
- **`Sources`**. A pass is `PassRead` and `ClaimPoll` per due source; a poll is
  `Checked` (the refusals before it asks), `ReadPage` per page, `ReadKnown`,
  then per ticket `ClaimTicket`, `BeginCycle`, `LinkCycle`, or `EmitThrows` and
  `FailEmission`; `PollEnds` records it. `sourceHealth` and `troubledSources` are
  operators on the ledger. A ticket is its id and its place in the list, instants
  are ages in minutes that stop growing at `Old`, the filter is whether a ticket is
  admitted.
- **`LinearConnection`**. A poll is `ReadCredential`, then `UseValid`, or
  `JoinRenewal`/`LeadRenewal` around the shared promise; the leader's
  `refreshOnce` is `ReadApp`, `CallLinear`, `StoreRenewal` and their failures.
  The flows are the routes of `server/routes/oauth.ts` and the commands of
  `cli/commands/connect.ts`, request by request. Linear spends a refresh token
  with its renewal and answers a spent one with its successor until
  `ReplayLapses`. Tokens are numbers; prompts, pages and PKCE are left out.
- **`Index`**. An edit is `Submit…`, `MutateLoad` (behind the queue of
  `serialize`), `MutateWrite`; what follows, or a sync alone, is `reindexProject`
  statement by statement, `UpsertWorker` to `DeleteSources` and `Answer`.
  `HandWrite` is a person's editor, `Abandon` an exception or a restart. A hash
  stands for its text; names, fields and values are small sets.
- **`CycleGraph`**. The short form and its expansion as operators; the walk of
  `cycleGraphProblems` as a machine, one step per step of `walk`: `WalkFrom`,
  `LookAt`, `CloseLoop`, `PassBy`, `Descend`, `Return`. The order in which a map or
  a set is gone through is a choice.
- **`ConfigLock`**. `withLock` and `breakAbandonedLock`, call by call on the
  file: `ClaimLock` (O_EXCL) and `SignLock` (the pid written) are two steps, and so
  are `LookAtOwner`, `StatLock` and `BreakLock`. Processes may be killed anywhere,
  their pids recycled, and a wait may outlast its limit (`GiveUp`, the edit is
  refused). `ReadConfig` and `WriteConfig`, an atomic rename, are inside the lock.
- **`Inbox`**. Each writer plans and then writes: a report's sightings
  (`ReportFinding` to `Silence`, `Lapse`, `WriteFinding`, `Commit`), a document's
  verdicts (`Adjudicate`, `WriteVerdicts`), a person (`PatchRead`, `PatchWrite`).
  Statements of one transaction see what others committed before them, as at READ
  COMMITTED. Findings are fingerprints, severities numbers.
- **`Fleet`**. `Join` to `WriteRunner` is `POST /join`'s transaction, statement by
  statement, under the row lock of the invite it claimed; `Poll`, `PassScope`,
  `Identify`, `Heartbeat`, `TakeJobs` are a claim from `requireScope` to the
  `UPDATE`, with the two looks at the token it takes; `CallFromAJob` is any other
  call of `runner/client.ts`; `Admits` is `admit`'s part that depends on machines.
- **`RunEvents`**. `PushEvent`, `Flush…`, `EventsAccepted`/`EventsPostFails`,
  `FinalFlush`, `JobOver` on the runner; `OpenStream` (backfill), `Subscribe`,
  `SendQueue`, `StreamBreaks` on the stream; `FetchRun` and `FetchTimeline` for
  the page's polling. An event is its sequence number.
- **`Rounds`**. `executeJob` from `Prepare` to `Reported`, each lens of the
  gate an action (`PatchLens`, `ExpectationLens`, `SuiteLens`, `ImageSuite`,
  `DocumentLens`, `ReviewLens`), `Decide` is `retryDecision` with its budget and
  reserve in units of the job's timeout, `Sweep` what is undone between rounds.
  What a command or a reviewer answers is a choice, and so is how long it takes
  within its cap, and what it leaves in the workspace it is given read-write
  (`Leavings`): new files, edits, a repository it cloned, ignored files, commits. `Sweep`
  is `git clean -fd` and a diff against `HEAD`, and `Added` what `git add -A` takes of the rest.
- **`Publish`**. `ReportHandled` (with the outcome that goes on record, `Recorded`)/`ReportLost`, `ApplyPatch`, `CountOpen`,
  `Push`, `CreatePullRequest`, `Announce`, for several runs against one remote
  where people open, merge and close too.
- **`Host`**. Ticks are `TickAsks`, `HandsOut`, `TickStarts` or `TickFails`, and may overlap;
  `Shutdown`, `CloseGateway`, `Exit` are the signal handler; `OpenSession`,
  `WriteStubs`, `Exec`, `ExecEnds`, `Revoke`, `RemoveContainers`, `RemoveStubs`
  a sandbox's life; `Knock`, `AskAgain`, `UpstreamAnswers`, `HangUp` what a
  container does through the gateway. Docker may fail to remove a container, and the
  removal of the stubs may fail too, which the code does not report.
- **`ConnectionReader`**. `Refresh`, `RefreshThrows`, `UseCredential`,
  `TimeToLive` on the runner; `Issue`, `Withdraw`, `Reappear`, `Lapse` move the
  store.
- **`Authority`**. `createCa`'s loop for each process: `LoadKey`, `LoadCert`,
  `ClaimCa`, `SignCa`, `GenerateCa`, `RenameCert`, `RenameKey`, `ReleaseCa`,
  `WaitForCa`, and `breakIfAbandoned` in three steps. A file is the number of the
  pair it is half of.

## Runs

| run | bounds | properties |
|---|---|---|
| `foreman_fanin` (`MCForeman`) | fan-in of 3, one runner, 2 slots, 2 claims per job, refusals | `GradeIsEarned`, `DependenciesFirst`, `RefinesContract`, with the two reviewers' walks interleaved |
| `foreman_chain` (`MCForeman`) | chain of 3 (degrade, then block), two runners, faults | `EdgesHold`, `DeclineHidesNoFailure` |
| `foreman_late` (`MCForeman`) | 2 nodes, requests that land late, jobs older than the sweep's cutoff, breaker resets, one earlier failure, threshold 2 | `BreakerCountsRuns`, `LedgerIsTrue`, `OutcomeIsFinal` |
| `foreman_live` (`MCForeman`) | 2 nodes, faults, one refusal allowed; fair | `EveryClaimEnds`, `CycleEnds` |
| `foreman_restart` (`MCForeman`) | 2 unrelated nodes, two machines, cap 1, one crash, a cancel, a worker removed, no other fault; fair | `CapPerRunner`, `LedgerCatchesUp` |
| `triggers` (`MCTriggers`) | schedules: 2 control planes, 1 sync at a time, occurrences at 1 and 2 of 3 instants, 2 rows, 1 crash; sources: 2 control planes, 2 sources, 2 tickets, pages of 1, 1 emission a poll, 1 fault; Linear: 2 applications, 2 polls, 1 flow, 4 tokens, 2 faults | `StartsAtMostOnce`, `NothingStaysDue`, `TicketStartsAtMostOnce`, `BacklogDrains`, `TroubleIsTold`, `StoredGrantRenews`, `StaleGrantIsRenewed` |
| `project` (`MCProject`) | index: 2 requests, 2 names, 1 source, 2 writes of the file; lock: 3 processes, 1 killed, 1 pid recycled, 1 wait given up; inbox: 2 findings, 2 writers at once, 3 in all; graph: 3 keys, every set of up to 4 edges, the short forms | `NoEditErasesAnother`, `SyncAloneIndexesTheFile`, `NoEditLostAmongTheLiving`, `NobodyWaitsForTheDead`, `DismissalsYieldOnlyToARace`, `LoopsTakeARace`, `ProblemsAreWhatStopsIt` |
| `runner` (`MCRunner`) | rounds: 6 kinds of job, 2 rounds, a timeout of 7 units, commands that leave nothing, an edit, or one of everything else; publishing: 3 runs, 2 slots, cap 1, 1 stranger's pull request, 1 loss; events: 2 events, 2 failures; process: 3 jobs, 2 overlapping ticks, limit 1; credential: 3 tokens; authority: 3 processes, 2 killed | `ReportedWorkWasJudged`, `OnlyHiddenOutputInAPatch`, `SecondGateIsNotStarved`, `NothingUnheardOf`, `CapHoldsUpToTheSlots`, `OnlyTheLastFlushLoses`, `TimelineUpToTheEndIsShown`, `NothingOutlivesItsJob`, `CapacityUpToTheOverlap`, `RenewalReachesTheSandbox`, `ServedIsTrusted` |
| `fleet` (`MCFleet`) | 2 machines, 2 invites, 2 names, 2 rows, 2 changes | `OneMachinePerInvite`, `ClaimsAreOnesOwn`, `NobodyIsRefusedForGood` |
| `foreman_double_claim`, `foreman_decline_hangs`, `fleet_unheard` | | the findings below |

*Why the bounds are enough.* Two graph shapes matter to the foreman: the fan-in
that `workers` plus `then` expands to, where two walks meet, and a chain, where one
walk must reach past the node it skips; three nodes suffice for both, and two where
a property is about one run and its neighbour. Elsewhere a property is about two
actors that meet, and a third where a fault needs a bystander (the process that
waits while one that died is robbed by another). A second claim of a job is already
a fault, so `MaxAttempts` is 2 where double claims can matter and 1 where they
cannot; one crash is enough to lose every handler in flight once. With pages of one ticket and one emission per poll, the cap, the page boundary
and the backlog all occur with two tickets. A timeout of 7 units leaves room for a
round, each timed part of its gate and a reserve, and to run out in any of them. Symmetry is used for the two reviewers and the two machines, in runs without
liveness only.

With a cap of 1, two machines and two jobs, both jobs may be in flight together, past the cap, and a poll that
were still offered a slot would break `CapPerRunner`. In that run only the crash loses requests; the other
faults are in `foreman_chain` and `foreman_live`.

*Foci.* In `MCTriggers`, `MCProject`, `MCRunner` and `MCFleet` several modules, or
several parts of one, stand side by side; a behaviour is about the one in focus and
the others stand still, so that no product of unrelated states is explored. Where
a focus takes some of a module's actions only, `MC…` says which and why.

*Deadlock.* `CHECK_DEADLOCK FALSE` throughout: a graded cycle run, a process that
exited, a closed page, spent invites really stop.

*Limits of what passes.* `CapPerRunner` is not the cap: two polls that count before
either claims may exceed it, a race the comment at `server/foreman/admission.ts:712`
describes and leaves open, and `CapIsHard` fails for it (below). What holds is that the excess
is bounded by the machines that poll, and does not build up: what is carried and what is counted as free stays
within the cap per machine. `OnlyHiddenOutputInAPatch` is
what the sweep between rounds achieves: what a gate committed, cloned or left ignored does
reach the next patch. `NothingOutlivesItsJob` is unconditional for sessions and connections;
containers and stubs are gone unless a removal failed or a kill left one. `CycleEnds` holds
without a crash and without the case of the second finding. `StartsAtMostOnce`
holds as long as syncs do not overlap: two that do give a schedule two rows, and each
occurrence fires twice. `EdgesHold` and `DeclineHidesNoFailure` hold as long as walks release
blocked jobs only, on a chain always (see the proofs of `ReleaseProof`). `ClaimsAreOnesOwn` exempts a revocation between the two
looks at a token. `NoEditLostAmongTheLiving` is about processes that live,
`LoopsTakeARace` and `DismissalsYieldOnlyToARace` about writers that do not
overlap the row they decide on. `CapHoldsUpToTheSlots` holds while gh's listing, of
the newest hundred, reaches all of the runs' pull requests. `BacklogDrains` is about tickets within the pages
a poll reads: one beyond `maxPages` pages is never read.

### Findings

| run | what the code does |
|---|---|
| `foreman_double_claim` | two walks of a fan-in both find the dependent blocked; the second queues it again after it was claimed, and it runs twice |
| `foreman_decline_hangs` | a decline at the head of a chain of three skips the second node and leaves the third blocked; the cycle run never ends |
| `fleet_unheard` | a runner's own token is refused on `/runs/:id/published` and `/jobs/:id/history`, which it calls: the paths ask for the admin scope |

`PROJECT.json` quotes the line of the repository each of them contradicts.

Some modules state further promises of the repository's comments that do not hold.
They are kept as definitions, each with a comment that says so and why, and no run
lists them. TLC refutes each when it is added to a configuration of its module; three
need a constant of their own: `BreakerLatches` a threshold of 1,
`HandedOutAuthenticated` a machine that cannot authenticate what it polls for, and
`RobbingTakesACrash` that nobody was killed before (`MaxKilled` 0).

| definition | why it fails |
|---|---|
| `Foreman!BreakerLatches` | with a threshold of 1 the first failure inserts the breaker's row without comparing it (every larger threshold: `BreakersLatch`) |
| `Foreman!HandedOutAuthenticated` | a job queued between `PollHold` and `PollClaim` is handed out unchecked |
| `Foreman!CapIsHard` | two machines count the same free slot, then both claim (one machine, or a chain: `CapIsHardForOneRunner`, `CapIsHardOnAChain`) |
| `Foreman!CauseIsKept` | the reconciler may overwrite a cause written after its select |
| `Foreman!AllTerminalIsGraded` | a cancel of the last open job walks nothing, and a crash may come between a transaction and its walk |
| `Rounds!NoSuiteOutputInAPatch` | `git clean -fd` keeps a nested repository and ignored files, and a commit is no difference from `HEAD`; the next `git add -A` and `base..HEAD` take them (`runner/workspace.ts:132-135` says whatever is there after the gate is the gate's and is swept) |
| `Rounds!SecondReviewIsAfforded` | what an expectation took is in no reserve |
| `Publish!CapIsRespected` | counting and creating are two requests (one slot: `CapIsRespectedByOne`) |
| `RunEvents!TimelineIsShown` | the page's last refetch may come before what the publisher notes |
| `Host!CleanStopOrphansNothing` | jobs in an answer on its way to a tick are in nobody's wait |
| `ConnectionReader!DeadConnectionStops` | an emptied store leaves the last good credential in the cache |
| `Authority!RobbingTakesACrash`, `ConfigLock!LosingTakesACrash` | a lock file exists before its pid does; an owner that was read may be of a lock released since |
| `LinearConnection!GrantBelongsToItsApp` | a flow stores what it got for an application replaced meanwhile |
| `Index!NoJobIsStranded` | a job may be queued between the retiring and the delete |
| `Index!CurrentMeansIndexed` | the hash is recorded before cycles and sources are |
| `Index!EditsStaySyncable` | a worker is deleted that a named cycle runs |
| `Inbox!MergeTargetsStand` | `a` goes into `b`, and a later document sends `b` into `c` |

Met by reading, beside those: a cycle run whose entry nodes were all refused is
never walked; the ledger row of a removed worker stays `pending`; a `/started`
that lands after a long job was swept revives it for good; a lost answer to a join
burns the invite; `server/routes/jobs.ts:59-61` says a wrong token cannot pass
there, and one revoked between the two looks does.

## Fairness

Every liveness property is checked under the fairness its module states, which is
weak fairness of what the code does unasked, and no more:

- `Foreman`: handlers that started run to their end; polls, the sweep and the
  reconciler are on timers (`server/main.ts`, `runner/main.ts`); the trigger fires.
  `SendReport` has strong fairness: `executeJob` runs its rounds against one deadline,
  so a job that keeps returning from `/started` does report.
- `Scheduler`, `Sources`: the steps of each control plane's interval
  (`server/main.ts`), and, for sources, that minutes pass.
- `LinearConnection`: the steps of a poll that began.
- `ConfigLock`: each running process's own step, and that a lock ages.
- `RunEvents`: the runner's timer and its final flush, answers to requests that did
  not fail, the page's polling and its reconnecting `EventSource`.
- `ConnectionReader`: use and expiry; strong fairness of `Refresh`, a read
  not throwing for ever.
- `Fleet`: machines that are on poll, and what was said grows old.

Nothing is assumed of requests that fail, machines that die, crashes, cancels,
removals, resets or people. Publishing has no fairness: no property waits for it.

## Proofs

All theorems hold for every value of the constants that the named assumptions
allow: every finite graph and fleet, any number of control planes, processes,
sources, schedules, machines, invites, jobs, sockets, polls and flows, and every
bound. `Foreman` assumes
`GraphAssumption` (finitely many nodes, edges between them), `FleetAssumption`,
`ReportAssumption` (a pipeline that ran to its end reports `approved`, `dispatched`
or `declined`), `BoundAssumption` and `EnvironmentAssumption`, and nowhere that the
graph is acyclic. The other modules each have one assumption, named for the module,
that gives the constants their types and says what of the world is finite or distinct:

- `SourcesAssumption`: ages count further than any patience does. `LinearAssumption`:
  nobody is called `None`. `InboxAssumption`: the statuses the code uses are among
  those the schema has. `ConfigAssumption`: a cycle is written in one of its two forms.
- `ReaderAssumption`: a token can be issued. `IndexAssumption`: no request is a person, and what a person may save is a
  text. `AuthorityAssumption`: no process is called `Nobody`, and one
  pair can be generated beside the first. `HostAssumption`: there are jobs, and finitely
  many ticks overlap.
- `RoundsAssumption`: an expectation's command ends within the job's timeout. `PublishAssumption`: the
  runs' pull requests are told from other people's by their branch.
  `ScheduleAssumption`, `LockAssumption`, `EventsAssumption`, `Fleet`'s
  `FleetAssumption`: types and bounds.

Four theorem modules serve more than one module, as listed above.

### The foreman

- `ForemanProof!TypeCorrect`: `Spec => []TypeOK`, one lemma per handler.
- `OutcomeStays`: `OutcomeIsFinal`. The transaction's condition covers
  `finalizeRun`; what is left is that a claim never inserts a run that exists.
  `ClaimInv` says so: what a poll is about to insert is absent, in no other poll,
  and counted by `jobs.attempts`.
- `DependenciesComeFirst`, `GradesAreEarned`, `GradesStay`. Neither of
  the first two is inductive, as walks act on old reads. `IInv` adds that a walk
  belongs to a finished run (`WalkInv`), that nothing happens before the trigger
  (`QuietInv`, which keeps `settled` growing across `StartCycleRun`), that what is
  or was read as terminal has ended (`EndedInv`) and that what is or was read as
  succeeded has a run that did (`EarnedInv`). Terminal jobs may be revived in this
  code; the history they leave in `settled` and `outcome` cannot, which is why the
  grade is earned nevertheless. Three lemmas say what any step may do to runs,
  jobs and walks, and the conjuncts follow from those.
- `ContractImplemented`: `Spec => RefinesContract`, from
  `IInv`. The mapping is `grade <- cycle`, `verdict <- outcome`, `ended <- settled`.
- `LedgerHolds`, `BreakersCount`: `LedgerIsTrue`, `BreakerCountsRuns`. Both need that
  what is in flight is what a runner can say (`SaidInv`). Every step is then one of
  two kinds: it gives no run an outcome and leaves the ledger and the breakers alone up to
  a skip, a cancel, a reconciliation or a reset, or it is one `finalizeRun` that wins, which writes
  both with the outcome. Finishing is final, so what bears an entry out stays.
- `BlockEdgesAreHard`: `BlockEdgesHold`, the first half of `EdgesHold`. `BlockInv`: what is
  queued, was handed out, or is about to be queued by a walk has a success
  behind each of its block edges. A success cannot be taken back, so an old read is as good
  as a new one.
- `BreakersLatch`: `BreakerLatches` for every threshold above one. `LatchInv`: a worker
  with a failure has a breaker row, so its next failure is an update, which compares; the
  insert of a first failure is the one write that does not, and it need not unless one is enough.

### Releases

Two walks that both read a job as blocked release it twice (the first finding). A job released
twice may be claimed twice, may be cancelled the second time while its first run is still open,
and that run may then decline, or fail, after a walk went by the job's state. `EdgesHold`,
`DeclineHidesNoFailure`, `ClaimedOnce` and `CapIsHard` are therefore not true of every
instance, and `ReleaseProof` says exactly what they hang on. `ReleasesOnlyBlocked` is the condition
that the `UPDATE` of `releaseDependents` does not carry: what a walk writes was blocked when
it wrote it. From behaviours that keep it, on every graph:

- `ClaimedOnceWhenBlocked`: `ClaimedOnce`, which the first finding refutes, so that the missing
  condition is that finding's only cause. `OnceInv`: a job that has ended has no open run and
  none about to be inserted, and what the sweep selected is not waiting any more. `Moves` says what any
  step may then do to a job: a claim, a release, a start, an end.
- `EdgesHoldWhenBlocked`, `DeclineIsHonestWhenBlocked`: a dependency with one run does not change its
  mind, so that what a walk read as succeeded, skipped or declined still is (`WillingInv`,
  `HarmlessInv`).
- `EndedForGood`: what has ended stays terminal, as long as no request lands late and no job
  outlives the sweep's cutoff. `AgentInv` follows a runner and its requests: one at a time, and no
  `/started` behind the end of a run.
- `CapHoldsPerRunner`: `CapPerRunner`. Under the same conditions what is in flight and what polls have counted as free
  is no more than the cap times the runners (`CapInv`; counting it as one set of places keeps
  multiplication out of the induction). `CapIsHardForOneRunner` is the case of one, where it is `CapIsHard`.

The condition is then proved where the code keeps it, and the theorems above hold there
of every behaviour:

- On a cycle without edges walks release nothing: `NoEdgesReleaseBlocked`, and with it
  `ClaimedOnceWithoutEdges`, `DeclineIsHonestWithoutEdges`, `CapPerRunnerWithoutEdges`, which covers
  `foreman_restart`, and `CapIsHardWithoutEdges` (one runner).
- On a chain whose workers are neither refused at the trigger nor removed: `ChainReleasesBlocked`,
  `ClaimedOnceOnAChain`, `EdgesHoldOnAChain`, `DeclineIsHonestOnAChain`, which cover
  `foreman_chain`, and `CapIsHardOnAChain` for any number of runners, through cancels, sweeps, late
  requests and restarts. `LineInv`: ahead of a job that is not blocked all have ended, behind a
  walk that may still release all are blocked, and it releases the next one.

It cannot be proved of trees or fan-ins, nor of chains with refusals or removals. A walk looks at
every blocked job of its cycle run, not at the ones behind its own: as soon as two nodes
are under way at once, or one ended without a walk of its own, two walks may find the same job
released by none.

### Triggers

- `SchedulerProof!OccurrencesStartOnce`: `StartsAtMostOnce`, that is the refinement
  of `AtMostOnce`, from behaviours in which syncs do not overlap (`OneSync`, a
  hypothesis of the theorem, and needed: see the limits). The inductive invariant
  says that a cycle has one row (`OneRow`), that every occurrence won lies behind its row's
  `lastRunAt`, or behind the clock of each tick that is still to anchor the row
  (`CursorInv`), that what a tick holds as due has passed, lies after the cursor it
  was read with, and is of its row's cycle (`DueInv`), and that what is about to
  start is won, unstarted and in one tick's hands (`RunInv`). Two lemmas about natural numbers give `latestOccurrence`
  its result.
- `SourcesProof!TicketsStartOnce`: `TicketStartsAtMostOnce`, the same contract.
  `TicketInv`: a ticket in a poll's hands has its row, is in no other poll's hands,
  and has not started before `BeginCycle`.
- `SourcesProof!TroubleNamed`: `TroubleIsTold`. The health of a source is read from rows;
  `HealthInv` ties them to the polls that should have written them. A poll is no older
  than its pass (`PassInv`), an `ok` row is no older than the last row it is, and every claim of `lastPolledAt` is answered (`Told`, `Answered`): by a row at
  least as young, by a poll still under way, or by nothing, and then the poll
  is owed for good. So an `ok` row bounds the age of the answer it is believed for.
- `SourcesProof!GrantsRenew`: `StoredGrantRenews`. `ConnectionInv`: a window
  only lapses over a token that was revoked or lost (`Lapsing`); who renews is who is in flight, it
  renews a token that ran out, and what it got is unspent (`OneRenewal`); the heir of what is
  in use is unspent and fresh, so nobody renews it (`Heirs`); what a flow will store is in
  nobody else's hands (`Handed`); a stored grant that was spent is about to be
  replaced by the one who spent it, or that answer was lost (`Recording`).

### Projects

- `ProjectProof!CheckIsExact`: `ProblemsAreWhatStopsIt` on every graph, acyclic or not. `WalkInv`: the
  path is a path (`PathInv`), what was looked at is on it or finished (`LookedInv`),
  what is finished has only finished successors and no loop among them (`DoneInv`), every loop named
  is a set of nodes in which none can start (`LoopsInv`).
- `LockExcludes`: `NoEditLostAmongTheLiving`. `LockInv`: while
  everybody lives the lock's maker is exactly who is inside, no lock is old enough
  to be broken, and what the one inside read is what the file holds.
- `EditsSurvive`: `NoEditErasesAnother`. `Holding`: who is about to write holds
  the queue, and what it loaded is what the file holds unless a person wrote last.
- `SyncConverges`: `SyncAloneIndexesTheFile`. `Progress` says for each stage of a sync that was
  alone since it read the file how far the tables have come to be that file's: what is
  done of a loop has its row, what was pruned is gone, and what is left to do
  is all that may still differ. Where the tables started from is not mentioned, which
  is the point.
- `DismissalsHold`, `MergesEnd`: `DismissalsYieldOnlyToARace`, `LoopsTakeARace`.
  `Judged`: rulings spare what was dismissed when it was read, unless a commit moved
  it since. `Current`: a document that no commit overtook is what it would be if it
  were read now; that one document closes no loop is then a fact about its rulings.

### Runners

- `RunnerProof!PatchesAreTheAgents`: `OnlyHiddenOutputInAPatch`. `Clean`: whenever the agent has the tree
  or a patch is made of it, what a gate left loose there is hidden from the sweep, since every
  round but the last ends in one; and what is committed came by way of such a tree or as a commit.
- `ReportsAreJudged`: `ReportedWorkWasJudged`. `Judging`: the gate that runs, the verdict it left
  and the report are about the patch on disk, and the suite saw that patch with nothing loose beside
  it but ignored files. A round that crashes leaves the
  verdict and the patch of the one before, together.
- `SecondGateAffordable`: `SecondGateIsNotStarved`. `Afforded` (with `GateTime`): from the decision to
  retry to the end of the gate the time left covers what is still to run as
  it was measured last time, reviewer and reserve included.
- `PublishedIsRecorded`: `NothingUnheardOf`. `HeardOf` relates a runner's stage to the row and the
  remote.
- `CapHolds`: `CapHoldsUpToTheSlots`, from behaviours in which gh's listing, which stops at `ListLimit`
  and has other people's pull requests in it, reaches all of the runs' own
  (`AllOfOursListed`, a hypothesis and needed: what is not listed is not counted). No
  more publish than there are slots (`Busy`), each counted before it pushed, and one that
  passes the count saw fewer open than the cap. `CapIsRespectedByOne`: one slot keeps to the cap.
- `EventsReachTheDatabase`: `OnlyTheLastFlushLoses`. `FlushInv`: every event pushed is in the buffer, in a
  post or stored; after the last flush the buffer is empty or the loss is known.

### Gateway and process

- `GatewayProof!NothingLeftBehind`: `NothingOutlivesItsJob`. `HostInv`: a session belongs to
  certain stages of its sandbox, and so do a container and its stubs while no removal failed and
  nothing was killed (`InHand`), a socket that is not closed is tracked
  and its session is open (`WireHeld`), and a job is in one answer and not yet begun (`Handed`).
- `CapacityHolds`: `CapacityUpToTheOverlap`. An answer carries no more than its tick announced, and
  what runs and what is announced keeps within the limit per tick (`Kept`): the sum
  is counted as one set of promised slots.
- `CacheNeverGoesBack`: what is cached is no newer than the store (`ReaderInv`), whose tokens only
  get newer, so a cached token gives way to a newer one that has not expired, or to none.
- `TrustHolds`: `ServedIsTrusted`. `AuthorityInv`: what is signed with is one pair, always
  (`OnePair`). While no lock was taken from its holder, pairs only get newer and the
  certificate is renamed first (`Ordered`), what one read is still there or outdated for good (`Reads`),
  the one inside replaces only what is no pair (`Holds`), and so who
  serves has what is on disk (`Serves`).

### Machines

- `FleetProof!InviteEnrolsOne`, `ClaimsSpeakForTheirMachine`: `OneMachinePerInvite`
  and `ClaimsAreOnesOwn`. `FleetInv`: an unspent invite is in the hands of at most
  one join, and a spent one enrolled one machine or none (`InviteInv`, `JoinInv`), a
  row and a machine carry the token of an invite that machine redeemed (`RowInv`), and
  a call holds the row its token finds, unless it was revoked since (`CallInv`).

### Only model-checked

The ten liveness properties: fairness and ENABLED are out of the prover's reach. Every
safety property of a run is stated by a theorem. Some need a hypothesis beyond the assumptions:
`CapHoldsUpToTheSlots` (`AllOfOursListed`), `StartsAtMostOnce` (`OneSync`), and `CapPerRunner`, `EdgesHold` and
`DeclineHidesNoFailure` off chains (`ReleasesOnlyBlocked`, and for the cap what its theorems list).
TLC shows that the last is needed: `EdgesHold` fails on a fan-in with one node behind its
triage and one beside it, and a cancellable triage; `DeclineHidesNoFailure` on an edge whose
ends can be cancelled, with two nodes beside it.

## Plan

1. Other graphs on which `ReleasesOnlyBlocked` holds while nothing is cancelled or removed;
   chains in which workers are removed, up to what the removal cuts off.
2. `Foreman` with findings: the staging of new findings inside `finalizeRun`, so that
   `Inbox` and `Foreman` compose.
3. Project configuration, as far as an inherited value changes what a run does.

## Not modelled

- *Runtimes and prompts* (`runner/runtimes`, `runner/evidence.ts`): processes that speak to a
  model, and parsing of what they print; their result is a choice in `Rounds`.
- *Project configuration*: schemas and defaults without state.
- *Read-only routes and the system page*: queries. Their routes that write are in
  `Index` and `LinearConnection`.
- *CLI and daemon*: a client of the routes, help texts, supervision by launchd or
  systemd. `runner join` is in `Fleet`, `connect` in `LinearConnection`.
- *Web application*: rendering. The run page's polling is in `RunEvents`.
- Of modelled components: staging of findings and artifacts in `finalizeRun`;
  skills and rubrics a reindex copies, projects added or removed; the gateway's TLS, header
  rewriting, host rules and the contents of stubs, and DER (byte streams and formats); the
  admin's own session; worktree sandboxes, which have nothing to dispose of.
