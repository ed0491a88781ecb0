-------------------------------- MODULE Fleet --------------------------------
(***************************************************************************)
(* The machines that run jobs: how one enrols with an invite               *)
(* (routes/runners.ts), how the control plane knows which of them a        *)
(* request speaks for (auth.ts, the head of POST /jobs/claim), what each   *)
(* says of its own credentials with every claim, and what admission makes  *)
(* of that (foreman/admission.ts).                                         *)
(*                                                                         *)
(* The jobs a claim hands out, and what becomes of them, are in Foreman.   *)
(***************************************************************************)
EXTENDS Naturals, FiniteSets, Functions

CONSTANTS
  Machine,       \* machines that run `ogun runner`
  Local,         \* the only one a control plane on localhost can hear
  Invite,        \* join tokens an operator mints
  HostName,      \* names a machine may choose
  Worker,        \* workers admission is asked about
  MaxRunnerRow,  \* bound: rows of `runners`
  MaxChange      \* bound: changes to what machines, the project and breakers are like

NoInvite == "no invite"
NoName == "no name"
RunnerIds == 1 .. MaxRunnerRow
NoRunner == 0

ASSUME FleetAssumption ==
  /\ Local \in Machine /\ MaxRunnerRow \in Nat /\ MaxChange \in Nat
  /\ NoInvite \notin Invite /\ NoName \notin HostName

VARIABLES
  guarded,   \* adminTokenConfigured: the control plane is bound beyond localhost
  invites,   \* rows of `invites`
  runners,   \* rows of `runners`, by id
  newest,    \* ids given out
  join,      \* per machine: the transaction of its POST /join
  machine,   \* per machine: its local configuration, and its process
  call,      \* per machine: its POST /claim
  forgetting,  \* rows a DELETE /:id/forget found revoked
  project,   \* what a modifier would be verified with
  latched,   \* workers whose breaker is open
  changed,   \* changes so far
  redeemed,  \* observation: machines each invite enrolled
  claims,    \* observation: the claims answered with jobs
  unheard    \* observation: calls refused to a live runner

fleetVars == <<guarded, invites, runners, newest, join, machine, call, forgetting, project, latched,
               changed, redeemed, claims, unheard>>
enrolVars == <<invites, join, redeemed>>
pageVars == <<guarded, forgetting>>
aroundVars == <<project, latched, changed>>

Runner == [name : HostName, token : Invite \cup {NoInvite}, live : BOOLEAN, pending : BOOLEAN,
           seen : BOOLEAN, word : {"none", "usable", "failing"}, fresh : BOOLEAN,
           owner : Machine]
NoJoin == [stage |-> "idle", invite |-> NoInvite, name |-> NoName, found |-> NoRunner]
NoCall == [stage |-> "idle", token |-> NoInvite, name |-> NoName, row |-> NoRunner,
           word |-> "none", raced |-> FALSE]

\* The calls a runner makes of the control plane (client.ts), and the scope each
\* path has (RUNNER_ROUTES).
RunnerCall == {"claim", "inputs", "history", "started", "events", "report", "published"}
RunnerScoped == {"claim", "inputs", "started", "events", "report"}

FleetTypeOK ==
  /\ guarded \in BOOLEAN
  /\ invites \in [Invite -> [minted : BOOLEAN, used : BOOLEAN, revoked : BOOLEAN]]
  /\ newest \in 0 .. MaxRunnerRow /\ DOMAIN runners \subseteq 1 .. newest
  /\ Range(runners) \subseteq Runner
  /\ join \in [Machine -> [stage : {"idle", "claim", "look", "write"},
                           invite : Invite \cup {NoInvite}, name : HostName \cup {NoName},
                           found : RunnerIds \cup {NoRunner}]]
  /\ machine \in [Machine -> [token : Invite \cup {NoInvite}, name : HostName \cup {NoName},
                              on : BOOLEAN, speaks : BOOLEAN, usable : BOOLEAN]]
  /\ call \in [Machine -> [stage : {"idle", "sent", "passed", "known", "taking"},
                           token : Invite \cup {NoInvite}, name : HostName \cup {NoName}, row : RunnerIds \cup {NoRunner},
                           word : {"none", "usable", "failing"}, raced : BOOLEAN]]
  /\ forgetting \subseteq RunnerIds
  /\ project \in {"barred", "unmapped", "bare", "ready"}
  /\ latched \subseteq Worker
  /\ changed \in 0 .. MaxChange
  /\ redeemed \in [Invite -> SUBSET Machine]
  /\ claims \subseteq [own : BOOLEAN, raced : BOOLEAN]
  /\ unheard \subseteq RunnerCall

FleetInit ==
  /\ guarded \in BOOLEAN
  /\ invites = [i \in Invite |-> [minted |-> FALSE, used |-> FALSE, revoked |-> FALSE]]
  /\ runners = [r \in {} |-> {}] /\ newest = 0
  /\ join = [m \in Machine |-> NoJoin]
  /\ machine \in [Machine -> {[token |-> NoInvite, name |-> NoName, on |-> TRUE,
                               speaks |-> s, usable |-> u] : s, u \in BOOLEAN}]
  /\ call = [m \in Machine |-> NoCall]
  /\ forgetting = {}
  /\ project \in {"bare", "ready"} /\ latched = {} /\ changed = 0
  /\ redeemed = [i \in Invite |-> {}]
  /\ claims = {} /\ unheard = {}

Live(r) == r \in DOMAIN runners /\ runners[r].live
LiveNamed(n) == {r \in DOMAIN runners : runners[r].live /\ runners[r].name = n}

-----------------------------------------------------------------------------
(* Enrolment.                                                              *)

\* POST /invites: no machine is named, none has joined.
MintInvite(i) ==
  /\ ~invites[i].minted
  /\ invites' = [invites EXCEPT ![i].minted = TRUE]
  /\ UNCHANGED <<pageVars, runners, newest, join, machine, call, aroundVars, redeemed, claims, unheard>>

\* An UPDATE waits for the row as long as another transaction has written it.
Locked(i) == \E m \in Machine : join[m].invite = i /\ join[m].stage \in {"look", "write"}

RevokeInvite(i) ==
  /\ invites[i].minted /\ ~Locked(i)
  /\ invites' = [invites EXCEPT ![i].revoked = TRUE]
  /\ UNCHANGED <<pageVars, runners, newest, join, machine, call, aroundVars, redeemed, claims, unheard>>

\* `ogun runner join`, with a token and a name; on localhost `ogun runner init`,
\* which has no token and needs none.
Join(m, i, n) ==
  /\ join[m].stage = "idle"
  /\ IF guarded THEN i \in Invite /\ invites[i].minted ELSE i = NoInvite /\ m = Local
  /\ join' = [join EXCEPT ![m] = [stage |-> IF guarded THEN "claim" ELSE "look",
                                   invite |-> i, name |-> n, found |-> NoRunner]]
  /\ UNCHANGED <<pageVars, invites, runners, newest, machine, call, aroundVars, redeemed, claims, unheard>>

\* JoinRefused, or a statement that fails: the transaction leaves nothing behind.
Refuse(m) == join' = [join EXCEPT ![m] = NoJoin]
Unspent(i) == ~invites[i].used /\ ~invites[i].revoked

\* Mutant: the invite is read here, and written with the runner.
ReadInvite(m) ==
  /\ join[m].stage = "claim"
  /\ IF Unspent(join[m].invite) THEN join' = [join EXCEPT ![m].stage = "look"] ELSE Refuse(m)
  /\ UNCHANGED <<pageVars, invites, runners, newest, machine, call, aroundVars, redeemed, claims, unheard>>

\* The check and the claim of the invite are one statement.
ClaimInvite(m) ==
  /\ join[m].stage = "claim" /\ ~Locked(join[m].invite)
  /\ IF Unspent(join[m].invite) THEN join' = [join EXCEPT ![m].stage = "look"] ELSE Refuse(m)
  /\ UNCHANGED <<pageVars, invites, runners, newest, machine, call, aroundVars, redeemed, claims, unheard>>

\* A live runner of that name: another machine, or, on localhost, this one again.
LookForName(m) ==
  /\ join[m].stage = "look"
  /\ LET taken == LiveNamed(join[m].name)
     IN  IF taken # {} /\ guarded THEN Refuse(m)
         ELSE \E r \in IF taken = {} THEN {NoRunner} ELSE taken :
                join' = [join EXCEPT ![m] = [@ EXCEPT !.stage = "write", !.found = r]]
  /\ UNCHANGED <<pageVars, invites, runners, newest, machine, call, aroundVars, redeemed, claims, unheard>>

Enrolled(m) ==
  [name |-> join[m].name, token |-> join[m].invite, live |-> TRUE, pending |-> TRUE,
   seen |-> TRUE, word |-> "none", fresh |-> FALSE, owner |-> m]

\* Names are unique among live runners (runners_live_name_idx).
NameIsFree(n, r) == LiveNamed(n) \subseteq {r}

\* Registering again on localhost keeps the row and what it last heard.
Written(m) ==
  LET r == join[m].found
  IN  IF r = NoRunner THEN [q \in DOMAIN runners \cup {newest + 1} |->
                              IF q = newest + 1 THEN Enrolled(m) ELSE runners[q]]
      ELSE [q \in DOMAIN runners |->
              IF q = r THEN [Enrolled(m) EXCEPT !.seen = runners[r].seen,
                               !.word = runners[r].word, !.fresh = runners[r].fresh]
              ELSE runners[q]]

\* The row is written and the transaction commits; a machine that hears of it
\* keeps the token and the name.
WriteRunner(m, answered) ==
  /\ join[m].stage = "write" /\ NameIsFree(join[m].name, join[m].found)
  /\ newest < MaxRunnerRow
  /\ runners' = Written(m)
  /\ newest' = IF join[m].found = NoRunner THEN newest + 1 ELSE newest
  /\ invites' = [i \in Invite |->
       IF i = join[m].invite THEN [invites[i] EXCEPT !.used = TRUE] ELSE invites[i]]
  /\ redeemed' = [i \in Invite |->
       IF i = join[m].invite THEN redeemed[i] \cup {m} ELSE redeemed[i]]
  /\ machine' = IF answered
       THEN [machine EXCEPT ![m] = [@ EXCEPT !.token = join[m].invite, !.name = join[m].name]]
       ELSE machine
  /\ Refuse(m)
  /\ UNCHANGED <<pageVars, call, aroundVars, claims, unheard>>

\* The name was taken in between, or the database is gone.
JoinFails(m) ==
  /\ join[m].stage \in {"look", "write"}
  /\ Refuse(m)
  /\ UNCHANGED <<pageVars, invites, runners, newest, machine, call, aroundVars, redeemed,
                 claims, unheard>>

\* DELETE /:id: whatever is being answered for that machine goes on.
RevokeRunner(r) ==
  /\ r \in DOMAIN runners
  /\ runners' = [runners EXCEPT ![r] = [@ EXCEPT !.live = FALSE, !.pending = FALSE]]
  /\ call' = [m \in Machine |->
       [call[m] EXCEPT !.raced = @ \/ (call[m].stage # "idle" /\ runners[r].token = call[m].token)]]
  /\ UNCHANGED <<pageVars, newest, enrolVars, machine, aroundVars, claims, unheard>>

\* DELETE /:id/forget: only a revoked one, which is read before it is deleted.
FindRevoked(r) ==
  /\ r \in DOMAIN runners \ forgetting /\ ~runners[r].live
  /\ forgetting' = forgetting \cup {r}
  /\ UNCHANGED <<guarded, runners, newest, enrolVars, machine, call, aroundVars, claims, unheard>>

ForgetRunner(r) ==
  /\ r \in forgetting
  /\ runners' = Restrict(runners, DOMAIN runners \ {r})
  /\ forgetting' = forgetting \ {r}
  /\ UNCHANGED <<guarded, newest, enrolVars, machine, call, aroundVars, claims, unheard>>

-----------------------------------------------------------------------------
(* A claim, and who it speaks for.                                         *)

\* findRunnerByToken: a row that is not revoked, by the hash of the token.
ByToken(t) == {r \in DOMAIN runners : runners[r].live /\ runners[r].token = t}

Calling(m, stage) == call[m].stage = stage
CallTo(m, stage) == call' = [call EXCEPT ![m].stage = stage]
EndCall(m) == call' = [call EXCEPT ![m] = NoCall]

Word(m) == IF ~machine[m].speaks THEN "none" ELSE IF machine[m].usable THEN "usable" ELSE "failing"

\* The poll interval: the name is the local configuration's, which the machine's
\* owner may have edited; an older build says nothing of its credentials.
Poll(m, n) ==
  /\ machine[m].on /\ machine[m].name # NoName
  /\ Calling(m, "idle")
  /\ call' = [call EXCEPT ![m] = [stage |-> "sent", token |-> machine[m].token, name |-> n,
                                   row |-> NoRunner, word |-> Word(m), raced |-> FALSE]]
  /\ UNCHANGED <<pageVars, runners, newest, enrolVars, machine, aroundVars, claims, unheard>>

\* requireScope: nothing is asked on localhost.
PassScope(m) ==
  /\ Calling(m, "sent")
  /\ IF guarded /\ ByToken(call[m].token) = {} THEN EndCall(m) ELSE CallTo(m, "passed")
  /\ UNCHANGED <<pageVars, runners, newest, enrolVars, machine, aroundVars, claims, unheard>>

Speaks(m, r) == call' = [call EXCEPT ![m] = [@ EXCEPT !.stage = "known", !.row = r]]

\* Mutant: the runner is the one the body names.
IdentifyByName(m) ==
  /\ Calling(m, "passed")
  /\ \/ \E r \in LiveNamed(call[m].name) : Speaks(m, r)
     \/ LiveNamed(call[m].name) = {} /\ EndCall(m)
  /\ UNCHANGED <<pageVars, runners, newest, enrolVars, machine, aroundVars, claims, unheard>>

\* Who is claiming is decided by the credential, and by the name only where no
\* credential names a machine.
Identify(m) ==
  /\ Calling(m, "passed")
  /\ LET credentialed == IF guarded THEN ByToken(call[m].token) ELSE {}
     IN  \/ \E r \in credentialed :
              IF runners[r].name = call[m].name THEN Speaks(m, r) ELSE EndCall(m)
         \/ credentialed = {} /\ \E r \in LiveNamed(call[m].name) : Speaks(m, r)
         \/ credentialed \cup LiveNamed(call[m].name) = {} /\ EndCall(m)
  /\ UNCHANGED <<pageVars, runners, newest, enrolVars, machine, aroundVars, claims, unheard>>

\* The heartbeat, by the id of the row: an UPDATE of a row that is gone is nothing.
Heartbeat(m) ==
  /\ Calling(m, "known")
  /\ runners' = [r \in DOMAIN runners |->
       IF r # call[m].row THEN runners[r]
       ELSE IF call[m].word = "none" THEN [runners[r] EXCEPT !.pending = FALSE, !.seen = TRUE]
       ELSE [runners[r] EXCEPT !.pending = FALSE, !.seen = TRUE,
                               !.word = call[m].word, !.fresh = TRUE]]
  /\ CallTo(m, "taking")
  /\ UNCHANGED <<pageVars, newest, enrolVars, machine, aroundVars, claims, unheard>>

\* Whatever is queued is claimed under the name, or nothing is.
TakeJobs(m) ==
  /\ Calling(m, "taking")
  /\ \/ UNCHANGED claims
     \/ claims' = claims \cup {[own |-> Live(call[m].row) /\ runners[call[m].row].owner = m,
                                raced |-> call[m].raced]}
  /\ EndCall(m)
  /\ UNCHANGED <<pageVars, runners, newest, enrolVars, machine, aroundVars, unheard>>

\* One of the other calls, for a job the machine was handed.
CallFromAJob(m, c) ==
  /\ guarded /\ machine[m].on
  /\ \E r \in ByToken(machine[m].token) : ~runners[r].pending
  /\ c \in RunnerCall \ (RunnerScoped \cup unheard)
  /\ unheard' = unheard \cup {c}
  /\ UNCHANGED <<pageVars, runners, newest, enrolVars, machine, call, aroundVars, claims>>

-----------------------------------------------------------------------------
(* What admission knows of the fleet.                                      *)

\* fleetCredentials: the machines seen within RUNNER_STALE_MS, and those of them
\* whose report is as recent.
Up == {r \in DOMAIN runners : runners[r].live /\ ~runners[r].pending /\ runners[r].seen}

\* Mutant: a machine that is seen is believed on what it last said.
ReportingWhileSeen == {r \in Up : runners[r].word # "none"}
Reporting == {r \in Up : runners[r].word # "none" /\ runners[r].fresh}

\* credentialVerdict: only a fleet that has spoken, all of it, can refuse.
CredentialsAllow ==
  \/ Up # Reporting \/ Reporting = {}
  \/ \E r \in Reporting : runners[r].word = "usable"

\* No modifier runs where the policy bars them; otherwise modifierReadiness, and the
\* worker that may run without it.
Ready(w) == project = "ready" \/ (w.bootstrap /\ project = "bare")

\* admit, for a worker whose runtime authenticates to a provider.
Admits(w) == (w.modifier => Ready(w)) /\ CredentialsAllow /\ w \notin latched

-----------------------------------------------------------------------------
(* What goes on around.                                                    *)

Changes == changed < MaxChange /\ changed' = changed + 1

\* A machine is switched on or off, upgraded or downgraded, logged in or out.
MachineChanges(m, on, speaks, usable) ==
  /\ Changes
  /\ machine' = [machine EXCEPT ![m] =
       [token |-> machine[m].token, name |-> machine[m].name,
        on |-> on, speaks |-> speaks, usable |-> usable]]
  /\ UNCHANGED <<pageVars, runners, newest, enrolVars, call, project, latched, claims, unheard>>

\* A person adds or removes the image or the test command; a breaker opens or is reset.
ProjectChanges(p, ws) ==
  /\ Changes
  /\ project' = p /\ latched' = ws
  /\ UNCHANGED <<pageVars, runners, newest, enrolVars, machine, call, claims, unheard>>

\* RUNNER_STALE_MS is twenty polls: only a machine that does not poll, or one that
\* does not report, outlasts it.
PollsFor(m, r) ==
  machine[m].on /\ machine[m].token = runners[r].token /\ machine[m].name = runners[r].name
Heartbeats(r, spoken) == \E m \in Machine : PollsFor(m, r) /\ (spoken => machine[m].speaks)

SeenGoesStale(r) ==
  /\ r \in DOMAIN runners /\ runners[r].seen /\ ~Heartbeats(r, FALSE)
  /\ runners' = [runners EXCEPT ![r] = [@ EXCEPT !.seen = FALSE]]
  /\ UNCHANGED <<pageVars, newest, enrolVars, machine, call, aroundVars, claims, unheard>>

WordGoesStale(r) ==
  /\ r \in DOMAIN runners /\ runners[r].fresh /\ ~Heartbeats(r, TRUE)
  /\ runners' = [runners EXCEPT ![r] = [@ EXCEPT !.fresh = FALSE]]
  /\ UNCHANGED <<pageVars, newest, enrolVars, machine, call, aroundVars, claims, unheard>>

-----------------------------------------------------------------------------
JoinStep(m) ==
  \/ ClaimInvite(m) \/ LookForName(m) \/ JoinFails(m)
  \/ \E answered \in BOOLEAN : WriteRunner(m, answered)
  \/ \E i \in Invite \cup {NoInvite}, n \in HostName : Join(m, i, n)

CallStep(m) ==
  \/ PassScope(m) \/ Identify(m) \/ Heartbeat(m) \/ TakeJobs(m)

OperatorStep ==
  \/ \E i \in Invite : MintInvite(i) \/ RevokeInvite(i)
  \/ \E r \in DOMAIN runners : RevokeRunner(r) \/ FindRevoked(r)
  \/ \E r \in forgetting : ForgetRunner(r)

AgeStep == \E r \in DOMAIN runners : SeenGoesStale(r) \/ WordGoesStale(r)

FleetNext ==
  \/ \E m \in Machine :
       \/ JoinStep(m) \/ CallStep(m)
       \/ \E n \in HostName : Poll(m, n)
       \/ \E c \in RunnerCall : CallFromAJob(m, c)
       \/ \E on, speaks, usable \in BOOLEAN : MachineChanges(m, on, speaks, usable)
  \/ OperatorStep \/ AgeStep
  \/ \E p \in {"barred", "unmapped", "bare", "ready"}, ws \in SUBSET Worker : ProjectChanges(p, ws)

FleetSpec == FleetInit /\ [][FleetNext]_fleetVars

\* A machine that is on polls under its own name and its requests end; time passes.
PollsOn(m) == CallStep(m) \/ Poll(m, machine[m].name)
FleetFairness ==
  /\ \A m \in Machine : WF_fleetVars(PollsOn(m))
  /\ \A r \in RunnerIds : WF_fleetVars(SeenGoesStale(r)) /\ WF_fleetVars(WordGoesStale(r))

-----------------------------------------------------------------------------
(* Properties.                                                             *)

\* An invite enrols one machine, whatever joins present it at once, fail half-way
\* or lose their answer, and whoever is revoked or forgotten in between ("A token
\* that enrolled one machine and could then enroll ten more is a shared secret
\* wearing an invite's clothes", POST /join).
OneMachinePerInvite == \A i \in Invite : Cardinality(redeemed[i]) <= 1

\* Jobs are claimed under the row of the machine that asked, and never for one
\* that was revoked before it asked: only a revocation while the claim is being
\* answered, between the two looks at the token, makes it otherwise (requireScope,
\* POST /claim).
ClaimsAreOnesOwn == guarded => \A c \in claims : c.own \/ c.raced

\* "The fix has to take effect within a poll or two rather than needing a restart"
\* (schema.ts): as long as one machine that polls is logged in, or is too old to
\* say, admission does not go on refusing a worker nothing else speaks against,
\* whatever the machine said before (fleetCredentials, credentialVerdict).
Willing(m) ==
  /\ machine[m].usable \/ ~machine[m].speaks
  /\ \E r \in DOMAIN runners : runners[r].live /\ PollsFor(m, r)
NobodyIsRefusedForGood ==
  \A m \in Machine, w \in Worker :
    <>[](Willing(m) /\ (w.modifier => Ready(w)) /\ w \notin latched) => <>[]Admits(w)

\* "runner - a per-machine enrollment token. Can claim jobs and report on them"
\* (auth.ts): no call a live runner makes about its job is refused.  It fails: the
\* report of a pull request and the inbox are not among RUNNER_ROUTES.
LiveRunnerIsHeard == unheard = {}
=============================================================================
