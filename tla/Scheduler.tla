------------------------------ MODULE Scheduler ------------------------------
(***************************************************************************)
(* Time-based triggers: server/foreman/scheduler.ts, the interval that     *)
(* drives it in server/main.ts, and syncSchedule of server/reindex.ts,     *)
(* which writes the rows it reads.                                         *)
(*                                                                         *)
(* A control plane is a member of Server; each has one clock tick of the   *)
(* interval in flight at most, and holds what it read until it acts on it. *)
(* A row of the table `schedules` is named by its id.  A sync is a member  *)
(* of Sync.                                                                *)
(***************************************************************************)
EXTENDS Naturals, FiniteSets

CONSTANTS
  Server,      \* control planes over one database
  Sync,        \* requests that run syncSchedule
  Cycle,       \* cycles that may have a schedule
  Cron,        \* expressions
  Fires,       \* Fires[c]: the instants expression c names
  MaxTime,     \* bound: the last instant
  MaxRow,      \* bound: rows ever inserted
  MaxCrash,    \* bound: restarts that catch a tick in flight
  Grace,       \* graceMs
  StepLimit    \* latestOccurrence looks at most this many occurrences ahead

ASSUME ScheduleAssumption ==
  /\ MaxTime \in Nat /\ MaxRow \in Nat /\ MaxCrash \in Nat /\ Grace \in Nat
  /\ StepLimit \in Nat \ {0}
  /\ Fires \in [Cron -> SUBSET Nat]

VARIABLES
  now,       \* the wall clock
  rows,      \* the table: a function of the ids of the rows that exist
  nextId,    \* ids given so far
  tick,      \* per server: the tick in flight
  sync,      \* per sync: what syncSchedule read
  crashes,   \* restarts so far
  won,       \* observation: the occurrences a compare-and-set won
  starts     \* observation: how often startCycleRun ran for an occurrence

schedulerVars == <<now, rows, nextId, tick, sync, crashes, won, starts>>

Never == MaxTime + 1  \* lastRunAt is null
NoRow == 0
Time == 0 .. MaxTime
Occurrence == Cycle \X Time
Policy == {"skip", "runOnce"}
Row == [cycle : Cycle, cron : Cron, policy : Policy,
        lastRunAt : Time \cup {Never}, enabled : BOOLEAN]
Item == [id : 1 .. MaxRow, cycle : Cycle, occurrence : Time, readFrom : Time,
         missed : BOOLEAN, policy : Policy]

\* A tick in flight: the instant findDue took, the unanchored rows and the due
\* items it has yet to treat, and the item whose cycle it is starting.
Tick == [busy : BOOLEAN, at : Time, anchors : SUBSET (1 .. MaxRow),
         due : SUBSET Item, run : SUBSET Item]
NoTick == [busy |-> FALSE, at |-> 0, anchors |-> {}, due |-> {}, run |-> {}]

SchedulerTypeOK ==
  /\ now \in Time
  /\ nextId \in 0 .. MaxRow
  /\ DOMAIN rows \subseteq 1 .. nextId
  /\ rows \in [DOMAIN rows -> Row]
  /\ tick \in [Server -> Tick]
  /\ sync \in [Sync -> [busy : BOOLEAN, cycle : Cycle, found : 0 .. MaxRow]]
  /\ crashes \in 0 .. MaxCrash
  /\ won \subseteq Occurrence
  /\ starts \in [Occurrence -> Nat]

SchedulerInit ==
  /\ now = 0
  /\ rows = [r \in {} |-> {}]
  /\ nextId = 0
  /\ tick = [s \in Server |-> NoTick]
  /\ \E c \in Cycle : sync = [y \in Sync |-> [busy |-> FALSE, cycle |-> c, found |-> NoRow]]
  /\ crashes = 0
  /\ won = {}
  /\ starts = [o \in Occurrence |-> 0]

-----------------------------------------------------------------------------
(* The pure part of findDue.                                               *)

Passed(cron, after, at) == {t \in Fires[cron] \cap Time : after < t /\ t <= at}

\* Stepping forward from `after` one occurrence at a time, StepLimit at most.
LatestOccurrence(cron, after, at) ==
  CHOOSE t \in Passed(cron, after, at) :
    LET upTo == {u \in Passed(cron, after, at) : u <= t}
    IN  \/ Cardinality(upTo) = StepLimit
        \/ upTo = Passed(cron, after, at) /\ Cardinality(upTo) < StepLimit

IsDue(row, at) ==
  /\ row.enabled /\ row.lastRunAt # Never
  /\ Passed(row.cron, row.lastRunAt, at) # {}

DueItem(r, at) ==
  LET row == rows[r]
      t == LatestOccurrence(row.cron, row.lastRunAt, at)
  IN  [id |-> r, cycle |-> row.cycle, occurrence |-> t, readFrom |-> row.lastRunAt,
       missed |-> at - t > Grace, policy |-> row.policy]

-----------------------------------------------------------------------------
(* One tick: findDue, then the loop of `tick`.                             *)

\* The interval fires unless the last tick still runs (`ticking`); findDue
\* reads the clock and then every enabled row, in one select.
TickRead(s) ==
  /\ ~tick[s].busy
  /\ tick' = [tick EXCEPT ![s] =
       [busy |-> TRUE, at |-> now, run |-> {},
        anchors |-> {r \in DOMAIN rows : rows[r].enabled /\ rows[r].lastRunAt = Never},
        due |-> {DueItem(r, now) : r \in {q \in DOMAIN rows : IsDue(rows[q], now)}}]]
  /\ UNCHANGED <<now, rows, nextId, sync, crashes, won, starts>>

\* A schedule seen for the first time starts from the tick's own clock, if it
\* is unanchored still.
Anchor(s, r) ==
  /\ r \in tick[s].anchors
  /\ tick' = [tick EXCEPT ![s].anchors = @ \ {r}]
  /\ IF r \in DOMAIN rows /\ rows[r].lastRunAt = Never
     THEN rows' = [rows EXCEPT ![r].lastRunAt = tick[s].at]
     ELSE UNCHANGED rows
  /\ UNCHANGED <<now, nextId, sync, crashes, won, starts>>

\* Mutant: no compare, only the set.
CanClaimAnyway(item) == item.id \in DOMAIN rows

CanClaim(item) == item.id \in DOMAIN rows /\ rows[item.id].lastRunAt = item.readFrom
ShouldRun(item) == ~item.missed \/ item.policy = "runOnce"

Claimable(s, item) ==
  item \in tick[s].due /\ tick[s].anchors = {} /\ tick[s].run = {}

\* Mutant: an occurrence that is skipped leaves the cursor where it is.
ClaimIfItRuns(s, item) ==
  /\ Claimable(s, item) /\ CanClaim(item)
  /\ rows' = IF ShouldRun(item) THEN [rows EXCEPT ![item.id].lastRunAt = item.occurrence] ELSE rows
  /\ tick' = [tick EXCEPT ![s] =
       [busy |-> TRUE, at |-> tick[s].at, anchors |-> {}, due |-> tick[s].due \ {item},
        run |-> IF ShouldRun(item) THEN {item} ELSE {}]]
  /\ won' = won \cup {<<item.cycle, item.occurrence>>}
  /\ UNCHANGED <<now, nextId, sync, crashes, starts>>

\* The compare-and-set on lastRunAt is won; the occurrence runs unless it was
\* missed under `skip`.
Claim(s, item) ==
  /\ Claimable(s, item) /\ CanClaim(item)
  /\ rows' = [rows EXCEPT ![item.id].lastRunAt = item.occurrence]
  /\ tick' = [tick EXCEPT ![s] =
       [busy |-> TRUE, at |-> tick[s].at, anchors |-> {}, due |-> tick[s].due \ {item},
        run |-> IF ShouldRun(item) THEN {item} ELSE {}]]
  /\ won' = won \cup {<<item.cycle, item.occurrence>>}
  /\ UNCHANGED <<now, nextId, sync, crashes, starts>>

\* It is lost, and the loser does nothing at all.
LoseClaim(s, item) ==
  /\ Claimable(s, item) /\ ~CanClaim(item)
  /\ tick' = [tick EXCEPT ![s].due = @ \ {item}]
  /\ UNCHANGED <<now, rows, nextId, sync, crashes, won, starts>>

\* startCycleRun commits, and the loop goes on.
Start(s, item) ==
  /\ item \in tick[s].run
  /\ starts' = [starts EXCEPT ![<<item.cycle, item.occurrence>>] = @ + 1]
  /\ tick' = [tick EXCEPT ![s].run = {}]
  /\ UNCHANGED <<now, rows, nextId, sync, crashes, won>>

\* It throws: the occurrence is burnt, and the tick is over with whatever was
\* still due.
StartThrows(s) ==
  /\ tick[s].run # {}
  /\ tick' = [tick EXCEPT ![s] = NoTick]
  /\ UNCHANGED <<now, rows, nextId, sync, crashes, won, starts>>

TickDone(s) ==
  /\ tick[s].busy /\ tick[s].anchors = {} /\ tick[s].due = {} /\ tick[s].run = {}
  /\ tick' = [tick EXCEPT ![s] = NoTick]
  /\ UNCHANGED <<now, rows, nextId, sync, crashes, won, starts>>

ServerCrash(s) ==
  /\ tick[s].busy /\ crashes < MaxCrash
  /\ crashes' = crashes + 1
  /\ tick' = [tick EXCEPT ![s] = NoTick]
  /\ UNCHANGED <<now, rows, nextId, sync, won, starts>>

-----------------------------------------------------------------------------
(* syncSchedule: one read, then one write that does not look again.        *)

SyncRead(y, c) ==
  /\ ~sync[y].busy
  /\ LET mine == {r \in DOMAIN rows : rows[r].cycle = c}
     IN  \E r \in IF mine = {} THEN {NoRow} ELSE mine :
           sync' = [sync EXCEPT ![y] = [busy |-> TRUE, cycle |-> c, found |-> r]]
  /\ UNCHANGED <<now, rows, nextId, tick, crashes, won, starts>>

SyncEnds(y) == sync' = [sync EXCEPT ![y].busy = FALSE]

\* `schedule:` is gone from config.yaml.
SyncDelete(y) ==
  /\ sync[y].busy
  /\ rows' = [r \in DOMAIN rows \ {sync[y].found} |-> rows[r]]
  /\ SyncEnds(y)
  /\ UNCHANGED <<now, nextId, tick, crashes, won, starts>>

\* An update keeps lastRunAt; updating a row that is gone touches nothing.
SyncUpdate(y, cron, policy, enabled) ==
  /\ sync[y].busy /\ sync[y].found # NoRow
  /\ rows' = [r \in DOMAIN rows |->
       IF r = sync[y].found
       THEN [cycle |-> rows[r].cycle, cron |-> cron, policy |-> policy,
             lastRunAt |-> rows[r].lastRunAt, enabled |-> enabled]
       ELSE rows[r]]
  /\ SyncEnds(y)
  /\ UNCHANGED <<now, nextId, tick, crashes, won, starts>>

SyncInsert(y, cron, policy) ==
  /\ sync[y].busy /\ sync[y].found = NoRow
  /\ nextId < MaxRow
  /\ nextId' = nextId + 1
  /\ rows' = [r \in DOMAIN rows \cup {nextId + 1} |->
       IF r = nextId + 1
       THEN [cycle |-> sync[y].cycle, cron |-> cron, policy |-> policy,
             lastRunAt |-> Never, enabled |-> TRUE]
       ELSE rows[r]]
  /\ SyncEnds(y)
  /\ UNCHANGED <<now, tick, crashes, won, starts>>

\* Time passes, by more than one instant when the machine slept.
Advance ==
  /\ \E t \in Time : t > now /\ now' = t
  /\ UNCHANGED <<rows, nextId, tick, sync, crashes, won, starts>>

-----------------------------------------------------------------------------
TickStep(s) ==
  \/ TickRead(s) \/ TickDone(s) \/ StartThrows(s)
  \/ \E r \in tick[s].anchors : Anchor(s, r)
  \/ \E item \in tick[s].due : Claim(s, item) \/ LoseClaim(s, item)
  \/ \E item \in tick[s].run : Start(s, item)

SyncStep(y) ==
  \/ \E c \in Cycle : SyncRead(y, c)
  \/ SyncDelete(y)
  \/ \E cron \in Cron, policy \in Policy :
       \/ SyncInsert(y, cron, policy)
       \/ \E enabled \in BOOLEAN : SyncUpdate(y, cron, policy, enabled)

SchedulerNext ==
  \/ \E s \in Server : TickStep(s) \/ ServerCrash(s)
  \/ \E y \in Sync : SyncStep(y)
  \/ Advance

SchedulerSpec == SchedulerInit /\ [][SchedulerNext]_schedulerVars

\* The interval keeps firing and a tick that started runs on.
SchedulerFairness == \A s \in Server : WF_schedulerVars(TickStep(s))

-----------------------------------------------------------------------------
(* Properties.                                                             *)

\* An occurrence is claimed before it is run, claimed once whatever ticks,
\* control planes, syncs and restarts do in between, and starts one cycle run
\* at most ("At most once is what a nightly review means").
Contract == INSTANCE AtMostOnce WITH Work <- Occurrence, claimed <- won, runs <- starts
StartsAtMostOnce == Contract!Spec

\* However many starts throw or ticks overlap, a schedule does not stay due: a
\* cycle that cannot start costs its own occurrence and nobody else's.
NothingStaysDue ==
  \A r \in 1 .. MaxRow : []<>(r \in DOMAIN rows => ~IsDue(rows[r], now))
=============================================================================
