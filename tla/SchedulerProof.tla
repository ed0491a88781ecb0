---------------------------- MODULE SchedulerProof ----------------------------
(***************************************************************************)
(* An occurrence of a schedule starts at most one cycle run: proved for    *)
(* any number of control planes and restarts, as long as the syncs that    *)
(* write the rows do not overlap one another.                              *)
(***************************************************************************)
EXTENDS Scheduler, TLAPS, FiniteSetTheorems, WellFoundedInduction

-----------------------------------------------------------------------------
(* latestOccurrence finds one of the instants that have passed.            *)

\* Natural numbers have a least one.
LEMMA LeastNatural ==
  ASSUME NEW S \in SUBSET Nat, S # {}
  PROVE  \E n \in S : \A m \in S : n <= m
<1>1. PICK n \in S : \A m \in S : <<m, n>> \notin OpToRel(<, Nat)
  BY WFMin, NatLessThanWellFounded
<1>2. \A m \in S : <<m, n>> \in OpToRel(<, Nat) <=> m < n
  BY DEF OpToRel
<1>3. n \in Nat /\ \A m \in S : m \in Nat /\ ~(m < n)
  BY <1>1, <1>2
<1> QED
  BY <1>3

\* Bounded natural numbers have a greatest one.
LEMMA GreatestNatural ==
  ASSUME NEW S \in SUBSET Nat, S # {}, NEW b \in Nat, \A m \in S : m <= b
  PROVE  \E n \in S : \A m \in S : m <= n
<1> DEFINE Bounds == {n \in Nat : \A m \in S : m <= n}
<1>1. PICK n \in Bounds : \A m \in Bounds : n <= m
  BY LeastNatural
<1>2. ASSUME n \notin S
      PROVE  FALSE
  <2>1. \A m \in S : m < n
    BY <1>1, <1>2
  <2>5. PICK w \in S : w \in Nat /\ w < n
    BY <2>1
  <2>2. n \in Nat /\ n > 0
    BY <2>5, <1>1
  <2>3. n - 1 \in Nat /\ \A m \in S : m <= n - 1
    BY <2>1, <2>2
  <2>4. n - 1 \in Bounds
    BY <2>3
  <2> QED
    BY <2>2, <2>4, <1>1
<1> QED
  BY <1>1, <1>2

\* The latest occurrence has passed, when any has.
LEMMA LatestIsPassed ==
  ASSUME NEW cron \in Cron, NEW after, NEW at \in Nat, Passed(cron, after, at) # {}
  PROVE  LatestOccurrence(cron, after, at) \in Passed(cron, after, at)
<1> DEFINE P == Passed(cron, after, at)
           UpTo(t) == {u \in P : u <= t}
<1>1. P \in SUBSET Nat /\ \A t \in P : t <= at
  BY ScheduleAssumption DEF Passed, Time
<1>2. IsFiniteSet(P) /\ \A t \in P : IsFiniteSet(UpTo(t)) /\ Cardinality(UpTo(t)) \in Nat
  BY <1>1, FS_BoundedSetOfNaturals, FS_Subset, FS_CardinalityType
<1>3. Cardinality(P) \in Nat
  BY <1>2, FS_CardinalityType
<1>4. PICK last \in P : \A u \in P : u <= last
  BY <1>1, GreatestNatural
<1>5. UpTo(last) = P
  BY <1>4
<1> HIDE DEF P
<1>6. ASSUME Cardinality(P) >= StepLimit
      PROVE  \E t \in P : Cardinality(UpTo(t)) = StepLimit
  <2> DEFINE Far == {t \in P : Cardinality(UpTo(t)) >= StepLimit}
  <2>1. PICK t \in Far : \A u \in Far : t <= u
    <3>1. last \in Far
      BY <1>4, <1>5, <1>6
    <3> QED
      BY <3>1, <1>1, LeastNatural
  <2>2. ASSUME Cardinality(UpTo(t)) # StepLimit
        PROVE  FALSE
    <3> DEFINE V == UpTo(t) \ {t}
    <3>1. Cardinality(UpTo(t)) > StepLimit /\ t \in UpTo(t)
      BY <2>1, <2>2, <1>1, <1>2, ScheduleAssumption
    <3>2. IsFiniteSet(V) /\ Cardinality(V) = Cardinality(UpTo(t)) - 1
      BY <3>1, <2>1, <1>2, FS_RemoveElement
    <3>3. Cardinality(V) >= StepLimit /\ V # {}
      BY <3>1, <3>2, <2>1, <1>2, FS_EmptySet, ScheduleAssumption
    <3>4. PICK u \in V : \A m \in V : m <= u
      <4>1. V \in SUBSET Nat /\ \A m \in V : m <= at
        BY <1>1
      <4> QED
        BY <4>1, <3>3, GreatestNatural
    <3>5. u \in P /\ u < t /\ t \in P
      BY <3>4, <2>1, <1>1
    <3>6. \A m \in P : m <= u => m <= t /\ m # t
      BY <3>5, <1>1
    <3>7. \A m \in P : m \in V => m <= u
      BY <3>4
    <3>8. UpTo(u) = V
      BY <3>6, <3>7
    <3> QED
      BY <3>3, <3>5, <3>8, <2>1, <1>1
  <2> QED
    BY <2>1, <2>2
<1> DEFINE Good(t) ==
      \/ Cardinality(UpTo(t)) = StepLimit
      \/ UpTo(t) = P /\ Cardinality(UpTo(t)) < StepLimit
<1>7. \E t \in P : Good(t)
  <2>1. CASE Cardinality(P) >= StepLimit
    BY <2>1, <1>6
  <2>2. CASE Cardinality(P) < StepLimit
    <3>1. Good(last)
      BY <2>2, <1>5
    <3> QED
      BY <3>1, <1>4
  <2>3. StepLimit \in Nat
    BY ScheduleAssumption
  <2>4. Cardinality(P) >= StepLimit \/ Cardinality(P) < StepLimit
    BY <2>3, <1>3
  <2> QED
    BY <2>1, <2>2, <2>4
<1>8. LatestOccurrence(cron, after, at) = CHOOSE t \in P : Good(t)
  BY DEF LatestOccurrence, P
<1> HIDE DEF Good
<1>9. (CHOOSE t \in P : Good(t)) \in P
  BY <1>7
<1> QED
  BY <1>8, <1>9 DEF P

\* What findDue puts on the list of a tick: a later instant than the row's cursor.
LEMMA DueItems ==
  ASSUME SchedulerTypeOK, NEW r \in DOMAIN rows, IsDue(rows[r], now)
  PROVE  /\ DueItem(r, now) \in Item
         /\ DueItem(r, now).id = r /\ DueItem(r, now).cycle = rows[r].cycle
         /\ DueItem(r, now).readFrom = rows[r].lastRunAt
         /\ DueItem(r, now).readFrom < DueItem(r, now).occurrence
         /\ DueItem(r, now).occurrence <= now
<1> DEFINE row == rows[r]
           t == LatestOccurrence(row.cron, row.lastRunAt, now)
<1>1. row \in Row /\ row.lastRunAt \in Time /\ now \in Nat /\ r \in 1 .. MaxRow
  BY ScheduleAssumption DEF SchedulerTypeOK, IsDue, Row, Time, Never
<1>2. t \in Passed(row.cron, row.lastRunAt, now)
  BY <1>1, LatestIsPassed DEF IsDue, Row
<1>3. t \in Time /\ row.lastRunAt < t /\ t <= now
  BY <1>2 DEF Passed
<1>4. (now - t > Grace) \in BOOLEAN
  OBVIOUS
<1> HIDE DEF t
<1>5. DueItem(r, now) =
        [id |-> r, cycle |-> row.cycle, occurrence |-> t, readFrom |-> row.lastRunAt,
         missed |-> now - t > Grace, policy |-> row.policy]
  BY DEF DueItem, t
<1> QED
  BY <1>1, <1>3, <1>4, <1>5 DEF Item, Row

\* The rows, the ticks and the syncs keep their shape.
LEMMA SchedulerTypeKept ==
  ASSUME SchedulerTypeOK, [SchedulerNext]_schedulerVars
  PROVE  SchedulerTypeOK'
<1> USE ScheduleAssumption DEF SchedulerTypeOK, NoTick
<1>1. CASE UNCHANGED schedulerVars
  BY <1>1 DEF schedulerVars
<1>2. CASE Advance
  BY <1>2 DEF Advance
<1>3. ASSUME NEW s \in Server, TickRead(s)
      PROVE  SchedulerTypeOK'
  <2> DEFINE new == [busy |-> TRUE, at |-> now, run |-> {},
                     anchors |-> {r \in DOMAIN rows : rows[r].enabled /\ rows[r].lastRunAt = Never},
                     due |-> {DueItem(r, now) : r \in {q \in DOMAIN rows : IsDue(rows[q], now)}}]
  <2>1. new.due \subseteq Item
    BY DueItems
  <2>2. DOMAIN rows \subseteq 1 .. MaxRow
    OBVIOUS
  <2>3. new.anchors \subseteq 1 .. MaxRow
    BY <2>2
  <2>4. new \in Tick
    BY <2>1, <2>3 DEF Tick
  <2>5. tick' = [tick EXCEPT ![s] = new]
    BY <1>3 DEF TickRead
  <2> HIDE DEF new
  <2>6. tick' \in [Server -> Tick]
    BY <2>4, <2>5
  <2> QED
    BY <1>3, <2>6 DEF TickRead
<1>4. ASSUME NEW s \in Server, NEW r \in tick[s].anchors, Anchor(s, r)
      PROVE  SchedulerTypeOK'
  <2>1. tick' \in [Server -> Tick]
    BY <1>4 DEF Anchor, Tick
  <2>2. tick[s].at \in Time
    BY DEF Tick
  <2>3. DOMAIN rows' = DOMAIN rows /\ rows' \in [DOMAIN rows' -> Row]
    <3>1. CASE r \in DOMAIN rows /\ rows[r].lastRunAt = Never
      <4> DEFINE anchored == [rows[r] EXCEPT !.lastRunAt = tick[s].at]
      <4>1. anchored \in Row
        BY <2>2, <3>1 DEF Row
      <4>2. rows' = [rows EXCEPT ![r] = anchored]
        BY <1>4, <3>1 DEF Anchor
      <4> HIDE DEF anchored
      <4> QED
        BY <4>1, <4>2
    <3>2. CASE ~(r \in DOMAIN rows /\ rows[r].lastRunAt = Never)
      BY <1>4, <3>2 DEF Anchor
    <3> QED
      BY <3>1, <3>2
  <2> QED
    BY <1>4, <2>1, <2>3 DEF Anchor
<1>5. ASSUME NEW s \in Server, NEW item \in tick[s].due, Claim(s, item)
      PROVE  SchedulerTypeOK'
  <2>1. item \in Item /\ <<item.cycle, item.occurrence>> \in Occurrence
    BY DEF Tick, Item, Occurrence
  <2> DEFINE new == [busy |-> TRUE, at |-> tick[s].at, anchors |-> {},
                     due |-> tick[s].due \ {item}, run |-> IF ShouldRun(item) THEN {item} ELSE {}]
  <2>2. new \in Tick
    BY <2>1 DEF Tick
  <2>3. tick' = [tick EXCEPT ![s] = new]
    BY <1>5 DEF Claim
  <2> HIDE DEF new
  <2>4. tick' \in [Server -> Tick]
    BY <2>2, <2>3
  <2>5. DOMAIN rows' = DOMAIN rows /\ rows' \in [DOMAIN rows' -> Row]
    BY <1>5, <2>1 DEF Claim, CanClaim, Item, Row
  <2>6. won' \subseteq Occurrence
    BY <1>5, <2>1 DEF Claim
  <2> QED
    BY <1>5, <2>4, <2>5, <2>6 DEF Claim
<1>6. ASSUME NEW s \in Server, NEW item \in tick[s].due, LoseClaim(s, item)
      PROVE  SchedulerTypeOK'
  BY <1>6 DEF LoseClaim, Tick
<1>7. ASSUME NEW s \in Server, NEW item \in tick[s].run, Start(s, item)
      PROVE  SchedulerTypeOK'
  <2>1. tick' \in [Server -> Tick]
    BY <1>7 DEF Start, Tick
  <2> DEFINE o == <<item.cycle, item.occurrence>>
  <2>3. o \in Occurrence
    BY DEF Tick, Item, Occurrence
  <2>4. starts' = [starts EXCEPT ![o] = @ + 1]
    BY <1>7 DEF Start
  <2> HIDE DEF o
  <2>2. starts' \in [Occurrence -> Nat]
    BY <2>3, <2>4
  <2> QED
    BY <1>7, <2>1, <2>2 DEF Start
<1>8. ASSUME NEW s \in Server, StartThrows(s) \/ TickDone(s) \/ ServerCrash(s)
      PROVE  SchedulerTypeOK'
  <2>1. NoTick \in Tick
    BY DEF Tick, Time
  <2>2. crashes' \in 0 .. MaxCrash
    BY <1>8 DEF StartThrows, TickDone, ServerCrash
  <2> HIDE DEF NoTick
  <2> QED
    BY <1>8, <2>1, <2>2 DEF StartThrows, TickDone, ServerCrash
<1>9. ASSUME NEW y \in Sync, NEW c \in Cycle, SyncRead(y, c)
      PROVE  SchedulerTypeOK'
  BY <1>9 DEF SyncRead, NoRow
<1>10. ASSUME NEW y \in Sync, SyncDelete(y)
       PROVE  SchedulerTypeOK'
  BY <1>10 DEF SyncDelete, SyncEnds
<1>11. ASSUME NEW y \in Sync, NEW cron \in Cron, NEW policy \in Policy, NEW enabled \in BOOLEAN,
              SyncUpdate(y, cron, policy, enabled)
       PROVE  SchedulerTypeOK'
  BY <1>11 DEF SyncUpdate, SyncEnds, Row
<1>12. ASSUME NEW y \in Sync, NEW cron \in Cron, NEW policy \in Policy, SyncInsert(y, cron, policy)
       PROVE  SchedulerTypeOK'
  <2> DEFINE new == [cycle |-> sync[y].cycle, cron |-> cron, policy |-> policy,
                     lastRunAt |-> Never, enabled |-> TRUE]
  <2>1. new \in Row
    BY DEF Row
  <2>2. rows' = [r \in DOMAIN rows \cup {nextId + 1} |-> IF r = nextId + 1 THEN new ELSE rows[r]]
    BY <1>12 DEF SyncInsert
  <2> HIDE DEF new
  <2>3. rows' \in [DOMAIN rows' -> Row] /\ DOMAIN rows' = DOMAIN rows \cup {nextId + 1}
    BY <2>1, <2>2
  <2>4. nextId' \in 0 .. MaxRow /\ DOMAIN rows' \subseteq 1 .. nextId'
    BY <1>12, <2>3 DEF SyncInsert
  <2>5. sync' \in [Sync -> [busy : BOOLEAN, cycle : Cycle, found : 0 .. MaxRow]]
    BY <1>12 DEF SyncInsert, SyncEnds
  <2> QED
    BY <1>12, <2>3, <2>4, <2>5 DEF SyncInsert
<1> QED
  BY <1>1, <1>2, <1>3, <1>4, <1>5, <1>6, <1>7, <1>8, <1>9, <1>10, <1>11, <1>12
     DEF SchedulerNext, TickStep, SyncStep

-----------------------------------------------------------------------------
(* The invariant.                                                          *)

\* Syncs do not overlap.  Nothing in the code sees to it, and two that do insert a
\* second row for a cycle (syncSchedule reads, then inserts).
OneSync == \A y, z \in Sync : y = z

\* A cycle has one row, since nobody else inserts between a sync's read and its write.
OneRow ==
  /\ \A r, q \in DOMAIN rows : rows[r].cycle = rows[q].cycle => r = q
  /\ \A y \in Sync, r \in DOMAIN rows :
       sync[y].busy /\ sync[y].found = NoRow => rows[r].cycle # sync[y].cycle

\* What was claimed for a cycle is behind the cursor of the row it has now, or
\* behind the clock of every tick that is to set that cursor.
Behind(o, r) ==
  rows[r].cycle = o[1] =>
    IF rows[r].lastRunAt # Never THEN o[2] <= rows[r].lastRunAt
    ELSE \A s \in Server : r \in tick[s].anchors => o[2] <= tick[s].at
CursorInv ==
  \A o \in won : o[2] <= now /\ \A r \in DOMAIN rows : Behind(o, r)

\* What a tick holds was due by a clock that has passed, of a row that was there.
DueInv ==
  \A s \in Server :
    /\ tick[s].at <= now /\ tick[s].anchors \subseteq 1 .. nextId
    /\ \A item \in tick[s].due :
         /\ item.readFrom < item.occurrence /\ item.occurrence <= now
         /\ item.id <= nextId
         /\ item.id \in DOMAIN rows => rows[item.id].cycle = item.cycle

\* What runs was won by that tick alone and has not run.
Of(item) == <<item.cycle, item.occurrence>>
RunInv ==
  /\ \A s \in Server : \A item \in tick[s].run : Of(item) \in won /\ starts[Of(item)] = 0
  /\ \A s, q \in Server : \A i \in tick[s].run : \A j \in tick[q].run : Of(i) = Of(j) => s = q
  /\ \A o \in Occurrence : o \notin won => starts[o] = 0

SchedulerInv == SchedulerTypeOK /\ OneRow /\ CursorInv /\ DueInv /\ RunInv

\* Nothing is due and nothing has started.
LEMMA SchedulerInitially == SchedulerInit => SchedulerInv
<1> SUFFICES ASSUME SchedulerInit PROVE SchedulerInv
  OBVIOUS
<1> USE ScheduleAssumption DEF SchedulerInit, NoTick
<1>1. NoTick \in Tick /\ starts \in [Occurrence -> Nat]
  BY DEF Tick, Time
<1>2. SchedulerTypeOK
  BY <1>1 DEF SchedulerTypeOK, Time, NoRow
<1> QED
  BY <1>2 DEF SchedulerInv, OneRow, CursorInv, DueInv, RunInv

\* Syncs write rows: an id never used, or what leaves id, cycle and cursor alone.
LEMMA SyncKeeps ==
  ASSUME SchedulerInv, OneSync, SchedulerTypeOK', NEW y \in Sync, SyncStep(y)
  PROVE  SchedulerInv'
<1> USE ScheduleAssumption DEF SchedulerInv, SchedulerTypeOK
<1>1. ASSUME NEW c \in Cycle, SyncRead(y, c)
      PROVE  SchedulerInv'
  <2>1. OneRow'
    BY <1>1 DEF OneSync, OneRow, SyncRead, NoRow
  <2> QED
    BY <1>1, <2>1 DEF SyncRead, CursorInv, Behind, DueInv, RunInv
<1>2. CASE SyncDelete(y)
  <2>1. /\ DOMAIN rows' \subseteq DOMAIN rows /\ \A r \in DOMAIN rows' : rows'[r] = rows[r]
        /\ \A z \in Sync : sync'[z].busy => sync'[z] = sync[z] /\ sync[z].busy
        /\ UNCHANGED <<now, nextId, tick, won, starts>>
    BY <1>2 DEF SyncDelete, SyncEnds
  <2> QED
    BY <2>1 DEF OneRow, CursorInv, Behind, DueInv, RunInv
<1>3. ASSUME NEW cron \in Cron, NEW policy \in Policy, NEW enabled \in BOOLEAN,
             SyncUpdate(y, cron, policy, enabled)
      PROVE  SchedulerInv'
  <2>1. /\ DOMAIN rows' = DOMAIN rows
        /\ \A r \in DOMAIN rows : rows'[r].cycle = rows[r].cycle /\ rows'[r].lastRunAt = rows[r].lastRunAt
        /\ \A z \in Sync : sync'[z].busy => sync'[z] = sync[z] /\ sync[z].busy
        /\ UNCHANGED <<now, nextId, tick, won, starts>>
    BY <1>3 DEF SyncUpdate, SyncEnds
  <2> QED
    BY <2>1, SMTT(30) DEF OneRow, CursorInv, Behind, DueInv, RunInv
<1>4. ASSUME NEW cron \in Cron, NEW policy \in Policy, SyncInsert(y, cron, policy)
      PROVE  SchedulerInv'
  <2>1. /\ nextId' = nextId + 1 /\ DOMAIN rows' = DOMAIN rows \cup {nextId'}
        /\ \A r \in DOMAIN rows : rows'[r] = rows[r]
        /\ rows'[nextId'].cycle = sync[y].cycle /\ rows'[nextId'].lastRunAt = Never
        /\ nextId' \notin DOMAIN rows
        /\ sync[y].busy /\ sync[y].found = NoRow
        /\ UNCHANGED <<now, tick, won, starts>>
    BY <1>4 DEF SyncInsert
  <2>2. \A z \in Sync : ~sync'[z].busy
    BY <1>4 DEF OneSync, SyncInsert, SyncEnds
  <2>3. OneRow'
    BY <2>1, <2>2 DEF OneRow
  <2>4. CursorInv'
    BY <2>1 DEF CursorInv, Behind, DueInv
  <2>5. DueInv'
    <3>1. \A s \in Server : tick[s] \in Tick
      OBVIOUS
    <3>2. \A s \in Server : \A item \in tick[s].due : item.id \in Nat
      BY <3>1 DEF Tick, Item
    <3>3. ASSUME NEW s \in Server, NEW item \in tick[s].due
          PROVE  item.id <= nextId' /\ (item.id \in DOMAIN rows' => item.id \in DOMAIN rows)
      BY <2>1, <3>2 DEF DueInv
    <3>4. \A s \in Server : tick[s].anchors \subseteq 1 .. nextId'
      BY <2>1 DEF DueInv
    <3> QED
      BY <2>1, <3>3, <3>4 DEF DueInv
  <2>6. RunInv'
    BY <2>1 DEF RunInv
  <2> QED
    BY <2>3, <2>4, <2>5, <2>6
<1> QED
  BY <1>1, <1>2, <1>3, <1>4 DEF SyncStep

\* A tick reads the table and the clock, anchors what is new, and drops what it lost.
LEMMA TickKeeps ==
  ASSUME SchedulerInv, SchedulerTypeOK', NEW s \in Server,
         TickRead(s) \/ (\E r \in tick[s].anchors : Anchor(s, r))
           \/ (\E item \in tick[s].due : LoseClaim(s, item))
           \/ StartThrows(s) \/ TickDone(s) \/ ServerCrash(s)
  PROVE  SchedulerInv'
<1> USE ScheduleAssumption DEF SchedulerInv, SchedulerTypeOK
<1>1. CASE TickRead(s)
  <2>1. /\ \A q \in Server \ {s} : tick'[q] = tick[q]
        /\ tick'[s].at = now /\ tick'[s].run = {}
        /\ tick'[s].anchors \subseteq DOMAIN rows
        /\ UNCHANGED <<now, rows, nextId, sync, won, starts>>
    BY <1>1 DEF TickRead
  <2>2. \A item \in tick'[s].due :
          /\ item.readFrom < item.occurrence /\ item.occurrence <= now
          /\ item.id \in DOMAIN rows /\ rows[item.id].cycle = item.cycle
    <3>1. \A item \in tick'[s].due : \E r \in DOMAIN rows : IsDue(rows[r], now) /\ item = DueItem(r, now)
      BY <1>1 DEF TickRead
    <3> QED
      BY <3>1, DueItems
  <2>3. CursorInv'
    BY <2>1 DEF CursorInv, Behind
  <2>4. DueInv'
    <3>1. \A item \in tick'[s].due : item.id <= nextId
      BY <2>2
    <3>2. now <= now /\ DOMAIN rows \subseteq 1 .. nextId
      BY DEF Time
    <3> QED
      BY <2>1, <2>2, <3>1, <3>2 DEF DueInv
  <2>5. RunInv'
    BY <2>1 DEF RunInv
  <2> QED
    BY <2>1, <2>3, <2>4, <2>5 DEF OneRow
<1>2. ASSUME NEW r \in tick[s].anchors, Anchor(s, r)
      PROVE  SchedulerInv'
  <2>1. /\ \A q \in Server : /\ tick'[q].at = tick[q].at /\ tick'[q].run = tick[q].run
                            /\ tick'[q].due = tick[q].due /\ tick'[q].anchors \subseteq tick[q].anchors
        /\ UNCHANGED <<now, nextId, sync, won, starts>>
    BY <1>2 DEF Anchor, Tick
  <2>2. DOMAIN rows' = DOMAIN rows /\ \A q \in DOMAIN rows : rows'[q].cycle = rows[q].cycle
    BY <1>2 DEF Anchor, Row
  <2>3. \A q \in DOMAIN rows :
          \/ rows'[q].lastRunAt = rows[q].lastRunAt
          \/ q = r /\ rows[q].lastRunAt = Never /\ rows'[q].lastRunAt = tick[s].at
    BY <1>2 DEF Anchor, Row
  <2>4. CursorInv'
    <3>1. ASSUME NEW o \in won, NEW q \in DOMAIN rows
          PROVE  Behind(o, q)'
      <4>1. Behind(o, q)
        BY DEF CursorInv
      <4>2. CASE rows'[q].lastRunAt = rows[q].lastRunAt
        BY <4>1, <4>2, <2>1, <2>2 DEF Behind
      <4>3. CASE q = r /\ rows[q].lastRunAt = Never /\ rows'[q].lastRunAt = tick[s].at
        <5>1. tick[s].at # Never
          BY DEF Tick, Time, Never
        <5> QED
          BY <4>1, <4>3, <5>1, <2>2 DEF Behind
      <4> QED
        BY <4>2, <4>3, <2>3
    <3> QED
      BY <3>1, <2>1, <2>2 DEF CursorInv
  <2>5. DueInv'
    <3>1. ASSUME NEW q \in Server, NEW item \in tick'[q].due
          PROVE  item \in tick[q].due
      BY <3>1, <2>1
    <3> QED
      BY <2>1, <2>2, <3>1 DEF DueInv
  <2>6. OneRow'
    BY <2>1, <2>2 DEF OneRow
  <2> QED
    BY <2>1, <2>4, <2>5, <2>6 DEF RunInv
<1>3. ASSUME NEW item \in tick[s].due, LoseClaim(s, item)
      PROVE  SchedulerInv'
  <2>1. /\ \A q \in Server : /\ tick'[q].at = tick[q].at /\ tick'[q].run = tick[q].run
                            /\ tick'[q].due \subseteq tick[q].due /\ tick'[q].anchors = tick[q].anchors
        /\ UNCHANGED <<now, rows, nextId, sync, won, starts>>
    BY <1>3 DEF LoseClaim, Tick
  <2> QED
    BY <2>1 DEF OneRow, CursorInv, Behind, DueInv, RunInv
<1>4. CASE StartThrows(s) \/ TickDone(s) \/ ServerCrash(s)
  <2>1. /\ \A q \in Server \ {s} : tick'[q] = tick[q]
        /\ tick'[s] = NoTick
        /\ UNCHANGED <<now, rows, nextId, sync, won, starts>>
    BY <1>4 DEF StartThrows, TickDone, ServerCrash
  <2>2. NoTick.at = 0 /\ NoTick.anchors = {} /\ NoTick.due = {} /\ NoTick.run = {}
    BY DEF NoTick
  <2>3. 0 <= now
    BY DEF Time
  <2> QED
    BY <2>1, <2>2, <2>3, SMTT(30) DEF OneRow, CursorInv, Behind, DueInv, RunInv
<1> QED
  BY <1>1, <1>2, <1>3, <1>4

\* The compare-and-set is won only for an occurrence nobody has claimed ...
LEMMA ClaimsAreNew ==
  ASSUME SchedulerInv, NEW s \in Server, NEW item \in tick[s].due, Claim(s, item)
  PROVE  Of(item) \in Occurrence \ won
<1>1. item \in Item
  BY DEF SchedulerInv, SchedulerTypeOK, Tick
<1>2. Of(item) \in Occurrence
  BY <1>1 DEF Of, Item, Occurrence
<1>3. /\ item.id \in DOMAIN rows /\ rows[item.id].lastRunAt = item.readFrom
      /\ rows[item.id].cycle = item.cycle /\ item.readFrom < item.occurrence
  BY DEF Claim, CanClaim, SchedulerInv, DueInv
<1>4. item.readFrom # Never /\ item.readFrom \in Nat /\ item.occurrence \in Nat
  BY <1>1, ScheduleAssumption DEF Item, Time, Never
<1>5. Of(item)[1] = item.cycle /\ Of(item)[2] = item.occurrence
  BY DEF Of
<1>6. ASSUME Of(item) \in won
      PROVE  FALSE
  <2>1. item.occurrence <= item.readFrom
    BY <1>3, <1>4, <1>5, <1>6 DEF SchedulerInv, CursorInv, Behind
  <2> QED
    BY <2>1, <1>3, <1>4
<1> QED
  BY <1>2, <1>6

\* ... which moves the cursor there and hands the occurrence to this tick alone.
LEMMA ClaimKeeps ==
  ASSUME SchedulerInv, SchedulerTypeOK', NEW s \in Server, NEW item \in tick[s].due, Claim(s, item)
  PROVE  SchedulerInv'
<1> USE ScheduleAssumption DEF SchedulerInv, SchedulerTypeOK
<1>1. Of(item) \in Occurrence \ won
  BY ClaimsAreNew
<1>2. item \in Item /\ item.id \in DOMAIN rows /\ rows[item.id].lastRunAt = item.readFrom
  BY DEF Tick, Claim, CanClaim
<1>3. /\ \A q \in Server \ {s} : tick'[q] = tick[q]
      /\ tick'[s].at = tick[s].at /\ tick'[s].anchors = {} /\ tick'[s].due \subseteq tick[s].due
      /\ tick'[s].run \subseteq {item}
      /\ won' = won \cup {Of(item)}
      /\ UNCHANGED <<now, nextId, sync, starts>>
  BY DEF Claim, Of
<1>4. /\ DOMAIN rows' = DOMAIN rows /\ rows'[item.id].lastRunAt = item.occurrence
      /\ \A q \in DOMAIN rows : rows'[q].cycle = rows[q].cycle
      /\ \A q \in DOMAIN rows \ {item.id} : rows'[q].lastRunAt = rows[q].lastRunAt
  BY <1>2 DEF Claim, Row
<1>5. OneRow'
  BY <1>3, <1>4 DEF OneRow
<1>6. CursorInv'
  <2>1. /\ Of(item)[1] = rows[item.id].cycle /\ Of(item)[2] = item.occurrence
        /\ item.readFrom < item.occurrence /\ item.occurrence <= now
        /\ item.occurrence # Never /\ item.readFrom # Never
        /\ item.occurrence \in Nat /\ item.readFrom \in Nat
    BY <1>2 DEF DueInv, Of, Item, Time, Never
  <2>2. \A o \in won' : o[2] <= now'
    BY <1>3, <2>1 DEF CursorInv
  <2>3. ASSUME NEW o \in won', NEW r \in DOMAIN rows', rows'[r].cycle = o[1], r # item.id
        PROVE  o \in won
    BY <2>3, <2>1, <1>2, <1>3, <1>4 DEF OneRow
  <2>4. ASSUME NEW o \in won', NEW r \in DOMAIN rows', r # item.id
        PROVE  Behind(o, r)'
    BY <2>3, <2>4, <1>3, <1>4 DEF CursorInv, Behind
  <2>5. ASSUME NEW o \in won'
        PROVE  Behind(o, item.id)'
    <3>1. CASE o = Of(item)
      BY <3>1, <2>1, <1>4 DEF Behind
    <3>2. CASE o \in won
      <4>1. o[2] \in Nat
        BY <3>2 DEF Occurrence, Time
      <4> QED
        BY <3>2, <4>1, <2>1, <1>2, <1>4 DEF CursorInv, Behind
    <3> QED
      BY <3>1, <3>2, <1>3
  <2> QED
    BY <2>2, <2>4, <2>5 DEF CursorInv
<1>7. DueInv'
  BY <1>3, <1>4 DEF DueInv
<1>8. RunInv'
  BY <1>1, <1>3 DEF RunInv
<1> QED
  BY <1>5, <1>6, <1>7, <1>8

\* startCycleRun commits for the tick that holds the occurrence, once.
LEMMA StartKeeps ==
  ASSUME SchedulerInv, SchedulerTypeOK', NEW s \in Server, NEW item \in tick[s].run, Start(s, item)
  PROVE  /\ SchedulerInv'
         /\ Of(item) \in won /\ starts[Of(item)] = 0 /\ starts' = [starts EXCEPT ![Of(item)] = 1]
<1> USE DEF SchedulerInv, SchedulerTypeOK
<1>1. Of(item) \in won /\ starts[Of(item)] = 0 /\ Of(item) \in Occurrence
  BY DEF RunInv
<1>2. starts' = [starts EXCEPT ![Of(item)] = starts[Of(item)] + 1]
  BY DEF Start, Of
<1> HIDE DEF Of
<1>3. starts' = [starts EXCEPT ![Of(item)] = 1]
  BY <1>1, <1>2
<1>4. \A o \in Occurrence : o # Of(item) => starts'[o] = starts[o]
  BY <1>1, <1>3
<1>5. /\ \A q \in Server \ {s} : tick'[q] = tick[q]
      /\ tick'[s].run = {} /\ tick'[s].at = tick[s].at
      /\ tick'[s].anchors = tick[s].anchors /\ tick'[s].due = tick[s].due
      /\ UNCHANGED <<now, rows, nextId, sync, won>>
  BY DEF Start, Tick
<1>6. RunInv'
  <2>1. ASSUME NEW q \in Server, NEW i \in tick'[q].run
        PROVE  Of(i) \in won' /\ starts'[Of(i)] = 0
    <3>1. q # s /\ i \in tick[q].run
      BY <1>5, <2>1
    <3>2. Of(i) # Of(item) /\ Of(i) \in won /\ starts[Of(i)] = 0
      BY <3>1 DEF RunInv
    <3> QED
      BY <3>2, <1>4, <1>5
  <2>2. \A q, p \in Server : \A i \in tick'[q].run : \A j \in tick'[p].run : Of(i) = Of(j) => q = p
    BY <1>5 DEF RunInv
  <2>3. \A o \in Occurrence : o \notin won' => starts'[o] = 0
    BY <1>1, <1>4, <1>5 DEF RunInv
  <2>4. \A i : Of(i)' = Of(i)
    BY DEF Of
  <2> QED
    BY <2>1, <2>2, <2>3, <2>4 DEF RunInv
<1>7. OneRow' /\ CursorInv' /\ DueInv'
  BY <1>5 DEF OneRow, CursorInv, Behind, DueInv
<1> QED
  BY <1>1, <1>3, <1>6, <1>7

\* Time passes.
LEMMA AdvanceKeeps ==
  ASSUME SchedulerInv, SchedulerTypeOK', Advance
  PROVE  SchedulerInv'
<1> USE ScheduleAssumption DEF SchedulerInv, SchedulerTypeOK
<1>1. now <= now' /\ now \in Nat /\ now' \in Nat
  BY DEF Advance, Time
<1>2. UNCHANGED <<rows, nextId, tick, sync, won, starts>>
  BY DEF Advance
<1>3. \A o \in won : o[2] \in Nat
  BY DEF Occurrence, Time
<1>4. \A s \in Server : tick[s].at \in Nat /\ \A item \in tick[s].due : item.occurrence \in Nat
  <2>1. \A s \in Server : tick[s] \in Tick
    OBVIOUS
  <2> QED
    BY <2>1 DEF Tick, Item, Time
<1>5. CursorInv'
  BY <1>1, <1>2, <1>3 DEF CursorInv, Behind
<1>6. DueInv'
  BY <1>1, <1>2, <1>4 DEF DueInv
<1> QED
  BY <1>2, <1>5, <1>6 DEF OneRow, RunInv

\* Every step keeps the invariant, while syncs do not overlap.
LEMMA SchedulerStep ==
  ASSUME SchedulerInv, OneSync, [SchedulerNext]_schedulerVars
  PROVE  SchedulerInv'
<1>1. SchedulerTypeOK'
  BY SchedulerTypeKept DEF SchedulerInv
<1>2. CASE UNCHANGED schedulerVars
  BY <1>1, <1>2 DEF schedulerVars, SchedulerInv, OneRow, CursorInv, Behind, DueInv, RunInv
<1>3. CASE Advance
  BY <1>1, <1>3, AdvanceKeeps
<1>4. ASSUME NEW y \in Sync, SyncStep(y)
      PROVE  SchedulerInv'
  BY <1>1, <1>4, SyncKeeps
<1>5. ASSUME NEW s \in Server, TickStep(s) \/ ServerCrash(s)
      PROVE  SchedulerInv'
  <2>1. ASSUME NEW item \in tick[s].due, Claim(s, item)
        PROVE  SchedulerInv'
    BY <1>1, <2>1, ClaimKeeps
  <2>2. ASSUME NEW item \in tick[s].run, Start(s, item)
        PROVE  SchedulerInv'
    BY <1>1, <2>2, StartKeeps
  <2> QED
    BY <1>1, <1>5, <2>1, <2>2, TickKeeps DEF TickStep
<1> QED
  BY <1>2, <1>3, <1>4, <1>5 DEF SchedulerNext

-----------------------------------------------------------------------------
(* The refinement.                                                         *)

\* Each step of the scheduler claims new work, runs claimed work, or does
\* nothing the contract sees.
LEMMA ContractKept ==
  ASSUME SchedulerInv, [SchedulerNext]_schedulerVars
  PROVE  [Contract!Next]_<<won, starts>>
<1>1. ASSUME NEW s \in Server, NEW item \in tick[s].due, Claim(s, item)
      PROVE  [Contract!Next]_<<won, starts>>
  <2>1. Of(item) \in Occurrence \ won
    BY <1>1, ClaimsAreNew
  <2>2. won' = won \cup {Of(item)} /\ UNCHANGED starts
    BY <1>1 DEF Claim, Of
  <2>3. Contract!Claim(Of(item))
    BY <2>1, <2>2 DEF Contract!Claim
  <2> QED
    BY <2>1, <2>3 DEF Contract!Next
<1>2. ASSUME NEW s \in Server, NEW item \in tick[s].run, Start(s, item)
      PROVE  [Contract!Next]_<<won, starts>>
  <2>1. SchedulerTypeOK'
    BY SchedulerTypeKept DEF SchedulerInv
  <2>2. Of(item) \in won /\ starts[Of(item)] = 0 /\ starts' = [starts EXCEPT ![Of(item)] = 1]
    BY <1>2, <2>1, StartKeeps
  <2>3. Of(item) \in Occurrence /\ UNCHANGED won
    BY <1>2, <2>2 DEF Start, SchedulerInv, SchedulerTypeOK
  <2>4. Contract!Run(Of(item))
    BY <2>2, <2>3 DEF Contract!Run
  <2> QED
    BY <2>3, <2>4 DEF Contract!Next
<1>3. CASE UNCHANGED schedulerVars \/ Advance
  BY <1>3 DEF schedulerVars, Advance
<1>4. ASSUME NEW y \in Sync, SyncStep(y)
      PROVE  UNCHANGED <<won, starts>>
  BY <1>4 DEF SyncStep, SyncRead, SyncDelete, SyncUpdate, SyncInsert
<1>5. ASSUME NEW s \in Server,
             TickRead(s) \/ (\E r \in tick[s].anchors : Anchor(s, r))
               \/ (\E item \in tick[s].due : LoseClaim(s, item))
               \/ StartThrows(s) \/ TickDone(s) \/ ServerCrash(s)
      PROVE  UNCHANGED <<won, starts>>
  BY <1>5 DEF TickRead, Anchor, LoseClaim, StartThrows, TickDone, ServerCrash
<1> QED
  BY <1>1, <1>2, <1>3, <1>4, <1>5 DEF SchedulerNext, TickStep

\* What makes the contract true: claimed work is behind its schedule's cursor,
\* and what a tick is about to start it alone has won (scheduler.ts, tick).
THEOREM SchedulerInvariant ==
  ASSUME OneSync
  PROVE  SchedulerSpec => []SchedulerInv
<1> USE OneSync
<1>1. SchedulerInv /\ [SchedulerNext]_schedulerVars => SchedulerInv'
  BY SchedulerStep
<1> QED
  BY SchedulerInitially, <1>1, PTL DEF SchedulerSpec

\* Whatever ticks, control planes, restarts and edits of a schedule do in
\* between, an occurrence is claimed once and starts one cycle run at most, as
\* long as two syncs never overlap (scheduler.ts, tick; reindex.ts, syncSchedule).
THEOREM OccurrencesStartOnce ==
  ASSUME OneSync
  PROVE  SchedulerSpec => StartsAtMostOnce
<1>1. SchedulerInit => Contract!Init
  BY DEF SchedulerInit, Contract!Init
<1>2. SchedulerInv /\ [SchedulerNext]_schedulerVars => [Contract!Next]_<<won, starts>>
  BY ContractKept
<1>3. SchedulerSpec => []SchedulerInv
  BY OneSync, SchedulerInvariant
<1> QED
  BY <1>1, <1>2, <1>3, PTL DEF SchedulerSpec, StartsAtMostOnce, Contract!Spec
=============================================================================
