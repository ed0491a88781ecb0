---------------------------- MODULE ProjectProof ----------------------------
(***************************************************************************)
(* What is edited and what is made of it: the lock of config.json, the check *)
(* of a cycle's graph, config.yaml and the rows indexed from it, findings and *)
(* verdicts. For any number of writers, requests, nodes and findings.      *)
(***************************************************************************)
EXTENDS ConfigLock, CycleGraph, Index, Inbox, TLAPS

-----------------------------------------------------------------------------
(* The lock of ~/.ogun/config.json (machine.ts): while nobody has exited or *)
(* was killed, it excludes.                                                *)

\* The writers between claimLock and the removal of the lock.
Inside == {w \in Updater : at[w] \in {"sign", "read", "write", "release"}}

\* What is inside is what the file says, so it is one; nothing anybody read of the
\* file speaks against its owner; what the one inside read is what there is.
Excludes ==
  /\ lockFile.by = Noone => lockFile = NoLock
  /\ \A w \in Updater : w \in Inside <=> lockFile.by = w
  /\ ~lockFile.old
  /\ \A w \in Updater : seen[w].age # "old"
  /\ \A w \in Updater : at[w] = "write" => held[w] = config
  /\ Landed

\* The inductive invariant, and the types.
LockInv == LockTypeOK /\ (ended = {} => Excludes)

LockFiles == [by : Updater \cup {Noone}, owner : Updater \cup {Noone}, old : BOOLEAN]
LocksSeen == [owner : Updater \cup {Noone, Unread}, age : Ages]

\* What the actions write into the lock and into a look is of its shape.
LEMMA RecordShapes ==
  /\ NoLock \in LockFiles /\ Unlooked \in LocksSeen
  /\ \A w \in Updater : [NoLock EXCEPT !.by = w] \in LockFiles
  /\ \A l \in LockFiles, w \in Updater : [l EXCEPT !.owner = w] \in LockFiles
<1>1. NoLock \in LockFiles
  BY DEF NoLock, LockFiles
<1>2. Unlooked \in LocksSeen
  BY DEF Unlooked, LocksSeen, Unread, Ages
<1>3. \A w \in Updater : [NoLock EXCEPT !.by = w] \in LockFiles
  BY <1>1 DEF LockFiles
<1> QED
  BY <1>1, <1>2, <1>3 DEF LockFiles

\* The types are kept by every step (config.json holds edits, the lock a maker).
LEMMA LockTypeKept ==
  ASSUME LockTypeOK, [LockNext]_lockVars
  PROVE  LockTypeOK'
<1> USE LockAssumption DEF LockTypeOK, LockFiles, LocksSeen
<1>1. CASE UNCHANGED lockVars
  BY <1>1 DEF lockVars
<1>2. CASE LockAges
  BY <1>2 DEF LockAges
<1>3. ASSUME NEW w \in Updater, BeginUpdate(w) \/ ReleaseLock(w)
      PROVE  LockTypeOK'
  BY <1>3, RecordShapes DEF BeginUpdate, ReleaseLock, Step
<1>8. ASSUME NEW w \in Updater, ClaimLock(w) \/ SignLock(w)
      PROVE  LockTypeOK'
  <2>1. lockFile' \in LockFiles
    BY <1>8, RecordShapes DEF ClaimLock, SignLock
  <2> QED
    BY <1>8, <2>1 DEF ClaimLock, SignLock, Step
<1>4. ASSUME NEW w \in Updater, ReadConfig(w) \/ WriteConfig(w)
      PROVE  LockTypeOK'
  BY <1>4 DEF ReadConfig, WriteConfig, Step
<1>5. ASSUME NEW w \in Updater, LookAtOwner(w) \/ StatLock(w)
      PROVE  LockTypeOK'
  BY <1>5 DEF LookAtOwner, StatLock, Looks, Step, Ages
<1>6. ASSUME NEW w \in Updater, BreakLock(w) \/ WaitForLock(w) \/ GiveUp(w)
      PROVE  LockTypeOK'
  <2>1. lockFile' \in LockFiles /\ seen' \in [Updater -> LocksSeen]
    BY <1>6, RecordShapes DEF BreakLock, WaitForLock, GiveUp
  <2>2. mishaps' \in [deaths : 0 .. MaxDeath, waits : 0 .. MaxWait]
    BY <1>6 DEF BreakLock, WaitForLock, GiveUp
  <2> QED
    BY <1>6, <2>1, <2>2 DEF BreakLock, WaitForLock, GiveUp, Step
<1>7. ASSUME NEW w \in Updater, Exit(w) \/ Die(w) \/ RecyclePid(w)
      PROVE  LockTypeOK'
  BY <1>7 DEF Exit, Die, RecyclePid
<1> QED
  BY <1>1, <1>2, <1>3, <1>4, <1>5, <1>6, <1>7, <1>8 DEF LockNext, UpdateStep

\* With every process alive, breakAbandonedLock leaves the lock alone.
LEMMA NothingIsAbandoned ==
  ASSUME LockInv, ended = {}, NEW w \in Updater
  PROVE  ~BreakLock(w)
BY DEF LockInv, LockTypeOK, Excludes, BreakLock, Abandoned, Alive

\* No step of the living lets a second writer in or loses what landed.
LEMMA ExcludesKept ==
  ASSUME LockInv, LockTypeOK', [LockNext]_lockVars, ended' = {}
  PROVE  Excludes'
<1> USE LockAssumption DEF Excludes, Inside, Landed, LockTypeOK, NoLock, Unlooked
<1>0. ended = {} /\ Excludes
  BY DEF LockInv, LockNext, UpdateStep, lockVars, LockAges, BeginUpdate, ClaimLock, SignLock,
         ReadConfig, WriteConfig, ReleaseLock, LookAtOwner, StatLock, Looks, BreakLock,
         WaitForLock, GiveUp, Exit, Die, RecyclePid
<1> USE <1>0 DEF LockInv
<1>1. CASE UNCHANGED lockVars
  BY <1>1 DEF lockVars
<1>2. CASE LockAges
  BY <1>2 DEF LockAges
<1>3. ASSUME NEW w \in Updater, BeginUpdate(w)
      PROVE  Excludes'
  BY <1>3 DEF BeginUpdate, Step
<1>4. ASSUME NEW w \in Updater, ClaimLock(w)
      PROVE  Excludes'
  BY <1>4 DEF ClaimLock, Step, Locked
<1>5. ASSUME NEW w \in Updater, SignLock(w)
      PROVE  Excludes'
  BY <1>5 DEF SignLock, Step
<1>6. ASSUME NEW w \in Updater, ReadConfig(w)
      PROVE  Excludes'
  BY <1>6 DEF ReadConfig, Step
<1>7. ASSUME NEW w \in Updater, WriteConfig(w)
      PROVE  Excludes'
  BY <1>7 DEF WriteConfig, Step
<1>8. ASSUME NEW w \in Updater, ReleaseLock(w)
      PROVE  Excludes'
  BY <1>8 DEF ReleaseLock, Step
<1>9. ASSUME NEW w \in Updater, LookAtOwner(w) \/ StatLock(w)
      PROVE  Excludes'
  BY <1>9 DEF LookAtOwner, StatLock, Looks, Step
<1>10. ASSUME NEW w \in Updater, WaitForLock(w) \/ GiveUp(w)
      PROVE  Excludes'
  <2>1. seen'[w] = Unlooked /\ \A v \in Updater \ {w} : seen'[v] = seen[v]
    BY <1>10 DEF WaitForLock, GiveUp
  <2>2. \A v \in Updater : seen'[v].age # "old"
    BY <2>1 DEF Unread
  <2> QED
    BY <1>10, <2>2 DEF WaitForLock, GiveUp, Step
<1>11. ASSUME NEW w \in Updater, Exit(w) \/ Die(w) \/ RecyclePid(w)
      PROVE  Excludes'
  BY <1>11 DEF Exit, Die, RecyclePid
<1> QED
  BY <1>1, <1>2, <1>3, <1>4, <1>5, <1>6, <1>7, <1>8, <1>9, <1>10, <1>11, NothingIsAbandoned
     DEF LockNext, UpdateStep

\* Every step keeps the invariant.
LEMMA LockInvariant == LockSpec => []LockInv
<1>1. LockInit => LockInv
  BY LockAssumption DEF LockInit, LockInv, LockTypeOK, Excludes, Inside, Landed, NoLock, Unlooked,
     Unread, Ages
<1>2. LockInv /\ [LockNext]_lockVars => LockInv'
  BY LockTypeKept, ExcludesKept DEF LockInv
<1> QED
  BY <1>1, <1>2, PTL DEF LockSpec

\* updateLocalConfig: for any number of processes, as long as all of them live no
\* edit is lost, neither to a second claim nor to a reader of an unsigned lock.
THEOREM LockExcludes == LockSpec => []NoEditLostAmongTheLiving
<1>1. LockInv => NoEditLostAmongTheLiving
  BY DEF LockInv, Excludes, NoEditLostAmongTheLiving
<1> QED
  BY LockInvariant, <1>1, PTL

-----------------------------------------------------------------------------
(* The check of a cycle's graph (cycle.ts): it finds exactly what would stop *)
(* the cycle.                                                              *)

-----------------------------------------------------------------------------
(* The invariant of the walk.                                              *)

\* An edge from a to b.
LinkedBy(a, b) == \E e \in Edges : e.from = a /\ e.to = b
\* A set of nodes one of which waits for none of the others.
Startable(S) == \E n \in S : \A e \in Edges : e.to = n => e.from \notin S

\* The path: distinct known keys, each a successor of the one before it.
PathInv ==
  /\ \A i \in DOMAIN path : path[i] \in Known \ finished
  /\ \A i, j \in DOMAIN path : path[i] = path[j] => i = j
  /\ \A i \in DOMAIN path : i + 1 \in DOMAIN path => LinkedBy(path[i], path[i + 1])

\* What was looked at from a key of the path is done with, unless a loop was met.
LookedInv ==
  loops = {} =>
    \A i \in DOMAIN path :
      \A k \in Successors(path[i]) \ left[path[i]] :
        k \in finished \/ (i + 1 \in DOMAIN path /\ k = path[i + 1])

\* What the walk is done with leads nowhere else, and comes to an end.
DoneInv ==
  /\ finished \subseteq Known
  /\ loops = {} =>
       /\ \A k \in finished : Successors(k) \subseteq finished
       /\ \A S \in SUBSET finished : S # {} => Startable(S)

\* Every loop it reported is one.
LoopsInv == \A S \in loops : S # {} /\ S \subseteq Known /\ ~Startable(S)

\* What is left to look at below a key of the path are successors of it.
LeftInv == \A i \in DOMAIN path : left[path[i]] \subseteq Successors(path[i])

\* The inductive invariant of the walk.
WalkInv == GraphTypeOK /\ PathInv /\ LookedInv /\ DoneInv /\ LoopsInv /\ LeftInv

-----------------------------------------------------------------------------
\* The nodes of a cycle are keys.
LEMMA KnownAreKeys == ASSUME written \in Config PROVE Known \subseteq Key
<1>1. written.listed \in Seq(Key) /\ written.next \in Key \cup {NoKey}
  BY ConfigAssumption DEF ShortForm, LongForm
<1>2. NodeKeys \in Seq(Key)
  BY <1>1 DEF NodeKeys
<1> QED
  BY <1>2 DEF Known

\* The walk begins with nothing looked at.
LEMMA WalkInitially == GraphInit => WalkInv
BY DEF GraphInit, WalkInv, GraphTypeOK, PathInv, LookedInv, DoneInv, LoopsInv, LeftInv

\* A key is put on the path, by the loop over the keys or from the last of the path.
LEMMA EnterKeeps ==
  ASSUME WalkInv, NEW k \in Known \ finished, ~OnPath(k), NEW rest \in [Key -> SUBSET Key],
         Enter(k, rest), UNCHANGED <<written, finished, loops>>,
         \A i \in DOMAIN path : rest[path[i]] = left[path[i]]
           \/ (i = Len(path) /\ k \in left[path[i]] /\ rest[path[i]] = left[path[i]] \ {k}),
         path # << >> => k \in left[Top] /\ rest[Top] = left[Top] \ {k}
  PROVE  WalkInv'
<1> USE DEF WalkInv, GraphTypeOK
<1>1. k \in Key /\ Known' = Known /\ Edges' = Edges /\ Successors(k) \subseteq Key
  BY KnownAreKeys DEF Known, NodeKeys, Edges, Successors
<1>2. /\ path' \in Seq(Key) /\ Len(path') = Len(path) + 1 /\ Len(path) \in Nat
      /\ DOMAIN path = 1 .. Len(path) /\ DOMAIN path' = 1 .. Len(path) + 1
      /\ \A i \in DOMAIN path : path'[i] = path[i]
      /\ path'[Len(path) + 1] = k
  BY <1>1 DEF Enter
<1>3. left' = [rest EXCEPT ![k] = Successors(k)]
  BY DEF Enter
<1>4. /\ left' \in [Key -> SUBSET Key] /\ left'[k] = Successors(k)
      /\ \A i \in DOMAIN path : left'[path[i]] = rest[path[i]]
  BY <1>1, <1>2, <1>3 DEF OnPath
<1>5. \A n : Successors(n)' = Successors(n)
  BY <1>1 DEF Successors
<1>6. \A a, b : LinkedBy(a, b)' = LinkedBy(a, b)
  BY <1>1 DEF LinkedBy
<1>7. \A S : Startable(S)' = Startable(S)
  BY <1>1 DEF Startable
<1>8. PathInv'
  <2>1. \A i \in DOMAIN path' : i \in DOMAIN path \/ i = Len(path) + 1
    BY <1>2
  <2>2. \A i \in DOMAIN path' : path'[i] \in Known' \ finished'
    BY <2>1, <1>1, <1>2 DEF PathInv
  <2>3. \A i, j \in DOMAIN path' : path'[i] = path'[j] => i = j
    BY <2>1, <1>2 DEF PathInv, OnPath
  <2>4. path # << >> => LinkedBy(path[Len(path)], k)
    <3>1. path # << >> => Len(path) \in DOMAIN path
      BY <1>2
    <3>2. path # << >> => k \in Successors(Top)
      BY <3>1 DEF LeftInv, Top
    <3> QED
      BY <3>2 DEF Successors, LinkedBy, Top
  <2>5. \A i \in DOMAIN path' : i + 1 \in DOMAIN path' => LinkedBy(path'[i], path'[i + 1])
    <3>1. ASSUME NEW i \in DOMAIN path', i + 1 \in DOMAIN path'
          PROVE  LinkedBy(path'[i], path'[i + 1])
      <4>1. i \in DOMAIN path
        BY <3>1, <1>2
      <4>2. CASE i + 1 \in DOMAIN path
        BY <4>1, <4>2, <1>2 DEF PathInv
      <4>3. CASE i = Len(path)
        <5>1. path # << >>
          BY <4>1
        <5> QED
          BY <4>1, <4>3, <5>1, <2>4, <1>2
      <4> QED
        BY <4>1, <4>2, <4>3, <1>2
    <3> QED
      BY <3>1
  <2> QED
    BY <2>2, <2>3, <2>5, <1>6 DEF PathInv
<1>9. LeftInv'
  <2>1. ASSUME NEW i \in DOMAIN path
        PROVE  left'[path[i]] \subseteq Successors(path[i])
    BY <1>4 DEF LeftInv
  <2>2. \A i \in DOMAIN path' : i \in DOMAIN path \/ i = Len(path) + 1
    BY <1>2
  <2> QED
    BY <2>1, <2>2, <1>2, <1>4, <1>5 DEF LeftInv
<1>10. LookedInv'
  <2>1. ASSUME loops = {}, NEW i \in DOMAIN path', NEW n \in Successors(path'[i]) \ left'[path'[i]]
        PROVE  n \in finished \/ (i + 1 \in DOMAIN path' /\ n = path'[i + 1])
    <3>1. CASE i = Len(path) + 1
      BY <3>1, <2>1, <1>2, <1>4
    <3>2. CASE i \in DOMAIN path
      <4>1. left'[path'[i]] = rest[path[i]] /\ path'[i] = path[i]
        BY <3>2, <1>2, <1>4
      <4>2. CASE n \notin left[path[i]]
        <5>1. n \in finished \/ (i + 1 \in DOMAIN path /\ n = path[i + 1])
          BY <4>1, <4>2, <3>2, <2>1 DEF LookedInv
        <5> QED
          BY <5>1, <1>2
      <4>3. CASE n \in left[path[i]]
        <5>1. i = Len(path) /\ n = k
          BY <4>1, <4>3, <3>2, <2>1
        <5> QED
          BY <5>1, <1>2
      <4> QED
        BY <4>2, <4>3
    <3> QED
      BY <3>1, <3>2, <1>2
  <2> QED
    BY <2>1, <1>5 DEF LookedInv
<1>11. DoneInv' /\ LoopsInv'
  BY <1>1, <1>5, <1>7 DEF DoneInv, LoopsInv
<1> QED
  BY <1>2, <1>4, <1>8, <1>9, <1>10, <1>11

\* A successor is looked at that is on the path or done with.
LEMMA LookKeeps ==
  ASSUME WalkInv, NEW k \in Key, CloseLoop(k) \/ PassBy(k)
  PROVE  WalkInv'
<1> USE DEF WalkInv, GraphTypeOK
<1> DEFINE n == Len(path)
<1>1. Known' = Known /\ Edges' = Edges /\ UNCHANGED <<path, finished, written>>
  BY DEF CloseLoop, PassBy, Known, NodeKeys, Edges
<1>2. /\ path # << >> /\ n \in DOMAIN path /\ DOMAIN path = 1 .. n /\ n \in Nat
      /\ Top = path[n] /\ Top \in Key /\ k \in left[Top]
  BY DEF CloseLoop, PassBy, LookAt, Top
<1>3. left' = [left EXCEPT ![Top] = left[Top] \ {k}]
  BY DEF CloseLoop, PassBy, Looked
<1>4. /\ left' \in [Key -> SUBSET Key]
      /\ \A i \in DOMAIN path : left'[path[i]] = IF i = n THEN left[Top] \ {k} ELSE left[path[i]]
  BY <1>2, <1>3 DEF PathInv
<1>5. \A m : Successors(m)' = Successors(m)
  BY <1>1 DEF Successors
<1>6. \A a, b : LinkedBy(a, b)' = LinkedBy(a, b)
  BY <1>1 DEF LinkedBy
<1>7. \A S : Startable(S)' = Startable(S)
  BY <1>1 DEF Startable
<1>8. PathInv'
  BY <1>1, <1>6 DEF PathInv
<1>9. LeftInv'
  BY <1>1, <1>2, <1>4, <1>5 DEF LeftInv
<1>10. CASE PassBy(k)
  <2>1. k \in finished /\ loops' = loops
    BY <1>10 DEF PassBy
  <2>2. LookedInv'
    BY <2>1, <1>1, <1>2, <1>4, <1>5 DEF LookedInv
  <2>3. DoneInv' /\ LoopsInv'
    BY <2>1, <1>1, <1>5, <1>7 DEF DoneInv, LoopsInv
  <2> QED
    BY <2>1, <2>2, <2>3, <1>1, <1>4, <1>8, <1>9
<1>11. CASE CloseLoop(k)
  <2> DEFINE From(i) == {path[j] : j \in {j \in DOMAIN path : j >= i}}
             At == {i \in DOMAIN path : path[i] = k}
  <2>1. loops' = loops \cup {From(i) : i \in At} /\ At # {}
    <3>1. loops' = loops \cup {From(i) : i \in At}
      BY <1>11 DEF CloseLoop
    <3>2. At # {}
      BY <1>11 DEF CloseLoop, OnPath
    <3> QED
      BY <3>1, <3>2
  <2>2. loops' # {}
    <3>1. PICK i \in At : TRUE
      BY <2>1
    <3>2. From(i) \in {From(j) : j \in At}
      BY <3>1
    <3> HIDE DEF From, At
    <3> QED
      BY <2>1, <3>2
  <2>3. ASSUME NEW i \in At
        PROVE  From(i) # {} /\ From(i) \subseteq Known /\ ~Startable(From(i))
    <3>1. i \in DOMAIN path /\ path[i] \in From(i) /\ path[i] = k
      BY <1>2
    <3>2. From(i) \subseteq Known
      BY DEF PathInv
    <3>3. path[n] \in From(i)
      BY <1>2, <3>1
    <3>4. LinkedBy(path[n], k)
      BY <1>2 DEF LeftInv, Successors, LinkedBy
    <3>5. ASSUME NEW m \in From(i)
          PROVE  \E e \in Edges : e.to = m /\ e.from \in From(i)
      <4>1. PICK j \in DOMAIN path : j >= i /\ m = path[j]
        BY <3>5
      <4>2. CASE j = i
        BY <4>1, <4>2, <3>1, <3>3, <3>4 DEF LinkedBy
      <4>3. CASE j > i
        <5>1. j - 1 \in DOMAIN path /\ j - 1 >= i /\ (j - 1) + 1 = j
          BY <4>1, <4>3, <3>1, <1>2
        <5>2. path[j - 1] \in From(i)
          BY <5>1
        <5>3. LinkedBy(path[j - 1], path[j])
          BY <5>1 DEF PathInv
        <5> QED
          BY <5>2, <5>3, <4>1 DEF LinkedBy
      <4> QED
        BY <4>1, <4>2, <4>3, <3>1, <1>2
    <3>6. ~Startable(From(i))
      BY <3>5 DEF Startable
    <3> QED
      BY <3>1, <3>2, <3>6
  <2> HIDE DEF From, At
  <2>4. LoopsInv'
    BY <2>1, <2>3, <1>1, <1>7 DEF LoopsInv
  <2>5. LookedInv' /\ DoneInv'
    BY <2>2, <1>1 DEF LookedInv, DoneInv
  <2>6. \A S \in loops' : S \subseteq Key
    BY <2>4, <1>1, KnownAreKeys DEF LoopsInv
  <2> QED
    BY <2>4, <2>5, <2>6, <1>1, <1>4, <1>8, <1>9
<1> QED
  BY <1>10, <1>11

\* The last key of the path has no successor left to look at.
LEMMA ReturnKeeps ==
  ASSUME WalkInv, Return
  PROVE  WalkInv'
<1> USE DEF WalkInv, GraphTypeOK
<1> DEFINE n == Len(path)
<1>1. Known' = Known /\ Edges' = Edges /\ UNCHANGED <<left, loops, written>>
  BY DEF Return, Known, NodeKeys, Edges
<1>2. /\ path # << >> /\ n \in DOMAIN path /\ DOMAIN path = 1 .. n /\ n \in Nat \ {0}
      /\ Top = path[n] /\ Top \in Known \ finished /\ Top \in Key /\ left[Top] = {}
  BY DEF Return, Top, PathInv
<1>3. /\ path' \in Seq(Key) /\ DOMAIN path' = 1 .. n - 1
      /\ \A i \in DOMAIN path' : path'[i] = path[i] /\ i \in DOMAIN path
  BY <1>2 DEF Return
<1>4. finished' = finished \cup {Top}
  BY DEF Return
<1>5. \A m : Successors(m)' = Successors(m)
  BY <1>1 DEF Successors
<1>6. \A a, b : LinkedBy(a, b)' = LinkedBy(a, b)
  BY <1>1 DEF LinkedBy
<1>7. \A S : Startable(S)' = Startable(S)
  BY <1>1 DEF Startable
<1>8. PathInv'
  <2>1. \A i \in DOMAIN path' : path'[i] # Top
    BY <1>2, <1>3 DEF PathInv
  <2>2. \A i \in DOMAIN path' : path'[i] \in Known' \ finished'
    BY <2>1, <1>1, <1>3, <1>4 DEF PathInv
  <2> QED
    BY <2>2, <1>3, <1>6 DEF PathInv
<1>9. LeftInv'
  BY <1>1, <1>3, <1>5 DEF LeftInv
<1>10. LookedInv'
  <2>1. ASSUME loops = {}, NEW i \in DOMAIN path', NEW k \in Successors(path[i]) \ left[path[i]]
        PROVE  k \in finished' \/ (i + 1 \in DOMAIN path' /\ k = path'[i + 1])
    <3>1. k \in finished \/ (i + 1 \in DOMAIN path /\ k = path[i + 1])
      BY <2>1, <1>3 DEF LookedInv
    <3>2. i + 1 \in DOMAIN path' \/ i + 1 = n
      BY <2>1, <1>2, <1>3
    <3> QED
      BY <3>1, <3>2, <1>2, <1>3, <1>4
  <2> QED
    BY <2>1, <1>1, <1>3, <1>5 DEF LookedInv
<1>11. DoneInv'
  <2>1. finished' \subseteq Known
    BY <1>2, <1>4 DEF DoneInv
  <2>2. ASSUME loops = {}
        PROVE  Successors(Top) \subseteq finished
    BY <2>2, <1>2 DEF LookedInv
  <2>3. ASSUME loops = {}, NEW S \in SUBSET finished', S # {}
        PROVE  Startable(S)
    <3>1. CASE Top \notin S
      BY <3>1, <2>3, <1>4 DEF DoneInv
    <3>2. CASE Top \in S
      <4>1. ASSUME NEW e \in Edges, e.to = Top, e.from \in S
            PROVE  FALSE
        <5>1. Top \in Successors(e.from)
          BY <4>1, <1>2 DEF Successors
        <5>2. e.from \in finished \/ e.from = Top
          BY <4>1, <1>4
        <5>3. Top \in finished
          BY <5>1, <5>2, <2>2, <2>3 DEF DoneInv
        <5> QED
          BY <5>3, <1>2
      <4> QED
        BY <4>1, <3>2 DEF Startable
    <3> QED
      BY <3>1, <3>2
  <2>4. loops = {} => \A k \in finished' : Successors(k) \subseteq finished'
    BY <2>2, <1>4 DEF DoneInv
  <2> QED
    BY <2>1, <2>3, <2>4, <1>1, <1>5, <1>7 DEF DoneInv
<1>12. LoopsInv'
  BY <1>1, <1>7 DEF LoopsInv
<1> QED
  BY <1>1, <1>2, <1>3, <1>4, <1>8, <1>9, <1>10, <1>11, <1>12

\* Every step of the walk keeps the invariant.
LEMMA WalkStep ==
  ASSUME WalkInv, [GraphNext]_graphVars
  PROVE  WalkInv'
<1> USE DEF WalkInv, GraphTypeOK
<1>1. CASE UNCHANGED graphVars
  <2>1. UNCHANGED <<written, path, left, finished, loops>>
    BY <1>1 DEF graphVars
  <2>2. Known' = Known /\ Edges' = Edges
    BY <2>1 DEF Known, NodeKeys, Edges
  <2>3. \A k : Successors(k)' = Successors(k)
    BY <2>2 DEF Successors
  <2>4. PathInv'
    BY <2>1, <2>2 DEF PathInv, LinkedBy
  <2>5. LookedInv' /\ LeftInv'
    BY <2>1, <2>3 DEF LookedInv, LeftInv
  <2>6. DoneInv' /\ LoopsInv'
    BY <2>1, <2>2, <2>3 DEF DoneInv, LoopsInv, Startable
  <2> QED
    BY <2>1, <2>4, <2>5, <2>6
<1>2. ASSUME NEW k \in Key, WalkFrom(k)
      PROVE  WalkInv'
  <2>1. path = << >> /\ DOMAIN path = {}
    BY <1>2 DEF WalkFrom
  <2>2. ~OnPath(k)
    BY <2>1 DEF OnPath
  <2> QED
    BY <1>2, <2>1, <2>2, EnterKeeps DEF WalkFrom
<1>3. ASSUME NEW k \in Key, Descend(k)
      PROVE  WalkInv'
  <2>1. /\ path # << >> /\ Len(path) \in DOMAIN path /\ Top = path[Len(path)]
        /\ k \in left[Top] /\ Top \in Key
    BY <1>3 DEF Descend, LookAt, Top
  <2>2. k \in Known \ finished
    BY <2>1, <1>3 DEF Descend, LeftInv, Successors
  <2>3. Looked(k) = [left EXCEPT ![Top] = left[Top] \ {k}]
    BY DEF Looked
  <2> DEFINE rest == Looked(k)
  <2>4. /\ rest \in [Key -> SUBSET Key] /\ rest[Top] = left[Top] \ {k}
        /\ \A i \in DOMAIN path : i # Len(path) => rest[path[i]] = left[path[i]]
    BY <2>1, <2>3 DEF PathInv
  <2>5. Enter(k, rest) /\ UNCHANGED <<written, finished, loops>> /\ ~OnPath(k)
    BY <1>3 DEF Descend
  <2> HIDE DEF rest
  <2>6. \A i \in DOMAIN path : rest[path[i]] = left[path[i]]
           \/ (i = Len(path) /\ k \in left[path[i]] /\ rest[path[i]] = left[path[i]] \ {k})
    BY <2>1, <2>4
  <2> QED
    BY <2>1, <2>2, <2>4, <2>5, <2>6, EnterKeeps
<1> QED
  BY <1>1, <1>2, <1>3, LookKeeps, ReturnKeeps DEF GraphNext

-----------------------------------------------------------------------------
\* A graph has no problem after the walk exactly if every set of its nodes has
\* one that can start.
LEMMA ProblemsStopIt ==
  ASSUME WalkInv, Walked
  PROVE  Problems <=> ~CanFinish
<1>1. ASSUME ~Problems
      PROVE  CanFinish
  <2>1. loops = {} /\ finished = Known
    BY <1>1 DEF Problems, Walked, WalkInv, DoneInv
  <2> QED
    BY <1>1, <2>1 DEF Problems, CanFinish, WalkInv, DoneInv, Startable
<1>2. ASSUME loops # {}
      PROVE  ~CanFinish
  BY <1>2 DEF WalkInv, LoopsInv, CanFinish, Startable
<1> QED
  BY <1>1, <1>2 DEF Problems, CanFinish

\* What cycleSugarSchema lets through: workers side by side, and one after them.
LEMMA SugarCanFinish ==
  ASSUME written \in Config, written.sugar, SugarAccepts
  PROVE  CanFinish
<1> DEFINE listed == written.listed
           last == written.next
<1>1. listed \in Seq(Key) /\ last \in Key \cup {NoKey}
  BY ConfigAssumption DEF ShortForm, LongForm
<1>2. ~Repeats(listed) /\ \A i \in DOMAIN listed : listed[i] # last
  BY DEF SugarAccepts
<1>3. NodeKeys = IF last = NoKey THEN listed ELSE Append(listed, last)
  BY DEF NodeKeys
<1>4. \A e \in Edges : e.to = last /\ e.to \in Key /\ \E i \in DOMAIN listed : e.from = listed[i]
  BY DEF Edges, EdgeOf
<1>5. ~Repeats(NodeKeys) /\ Dangling = {}
  <2>1. CASE last = NoKey
    BY <2>1, <1>1, <1>2, <1>3, <1>4, ConfigAssumption DEF Dangling
  <2>2. CASE last # NoKey
    <3>1. /\ last \in Key /\ Len(listed) \in Nat /\ DOMAIN listed = 1 .. Len(listed)
          /\ DOMAIN NodeKeys = 1 .. Len(listed) + 1
          /\ \A i \in DOMAIN listed : i \in DOMAIN NodeKeys /\ NodeKeys[i] = listed[i]
          /\ NodeKeys[Len(listed) + 1] = last /\ Len(listed) + 1 \in DOMAIN NodeKeys
      BY <2>2, <1>1, <1>3
    <3>2. ~Repeats(NodeKeys)
      BY <3>1, <1>2 DEF Repeats
    <3>3. \A e \in Edges : e.from \in Known /\ e.to \in Known
      BY <3>1, <1>4 DEF Known
    <3> QED
      BY <3>2, <3>3 DEF Dangling
  <2> QED
    BY <2>1, <2>2
<1>6. ASSUME NEW S \in SUBSET Known, S # {}
      PROVE  \E n \in S : \A e \in Edges : e.to = n => e.from \notin S
  <2>1. CASE \E n \in S : n # last
    BY <2>1, <1>4
  <2>2. CASE \A n \in S : n = last
    <3>1. last \in S
      BY <1>6, <2>2
    <3>2. \A e \in Edges : e.from # last
      BY <1>2, <1>4
    <3> QED
      BY <3>1, <3>2, <2>2
  <2> QED
    BY <2>1, <2>2
<1> QED
  BY <1>5, <1>6 DEF CanFinish

\* The check reports a problem exactly of the graphs that cannot finish, the
\* short form never has one, and a graph without an entry always has one
\* (cycleGraphProblems, expandCycle).
THEOREM CheckIsExact == GraphSpec => []ProblemsAreWhatStopsIt
<1>1. WalkInv => ProblemsAreWhatStopsIt
  <2> SUFFICES ASSUME WalkInv, Walked
               PROVE  /\ Problems <=> ~CanFinish
                      /\ written.sugar /\ SugarAccepts => ~Problems
                      /\ Known # {} /\ EntryNodes = {} => Problems
    BY DEF ProblemsAreWhatStopsIt
  <2>1. Problems <=> ~CanFinish
    BY ProblemsStopIt
  <2>2. written.sugar /\ SugarAccepts => CanFinish
    BY SugarCanFinish DEF WalkInv, GraphTypeOK
  <2>3. ASSUME Known # {}, EntryNodes = {}, CanFinish
        PROVE  FALSE
    <3>1. PICK n \in Known : \A e \in Edges : e.to = n => e.from \notin Known
      BY <2>3 DEF CanFinish
    <3>2. PICK e \in Edges : e.to = n
      BY <2>3 DEF EntryNodes
    <3>3. e \in Dangling
      BY <3>1, <3>2 DEF Dangling
    <3> QED
      BY <3>3, <2>3 DEF CanFinish
  <2> QED
    BY <2>1, <2>2, <2>3
<1> QED
  BY WalkInitially, WalkStep, <1>1, PTL DEF GraphSpec

-----------------------------------------------------------------------------
(* config.yaml, its queue of writers and its rows (config-store.ts, reindex.ts). *)

\* A partial function, by its domain and values.
LEMMA PartialShape ==
  ASSUME NEW S, NEW T, NEW f
  PROVE  f \in Partial(S, T) <=> /\ f = [n \in DOMAIN f |-> f[n]] /\ DOMAIN f \subseteq S
                                 /\ \A n \in DOMAIN f : f[n] \in T
<1>1. ASSUME f \in Partial(S, T)
      PROVE  /\ f = [n \in DOMAIN f |-> f[n]] /\ DOMAIN f \subseteq S
             /\ \A n \in DOMAIN f : f[n] \in T
  <2>1. PICK D \in SUBSET S : f \in [D -> T]
    BY <1>1 DEF Partial
  <2> QED
    BY <2>1
<1>2. ASSUME f = [n \in DOMAIN f |-> f[n]], DOMAIN f \subseteq S, \A n \in DOMAIN f : f[n] \in T
      PROVE  f \in Partial(S, T)
  <2>1. f \in [DOMAIN f -> T] /\ DOMAIN f \in SUBSET S
    BY <1>2
  <2> QED
    BY <2>1, Zenon DEF Partial
<1> QED
  BY <1>1, <1>2

\* A row that is written, and the rows that go.
LEMMA PutRow ==
  ASSUME NEW S, NEW T, NEW f \in Partial(S, T), NEW n \in S, NEW v \in T
  PROVE  /\ Put(f, n, v) \in Partial(S, T) /\ DOMAIN Put(f, n, v) = DOMAIN f \cup {n}
         /\ Put(f, n, v)[n] = v
         /\ \A m \in DOMAIN f \ {n} : Put(f, n, v)[m] = f[m]
<1> DEFINE g == Put(f, n, v)
<1>1. /\ DOMAIN g = DOMAIN f \cup {n} /\ g[n] = v
      /\ \A m \in DOMAIN f \ {n} : g[m] = f[m]
      /\ g = [m \in DOMAIN g |-> g[m]]
  BY DEF Put
<1>2. DOMAIN f \subseteq S /\ \A m \in DOMAIN f : f[m] \in T
  BY PartialShape
<1> HIDE DEF g
<1>3. DOMAIN g \subseteq S /\ \A m \in DOMAIN g : g[m] \in T
  BY <1>1, <1>2
<1>4. g \in Partial(S, T)
  BY <1>1, <1>3, PartialShape
<1> QED
  BY <1>1, <1>4 DEF g

\* Rows that are kept of a table are a table.
LEMMA KeptRows ==
  ASSUME NEW S, NEW T, NEW f \in Partial(S, T), NEW D \in SUBSET DOMAIN f
  PROVE  /\ Restrict(f, D) \in Partial(S, T) /\ DOMAIN Restrict(f, D) = D
         /\ \A m \in D : Restrict(f, D)[m] = f[m]
<1> DEFINE g == Restrict(f, D)
<1>1. DOMAIN g = D /\ (\A m \in D : g[m] = f[m]) /\ g = [m \in DOMAIN g |-> g[m]]
  BY DEF Restrict
<1>2. DOMAIN f \subseteq S /\ \A m \in DOMAIN f : f[m] \in T
  BY PartialShape
<1> HIDE DEF g
<1>3. DOMAIN g \subseteq S /\ \A m \in DOMAIN g : g[m] \in T
  BY <1>1, <1>2
<1>4. g \in Partial(S, T)
  BY <1>1, <1>3, PartialShape
<1> QED
  BY <1>1, <1>4 DEF g

\* Tables with the same rows are the same.
LEMMA SameRows ==
  ASSUME NEW S, NEW T, NEW f \in Partial(S, T), NEW g \in Partial(S, T), DOMAIN f = DOMAIN g,
         \A n \in DOMAIN f : f[n] = g[n]
  PROVE  f = g
<1>1. f = [n \in DOMAIN f |-> f[n]] /\ g = [n \in DOMAIN g |-> g[n]]
  BY PartialShape
<1>2. [n \in DOMAIN f |-> f[n]] = [n \in DOMAIN g |-> g[n]]
  OBVIOUS
<1> QED
  BY <1>1, <1>2

-----------------------------------------------------------------------------
\* The requests under way.
RequestStages ==
  {"idle", "page", "queue", "write", "check", "workers", "hash", "cycles", "select", "prune",
   "retire", "delete", "forget", "sources", "drop", "done"}
Edits ==
  [put : {"workers"}, name : Name, value : Definition]
    \cup [put : {"sources"}, name : SourceName, value : Name] \cup [put : {"nothing"}, name : Name]
Requests ==
  [stage : RequestStages, hash : SUBSET ConfigText, edit : Edits \cup {Nothing}, read : ConfigText,
   todo : SUBSET (Name \cup SourceName), seen : SUBSET Name, alone : BOOLEAN]

\* What a stage asks of the request that stands there.
Fitting(p) ==
  /\ p.stage \in {"queue", "write"} => p.edit \in Edits
  /\ p.stage = "workers" => p.todo \subseteq DOMAIN p.read.workers
  /\ p.stage = "cycles" => p.todo \subseteq DOMAIN p.read.cycles
  /\ p.stage = "sources" => p.todo \subseteq DOMAIN p.read.sources

\* The types.
Tables ==
  /\ workers \in Partial(Name, Definition)
  /\ cycles \in Partial(Name, Name \cup {Single})
  /\ sources \in Partial(SourceName, Name)

IndexShape ==
  /\ file \in ConfigText /\ Tables
  /\ req \in [Request -> Requests]
  /\ \A r \in Request : Fitting(req[r])

\* A write is made by the head of the queue, of the file it loaded.
Holding ==
  \A r \in Request :
    RequestAt(r, "write") => lock = r /\ (writer = Person \/ file = req[r].read)

\* The rows a file asks for, and how far a table has come to be them.
RowOf(F, n) == IF n \in DOMAIN F.cycles THEN F.cycles[n] ELSE Single
Listed(F) == DOMAIN F.workers \cup DOMAIN F.cycles
HasRows(t, rows, S) == \A n \in S : n \in DOMAIN t /\ t[n] = rows[n]
HasCycles(t, F, S) == \A n \in S : n \in DOMAIN t /\ t[n] = RowOf(F, n)
CyclesAreIts(t, F) ==
  /\ DOMAIN t \subseteq Listed(F)
  /\ \A n \in Listed(F) : \/ n \in DOMAIN t /\ t[n] = RowOf(F, n)
                          \/ n \notin DOMAIN t /\ n \in DOMAIN F.cycles

\* How far a sync that runs by itself has brought the rows, at each of its stages.
Stands(ws, cs, ss, stage, F, T, X) ==
  /\ stage \in {"workers", "cycles", "prune", "retire"} => Valid(F)
  /\ stage = "workers" =>
       HasRows(ws, F.workers, DOMAIN F.workers \ T) /\ HasCycles(cs, F, DOMAIN F.workers \ T)
  /\ stage \in {"cycles", "prune", "retire"} => HasRows(ws, F.workers, DOMAIN F.workers)
  /\ stage = "cycles" => HasCycles(cs, F, Listed(F) \ T)
  /\ stage \in {"prune", "retire", "forget"} => HasCycles(cs, F, Listed(F))
  /\ stage = "prune" => DOMAIN cs \subseteq Listed(F) \cup X /\ X \cap Listed(F) = {}
  /\ stage \in {"retire", "forget"} => DOMAIN cs \subseteq Listed(F)
  /\ stage = "forget" => X \cap DOMAIN F.workers = {}
  /\ stage \in {"forget", "sources", "done"} => ws = F.workers
  /\ stage \in {"sources", "done"} => CyclesAreIts(cs, F)
  /\ stage = "sources" => HasRows(ss, F.sources, DOMAIN F.sources \ T)
  /\ stage = "done" => ss = F.sources

\* A sync that was alone since it read the file has brought the rows as far as its stage says.
Progress(p) == p.alone => Stands(workers, cycles, sources, p.stage, p.read, p.todo, p.seen)

\* The inductive invariant of the file, its editors and its syncs.
IndexInv == IndexShape /\ Holding /\ \A r \in Request : Progress(req[r])

\* A step of one request, as the others see it.
Frame(r, rec) ==
  /\ req' \in [Request -> Requests] /\ req'[r] = rec
  /\ \A q \in Request \ {r} :
       /\ req'[q].stage = req[q].stage /\ req'[q].edit = req[q].edit
       /\ req'[q].read = req[q].read /\ req'[q].todo = req[q].todo /\ req'[q].alone = FALSE

\* A request that moves on leaves the others as they see themselves.
LEMMA MoveFrames ==
  ASSUME req \in [Request -> Requests], NEW r \in Request, NEW rec \in Requests, Move(r, rec)
  PROVE  Frame(r, rec)
<1>1. ASSUME NEW q \in Request
      PROVE  [req[q] EXCEPT !.alone = FALSE] \in Requests
  BY <1>1 DEF Requests
<1>2. req' \in [Request -> Requests] /\ req'[r] = rec
  BY <1>1 DEF Move
<1>3. ASSUME NEW q \in Request \ {r}
      PROVE  /\ req'[q].stage = req[q].stage /\ req'[q].edit = req[q].edit
             /\ req'[q].read = req[q].read /\ req'[q].todo = req[q].todo /\ req'[q].alone = FALSE
  <2>1. req'[q] = [req[q] EXCEPT !.alone = FALSE] /\ req[q] \in Requests
    BY DEF Move
  <2> QED
    BY <2>1 DEF Requests
<1> QED
  BY <1>2, <1>3 DEF Frame

\* So does one that deletes cycles another had selected.
LEMMA DeleteFrames ==
  ASSUME req \in [Request -> Requests], NEW r \in Request, NEW rec \in Requests, NEW ns,
         DeleteCycles(r, ns, rec)
  PROVE  Frame(r, rec)
<1> DEFINE Seen(q) == IF RequestAt(q, "prune") THEN req[q].seen \ ns ELSE req[q].seen
<1>1. \A q \in Request : req[q] \in Requests /\ Seen(q) \in SUBSET Name
  <2>1. \A q \in Request : req[q] \in Requests /\ req[q].seen \in SUBSET Name
    BY DEF Requests
  <2> QED
    BY <2>1
<1>2. req' = [q \in Request |-> IF q = r THEN rec
                                ELSE [req[q] EXCEPT !.alone = FALSE, !.seen = Seen(q)]]
  BY Zenon DEF DeleteCycles
<1> HIDE DEF Seen
<1>3. ASSUME NEW q \in Request
      PROVE  [req[q] EXCEPT !.alone = FALSE, !.seen = Seen(q)] \in Requests
  BY <1>1 DEF Requests
<1>4. req' \in [Request -> Requests] /\ req'[r] = rec
  BY <1>2, <1>3
<1>5. ASSUME NEW q \in Request \ {r}
      PROVE  /\ req'[q].stage = req[q].stage /\ req'[q].edit = req[q].edit
             /\ req'[q].read = req[q].read /\ req'[q].todo = req[q].todo /\ req'[q].alone = FALSE
  <2>1. req'[q] = [req[q] EXCEPT !.alone = FALSE, !.seen = Seen(q)] /\ req[q] \in Requests
    BY <1>1, <1>2
  <2> QED
    BY <2>1 DEF Requests
<1> QED
  BY <1>4, <1>5 DEF Frame

\* What the steps leave to show: the request that moves.
LEMMA OneRequestMoves ==
  ASSUME IndexInv, NEW r \in Request, NEW rec, Frame(r, rec), Fitting(rec),
         file' \in ConfigText, Tables',
         rec.alone => Stands(workers', cycles', sources', rec.stage, rec.read, rec.todo, rec.seen),
         \A q \in Request : req'[q].stage = "write" =>
           lock' = q /\ (writer' = Person \/ file' = req'[q].read)
  PROVE  IndexInv'
<1>1. ASSUME NEW q \in Request
      PROVE  Fitting(req'[q]) /\ (req'[q].alone =>
               Stands(workers', cycles', sources',
                      req'[q].stage, req'[q].read, req'[q].todo, req'[q].seen))
  <2>1. CASE q = r
    BY <2>1 DEF Frame
  <2>2. CASE q # r
    <3>1. Fitting(req[q])
      BY DEF IndexInv, IndexShape
    <3>2. /\ req'[q].stage = req[q].stage /\ req'[q].edit = req[q].edit
          /\ req'[q].read = req[q].read /\ req'[q].todo = req[q].todo /\ req'[q].alone = FALSE
      BY <2>2 DEF Frame
    <3> QED
      BY <3>1, <3>2, Zenon DEF Fitting
  <2> QED
    BY <2>1, <2>2
<1>2. req' \in [Request -> Requests]
  BY DEF Frame
<1>3. IndexShape'
  BY <1>1, <1>2 DEF IndexShape, Fitting
<1>4. Holding'
  BY DEF Holding, RequestAt
<1> QED
  BY <1>1, <1>3, <1>4 DEF IndexInv, Progress

-----------------------------------------------------------------------------
\* What is there before anything is: an empty table, file and request.
LEMMA EmptyRows ==
  /\ \A S, T : Nothing \in Partial(S, T)
  /\ EmptyFile \in ConfigText
  /\ NoRequest \in Requests /\ Fitting(NoRequest)
  /\ NoRequest.stage = "idle" /\ NoRequest.alone = FALSE
<1>1. \A S, T : Nothing \in Partial(S, T)
  <2> SUFFICES ASSUME NEW S, NEW T PROVE Nothing \in Partial(S, T)
    OBVIOUS
  <2>1. Nothing = [n \in DOMAIN Nothing |-> Nothing[n]] /\ DOMAIN Nothing = {}
    BY DEF Nothing
  <2> QED
    BY <2>1, PartialShape
<1>2. EmptyFile \in ConfigText
  BY <1>1 DEF EmptyFile, ConfigText
<1>3. NoRequest \in Requests
  BY <1>2 DEF NoRequest, Requests, RequestStages, Unhashed
<1> QED
  BY <1>1, <1>2, <1>3 DEF NoRequest, Fitting

\* An edit makes a file of a file.
LEMMA EditedFile ==
  ASSUME NEW e \in Edits, NEW f \in ConfigText
  PROVE  Apply(e, f) \in ConfigText
<1>1. /\ f.workers \in Partial(Name, Definition) /\ f.sources \in Partial(SourceName, Name)
      /\ f.cycles \in Partial(Name, Name)
  BY DEF ConfigText
<1>2. CASE e \in [put : {"workers"}, name : Name, value : Definition]
  <2>1. Put(f.workers, e.name, e.value) \in Partial(Name, Definition)
    BY <1>1, <1>2, PutRow
  <2>2. Apply(e, f) = [f EXCEPT !.workers = Put(f.workers, e.name, e.value)]
    BY <1>2 DEF Apply
  <2> QED
    BY <2>1, <2>2 DEF ConfigText
<1>3. CASE e \in [put : {"sources"}, name : SourceName, value : Name]
  <2>1. Put(f.sources, e.name, e.value) \in Partial(SourceName, Name)
    BY <1>1, <1>3, PutRow
  <2>2. Apply(e, f) = [f EXCEPT !.sources = Put(f.sources, e.name, e.value)]
    BY <1>3 DEF Apply
  <2> QED
    BY <2>1, <2>2 DEF ConfigText
<1>4. CASE e \in [put : {"nothing"}, name : Name]
  <2>1. Without(f.workers, {e.name}) \in Partial(Name, Definition)
    BY <1>1, KeptRows DEF Without
  <2>2. Apply(e, f) = [f EXCEPT !.workers = Without(f.workers, {e.name})]
    BY <1>4 DEF Apply
  <2> QED
    BY <2>1, <2>2 DEF ConfigText
<1> QED
  BY <1>2, <1>3, <1>4 DEF Edits

\* Nothing is indexed and nobody asks.
LEMMA FirstIndex == ASSUME IndexInit PROVE IndexInv
<1>1. file \in ConfigText
  BY IndexAssumption DEF IndexInit
<1>2. \A r \in Request : req[r] = NoRequest
  BY DEF IndexInit
<1>3. req \in [Request -> Requests]
  BY EmptyRows DEF IndexInit
<1>4. Tables
  BY EmptyRows DEF IndexInit, Tables
<1>5. IndexShape
  BY <1>1, <1>2, <1>3, <1>4, EmptyRows DEF IndexShape
<1>6. Holding
  BY <1>2, EmptyRows DEF Holding, RequestAt
<1> QED
  BY <1>2, <1>5, <1>6, EmptyRows DEF IndexInv, Progress

\* A step that writes neither the file nor a row, and asks for no write.
LEMMA OnlyMoves ==
  ASSUME IndexInv, NEW r \in Request, NEW rec \in Requests, Move(r, rec), Fitting(rec),
         rec.stage # "write", UNCHANGED <<fileVars, workers, cycles, sources, lock>>,
         rec.alone => Stands(workers, cycles, sources, rec.stage, rec.read, rec.todo, rec.seen)
  PROVE  IndexInv'
<1>1. Frame(r, rec)
  BY MoveFrames DEF IndexInv, IndexShape
<1>2. /\ file' = file /\ writer' = writer /\ workers' = workers /\ cycles' = cycles
      /\ sources' = sources /\ lock' = lock
  BY DEF fileVars
<1>3. file' \in ConfigText /\ Tables'
  BY <1>2 DEF IndexInv, IndexShape, Tables
<1>4. \A q \in Request : req'[q].stage = "write" =>
        lock' = q /\ (writer' = Person \/ file' = req'[q].read)
  BY <1>1, <1>2, Zenon DEF Frame, IndexInv, Holding, RequestAt
<1> QED
  BY <1>1, <1>2, <1>3, <1>4, OneRequestMoves

\* Pages opened, edits submitted, syncs begun.
LEMMA AskingMoves ==
  ASSUME IndexInv, NEW r \in Request, IndexAsk(r) \/ BeginSync(r)
  PROVE  IndexInv'
<1> DEFINE p == req[r]
<1>1. p \in Requests /\ file \in ConfigText /\ Tables
  BY DEF IndexInv, IndexShape
<1>2. CASE OpenPage(r)
  <2>1. PICK h \in {{file}, Unhashed} : Move(r, [NoRequest EXCEPT !.stage = "page", !.hash = h])
    BY <1>2 DEF OpenPage
  <2> DEFINE rec == [NoRequest EXCEPT !.stage = "page", !.hash = h]
  <2>2. h \in SUBSET ConfigText
    BY <1>1 DEF Unhashed
  <2>3. rec \in Requests /\ rec.stage = "page" /\ rec.alone = FALSE
    BY <2>2, EmptyRows DEF Requests, RequestStages, NoRequest
  <2>4. UNCHANGED <<fileVars, workers, cycles, sources, lock>>
    BY <1>2 DEF OpenPage, tableVars
  <2> HIDE DEF rec
  <2> QED
    BY <2>1, <2>3, <2>4, OnlyMoves DEF Fitting, rec
<1>3. ASSUME NEW e \in Edits, Submits(r, e)
      PROVE  IndexInv'
  <2> DEFINE rec == [p EXCEPT !.stage = "queue", !.edit = e]
  <2>1. rec \in Requests /\ rec.stage = "queue" /\ rec.edit = e
    BY <1>1 DEF Requests, RequestStages
  <2>2. Move(r, rec) /\ UNCHANGED <<fileVars, workers, cycles, sources, lock>>
    BY <1>3 DEF Submits, tableVars
  <2> HIDE DEF rec
  <2>3. Fitting(rec)
    BY <2>1 DEF Fitting
  <2>4. Stands(workers, cycles, sources, rec.stage, rec.read, rec.todo, rec.seen)
    BY <2>1 DEF Stands
  <2> QED
    BY <2>1, <2>2, <2>3, <2>4, OnlyMoves
<1>4. ASSUME NEW n \in Name, NEW d \in Definition, SubmitCreate(r, n, d)
      PROVE  IndexInv'
  <2>1. [put |-> "workers", name |-> n, value |-> d] \in Edits
    BY DEF Edits
  <2> QED
    BY <1>3, <1>4, <2>1, Zenon DEF SubmitCreate
<1>5. ASSUME NEW n \in Name, NEW x \in Field, NEW v \in Value, SubmitPatch(r, n, x, v)
      PROVE  IndexInv'
  <2>1. workers[n] \in Definition
    BY <1>1, <1>5, PartialShape DEF Tables, SubmitPatch
  <2>2. [workers[n] EXCEPT ![x] = v] \in Definition
    BY <2>1 DEF Definition
  <2>3. [put |-> "workers", name |-> n, value |-> [workers[n] EXCEPT ![x] = v]] \in Edits
    BY <2>2 DEF Edits
  <2> QED
    BY <1>3, <1>5, <2>3, Zenon DEF SubmitPatch
<1>6. ASSUME NEW n \in Name, SubmitDelete(r, n)
      PROVE  IndexInv'
  <2>1. [put |-> "nothing", name |-> n] \in Edits
    BY DEF Edits
  <2> QED
    BY <1>3, <1>6, <2>1, Zenon DEF SubmitDelete
<1>7. ASSUME NEW n \in Name, NEW s \in SourceName, SubmitSource(r, s, n)
      PROVE  IndexInv'
  <2>1. [put |-> "sources", name |-> s, value |-> n] \in Edits
    BY DEF Edits
  <2> QED
    BY <1>3, <1>7, <2>1, Zenon DEF SubmitSource
<1>8. CASE Abandon(r)
  <2>1. Frame(r, NoRequest)
    BY <1>8, MoveFrames, EmptyRows DEF Abandon, IndexInv, IndexShape
  <2>2. /\ file' = file /\ writer' = writer /\ workers' = workers /\ cycles' = cycles
        /\ sources' = sources /\ lock' = IF lock = r THEN Nobody ELSE lock
    BY <1>8 DEF Abandon, fileVars, tableVars
  <2>3. file' \in ConfigText /\ Tables'
    BY <1>1, <2>2 DEF Tables
  <2>4. ASSUME NEW q \in Request, req'[q].stage = "write"
        PROVE  lock' = q /\ (writer' = Person \/ file' = req'[q].read)
    <3>1. q # r
      BY <2>1, <2>4, EmptyRows DEF Frame
    <3>2. req'[q].stage = req[q].stage /\ req'[q].read = req[q].read
      BY <2>1, <3>1 DEF Frame
    <3>3. lock = q /\ (writer = Person \/ file = req[q].read)
      BY <2>4, <3>2 DEF IndexInv, Holding, RequestAt
    <3> QED
      BY <2>2, <3>1, <3>2, <3>3
  <2> QED
    BY <2>1, <2>2, <2>3, <2>4, OneRequestMoves, EmptyRows
<1>9. CASE BeginSync(r)
  <2> DEFINE b == (InFlight = {})
             rec == [NoRequest EXCEPT !.stage = "check", !.read = file, !.alone = b]
  <2>1. b \in BOOLEAN
    OBVIOUS
  <2> HIDE DEF b
  <2>2. rec \in Requests /\ rec.stage = "check"
    BY <1>1, <2>1, EmptyRows DEF Requests, RequestStages, NoRequest
  <2>3. Move(r, rec) /\ UNCHANGED <<fileVars, workers, cycles, sources, lock>>
    BY <1>9 DEF BeginSync, tableVars, b
  <2> HIDE DEF rec
  <2>4. Fitting(rec)
    BY <2>2 DEF Fitting
  <2>5. Stands(workers, cycles, sources, rec.stage, rec.read, rec.todo, rec.seen)
    BY <2>2 DEF Stands
  <2> QED
    BY <2>2, <2>3, <2>4, <2>5, OnlyMoves
<1> QED
  BY <1>2, <1>4, <1>5, <1>6, <1>7, <1>8, <1>9, Zenon DEF IndexAsk

\* An edit loads the file when it heads the queue and writes what it loaded.
LEMMA EditMoves ==
  ASSUME IndexInv, NEW r \in Request, MutateLoad(r) \/ MutateWrite(r)
  PROVE  IndexInv'
<1> DEFINE p == req[r]
<1>1. p \in Requests /\ file \in ConfigText /\ Tables /\ Fitting(p)
  BY DEF IndexInv, IndexShape
<1>2. CASE MutateLoad(r) /\ p.hash \subseteq {file}
  <2> DEFINE rec == [p EXCEPT !.stage = "write", !.read = file]
  <2>1. rec \in Requests /\ rec.stage = "write" /\ rec.read = file /\ rec.edit = p.edit
    BY <1>1 DEF Requests, RequestStages
  <2>2. Move(r, rec) /\ lock = Nobody /\ lock' = r /\ p.stage = "queue"
    BY <1>2 DEF MutateLoad, RequestAt
  <2>3. /\ file' = file /\ writer' = writer /\ workers' = workers /\ cycles' = cycles
        /\ sources' = sources
    BY <1>2 DEF MutateLoad, fileVars, tableVars
  <2> HIDE DEF rec
  <2>4. Frame(r, rec)
    BY <2>1, <2>2, MoveFrames DEF IndexInv, IndexShape
  <2>5. Fitting(rec)
    BY <1>1, <2>1, <2>2 DEF Fitting
  <2>6. ASSUME NEW q \in Request, req'[q].stage = "write"
        PROVE  lock' = q /\ (writer' = Person \/ file' = req'[q].read)
    <3>1. CASE q = r
      BY <2>1, <2>2, <2>3, <2>4, <3>1 DEF Frame
    <3>2. CASE q # r
      <4>1. RequestAt(q, "write")
        BY <2>4, <2>6, <3>2 DEF Frame, RequestAt
      <4>2. lock = q /\ q # Nobody
        BY <4>1, IndexAssumption DEF IndexInv, Holding
      <4> QED
        BY <2>2, <4>2
    <3> QED
      BY <3>1, <3>2
  <2>7. Stands(workers', cycles', sources', rec.stage, rec.read, rec.todo, rec.seen)
    BY <2>1 DEF Stands
  <2>8. file' \in ConfigText /\ Tables'
    BY <1>1, <2>3 DEF Tables
  <2> QED
    BY <2>4, <2>5, <2>6, <2>7, <2>8, OneRequestMoves
<1>3. CASE MutateLoad(r) /\ ~ p.hash \subseteq {file}
  <2>1. Move(r, NoRequest) /\ UNCHANGED <<fileVars, workers, cycles, sources, lock>>
    BY <1>3 DEF MutateLoad, tableVars
  <2> QED
    BY <2>1, OnlyMoves, EmptyRows
<1>4. CASE MutateWrite(r)
  <2> DEFINE next == Apply(p.edit, p.read)
             rec == [p EXCEPT !.stage = "check", !.read = next]
  <2>1. p.stage = "write" /\ p.edit \in Edits /\ p.read \in ConfigText
    BY <1>1, <1>4 DEF MutateWrite, RequestAt, Fitting, Requests
  <2>2. next \in ConfigText
    BY <2>1, EditedFile
  <2>3. Move(r, rec) /\ file' = next
    BY <1>4 DEF MutateWrite
  <2> HIDE DEF next
  <2>4. rec \in Requests /\ rec.stage = "check"
    BY <1>1, <2>2 DEF Requests, RequestStages
  <2>5. workers' = workers /\ cycles' = cycles /\ sources' = sources
    BY <1>4 DEF MutateWrite, tableVars
  <2> HIDE DEF rec
  <2>6. Frame(r, rec)
    BY <2>3, <2>4, MoveFrames DEF IndexInv, IndexShape
  <2>7. Fitting(rec)
    BY <2>4 DEF Fitting
  <2>8. ASSUME NEW q \in Request, req'[q].stage = "write"
        PROVE  lock' = q /\ (writer' = Person \/ file' = req'[q].read)
    <3>1. q # r
      BY <2>4, <2>6, <2>8 DEF Frame
    <3>2. RequestAt(q, "write") /\ RequestAt(r, "write")
      BY <2>1, <2>6, <2>8, <3>1 DEF Frame, RequestAt
    <3> QED
      BY <3>1, <3>2 DEF IndexInv, Holding
  <2>9. Stands(workers', cycles', sources', rec.stage, rec.read, rec.todo, rec.seen)
    BY <2>4 DEF Stands
  <2>10. file' \in ConfigText /\ Tables'
    BY <1>1, <2>2, <2>3, <2>5 DEF Tables
  <2> QED
    BY <2>6, <2>7, <2>8, <2>9, <2>10, OneRequestMoves
<1> QED
  BY <1>2, <1>3, <1>4

\* The statements of a sync that read, retire jobs or answer.
LEMMA SelectMoves ==
  ASSUME IndexInv, NEW r \in Request,
         \/ Check(r) \/ RecordHash(r) \/ SelectCycles(r) \/ SelectDoomed(r) \/ Answer(r)
         \/ \E n \in req[r].todo : RetireJobs(r, n)
  PROVE  IndexInv'
<1> DEFINE p == req[r]
           F == p.read
<1>1. p \in Requests /\ Tables /\ Fitting(p) /\ Progress(p) /\ F \in ConfigText
  BY DEF IndexInv, IndexShape, Requests
<1>2. F.workers \in Partial(Name, Definition) /\ F.cycles \in Partial(Name, Name)
      /\ F.sources \in Partial(SourceName, Name)
  BY <1>1 DEF ConfigText
<1>3. /\ DOMAIN F.workers \subseteq Name /\ DOMAIN F.cycles \subseteq Name
      /\ DOMAIN workers \subseteq Name /\ DOMAIN cycles \subseteq Name
  BY <1>1, <1>2, PartialShape DEF Tables
<1>4. CASE Check(r) /\ Valid(F)
  <2> DEFINE T == DOMAIN F.workers
             rec == [p EXCEPT !.stage = "workers", !.todo = T]
  <2>1. T \in SUBSET (Name \cup SourceName)
    BY <1>3
  <2>2. Move(r, rec) /\ UNCHANGED <<fileVars, workers, cycles, sources, lock>>
    BY <1>4 DEF Check, tableVars, GoTodo
  <2> HIDE DEF T
  <2>3. rec \in Requests /\ rec.stage = "workers" /\ rec.read = F /\ rec.todo = T
    BY <1>1, <2>1 DEF Requests, RequestStages
  <2> HIDE DEF rec
  <2>4. Fitting(rec)
    BY <2>3 DEF Fitting, T
  <2>5. Stands(workers, cycles, sources, rec.stage, rec.read, rec.todo, rec.seen)
    BY <1>4, <2>3 DEF Stands, T, HasRows, HasCycles
  <2> QED
    BY <2>2, <2>3, <2>4, <2>5, OnlyMoves
<1>5. CASE Check(r) /\ ~ Valid(F)
  <2>1. Move(r, NoRequest) /\ UNCHANGED <<fileVars, workers, cycles, sources, lock>>
    BY <1>5 DEF Check, tableVars
  <2> QED
    BY <2>1, OnlyMoves, EmptyRows
<1>6. CASE RecordHash(r)
  <2> DEFINE T == DOMAIN F.cycles
             rec == [p EXCEPT !.stage = "cycles", !.todo = T]
  <2>1. T \in SUBSET (Name \cup SourceName)
    BY <1>3
  <2>2. /\ Move(r, rec) /\ UNCHANGED <<fileVars, workers, cycles, sources, lock>>
        /\ p.stage = "workers" /\ p.todo = {}
    BY <1>6 DEF RecordHash, tableVars, GoTodo, RequestAt
  <2> HIDE DEF T
  <2>3. /\ rec \in Requests /\ rec.stage = "cycles" /\ rec.read = F /\ rec.todo = T
        /\ rec.alone = p.alone
    BY <1>1, <2>1 DEF Requests, RequestStages
  <2> HIDE DEF rec
  <2>4. Fitting(rec)
    BY <2>3 DEF Fitting, T
  <2>5. ASSUME rec.alone
        PROVE  Stands(workers, cycles, sources, rec.stage, rec.read, rec.todo, rec.seen)
    <3>1. Stands(workers, cycles, sources, "workers", F, {}, p.seen)
      BY <1>1, <2>2, <2>3, <2>5, Zenon DEF Progress
    <3>2. /\ Valid(F) /\ HasRows(workers, F.workers, DOMAIN F.workers)
          /\ HasCycles(cycles, F, DOMAIN F.workers)
      BY <3>1 DEF Stands, HasRows, HasCycles
    <3>3. T \subseteq DOMAIN F.cycles /\ HasCycles(cycles, F, Listed(F) \ T)
      BY <3>2 DEF HasCycles, Listed, T
    <3> QED
      BY <2>3, <3>2, <3>3 DEF Stands
  <2> QED
    BY <2>2, <2>3, <2>4, <2>5, OnlyMoves
<1>7. CASE SelectCycles(r)
  <2> DEFINE X == DOMAIN cycles \ (DOMAIN F.workers \cup DOMAIN F.cycles)
             rec == [p EXCEPT !.stage = "prune", !.seen = X]
  <2>1. X \in SUBSET Name
    BY <1>3
  <2>2. /\ Move(r, rec) /\ UNCHANGED <<fileVars, workers, cycles, sources, lock>>
        /\ p.stage = "cycles" /\ p.todo = {}
    BY <1>7 DEF SelectCycles, tableVars, RequestAt
  <2> HIDE DEF X
  <2>3. /\ rec \in Requests /\ rec.stage = "prune" /\ rec.read = F /\ rec.seen = X
        /\ rec.alone = p.alone
    BY <1>1, <2>1 DEF Requests, RequestStages
  <2> HIDE DEF rec
  <2>4. Fitting(rec)
    BY <2>3 DEF Fitting
  <2>5. ASSUME rec.alone
        PROVE  Stands(workers, cycles, sources, rec.stage, rec.read, rec.todo, rec.seen)
    <3>1. Stands(workers, cycles, sources, "cycles", F, {}, p.seen)
      BY <1>1, <2>2, <2>3, <2>5, Zenon DEF Progress
    <3>2. /\ Valid(F) /\ HasRows(workers, F.workers, DOMAIN F.workers)
          /\ HasCycles(cycles, F, Listed(F))
      BY <3>1 DEF Stands, HasCycles
    <3>3. DOMAIN cycles \subseteq Listed(F) \cup X /\ X \cap Listed(F) = {}
      BY DEF Listed, X
    <3> QED
      BY <2>3, <3>2, <3>3 DEF Stands
  <2> QED
    BY <2>2, <2>3, <2>4, <2>5, OnlyMoves
<1>8. CASE SelectDoomed(r)
  <2> DEFINE T == DOMAIN workers \ DOMAIN F.workers
             rec == [p EXCEPT !.stage = "retire", !.todo = T]
  <2>1. T \in SUBSET (Name \cup SourceName)
    BY <1>3
  <2>2. /\ Move(r, rec) /\ UNCHANGED <<fileVars, workers, cycles, sources, lock>>
        /\ p.stage = "prune" /\ p.seen = {}
    BY <1>8 DEF SelectDoomed, tableVars, GoTodo, RequestAt, Unnamed
  <2> HIDE DEF T
  <2>3. /\ rec \in Requests /\ rec.stage = "retire" /\ rec.read = F /\ rec.todo = T
        /\ rec.alone = p.alone
    BY <1>1, <2>1 DEF Requests, RequestStages
  <2> HIDE DEF rec
  <2>4. Fitting(rec)
    BY <2>3 DEF Fitting
  <2>5. ASSUME rec.alone
        PROVE  Stands(workers, cycles, sources, rec.stage, rec.read, rec.todo, rec.seen)
    <3>1. Stands(workers, cycles, sources, "prune", F, p.todo, {})
      BY <1>1, <2>2, <2>3, <2>5, Zenon DEF Progress
    <3> QED
      BY <2>3, <3>1 DEF Stands
  <2> QED
    BY <2>2, <2>3, <2>4, <2>5, OnlyMoves
<1>9. CASE Answer(r)
  <2>1. Move(r, NoRequest) /\ UNCHANGED <<fileVars, workers, cycles, sources, lock>>
    BY <1>9 DEF Answer, tableVars
  <2> QED
    BY <2>1, OnlyMoves, EmptyRows
<1>10. ASSUME NEW n \in p.todo, RetireJobs(r, n)
       PROVE  IndexInv'
  <2> DEFINE T == p.todo \ {n}
             rec == [p EXCEPT !.todo = T]
  <2>1. T \in SUBSET (Name \cup SourceName)
    BY <1>1 DEF Requests
  <2>2. /\ Move(r, rec) /\ UNCHANGED <<fileVars, workers, cycles, sources, lock>>
        /\ p.stage = "retire"
    BY <1>10 DEF RetireJobs, tableVars, Did, RequestAt
  <2> HIDE DEF T
  <2>3. /\ rec \in Requests /\ rec.stage = "retire" /\ rec.read = F /\ rec.todo = T
        /\ rec.alone = p.alone
    BY <1>1, <2>1, <2>2 DEF Requests, RequestStages
  <2> HIDE DEF rec
  <2>4. Fitting(rec)
    BY <2>3 DEF Fitting
  <2>5. ASSUME rec.alone
        PROVE  Stands(workers, cycles, sources, rec.stage, rec.read, rec.todo, rec.seen)
    <3>1. Stands(workers, cycles, sources, "retire", F, p.todo, p.seen)
      BY <1>1, <2>2, <2>3, <2>5, Zenon DEF Progress
    <3> QED
      BY <2>3, <3>1 DEF Stands
  <2> QED
    BY <2>2, <2>3, <2>4, <2>5, OnlyMoves
<1> QED
  BY <1>4, <1>5, <1>6, <1>7, <1>8, <1>9, <1>10

\* A step that writes rows: the file, its writer and the lock are as they were.
LEMMA RowsMove ==
  ASSUME IndexInv, NEW r \in Request, NEW rec \in Requests, Frame(r, rec), Fitting(rec),
         rec.stage # "write", file' = file, writer' = writer, lock' = lock, Tables',
         rec.alone => Stands(workers', cycles', sources', rec.stage, rec.read, rec.todo, rec.seen)
  PROVE  IndexInv'
<1>1. \A q \in Request : req'[q].stage = "write" =>
        lock' = q /\ (writer' = Person \/ file' = req'[q].read)
  BY Zenon DEF Frame, IndexInv, Holding, RequestAt
<1>2. file' \in ConfigText
  BY DEF IndexInv, IndexShape
<1> QED
  BY <1>1, <1>2, OneRequestMoves

\* The rows of a table, and what one more of them makes.
LEMMA RowAdded ==
  ASSUME NEW S, NEW V, NEW t \in Partial(S, V), NEW n \in S, NEW v \in V
  PROVE  /\ \A rows, A, T : HasRows(t, rows, A \ T) /\ v = rows[n] =>
                              HasRows(Put(t, n, v), rows, A \ (T \ {n}))
         /\ \A F, A, T : HasCycles(t, F, A \ T) /\ v = RowOf(F, n) =>
                           HasCycles(Put(t, n, v), F, A \ (T \ {n}))
<1>1. /\ DOMAIN Put(t, n, v) = DOMAIN t \cup {n} /\ Put(t, n, v)[n] = v
      /\ \A m \in DOMAIN t \ {n} : Put(t, n, v)[m] = t[m]
  BY PutRow
<1> DEFINE u == Put(t, n, v)
<1> HIDE DEF u
<1>2. DOMAIN u = DOMAIN t \cup {n} /\ u[n] = v /\ \A m \in DOMAIN t \ {n} : u[m] = t[m]
  BY <1>1 DEF u
<1>3. ASSUME NEW rows, NEW A, NEW T, HasRows(t, rows, A \ T), v = rows[n]
      PROVE  HasRows(u, rows, A \ (T \ {n}))
  BY <1>2, <1>3 DEF HasRows
<1>4. ASSUME NEW F, NEW A, NEW T, HasCycles(t, F, A \ T), v = RowOf(F, n)
      PROVE  HasCycles(u, F, A \ (T \ {n}))
  <2> DEFINE w(m) == RowOf(F, m)
  <2> HIDE DEF w
  <2>1. \A m \in A \ T : m \in DOMAIN t /\ t[m] = w(m)
    BY <1>4 DEF HasCycles, w
  <2>2. \A m \in A \ (T \ {n}) : m \in DOMAIN u /\ u[m] = w(m)
    <3>1. v = w(n)
      BY <1>4 DEF w
    <3> QED
      BY <2>1, <3>1, <1>2
  <2> QED
    BY <2>2 DEF HasCycles, w
<1> QED
  BY <1>3, <1>4 DEF u

\* The statements that insert or update a row.
LEMMA UpsertMoves ==
  ASSUME IndexInv, NEW r \in Request, NEW n \in req[r].todo,
         UpsertWorker(r, n) \/ UpsertCycle(r, n) \/ UpsertSource(r, n)
  PROVE  IndexInv'
<1> DEFINE p == req[r]
           F == p.read
           T == p.todo \ {n}
           rec == [p EXCEPT !.todo = T]
<1>1. /\ p \in Requests /\ Tables /\ Fitting(p) /\ Progress(p) /\ F \in ConfigText
      /\ req \in [Request -> Requests]
  BY DEF IndexInv, IndexShape, Requests
<1>2. F.workers \in Partial(Name, Definition) /\ F.cycles \in Partial(Name, Name)
      /\ F.sources \in Partial(SourceName, Name)
  BY <1>1 DEF ConfigText
<1>3. T \in SUBSET (Name \cup SourceName)
  BY <1>1 DEF Requests
<1>4. Move(r, rec) /\ file' = file /\ writer' = writer /\ lock' = lock
  BY DEF UpsertWorker, UpsertCycle, UpsertSource, Did, fileVars
<1> HIDE DEF T
<1>5. /\ rec \in Requests /\ rec.stage = p.stage /\ rec.read = F /\ rec.todo = T
      /\ rec.alone = p.alone /\ rec.seen = p.seen
  BY <1>1, <1>3 DEF Requests
<1> HIDE DEF rec
<1>6. Frame(r, rec)
  BY <1>1, <1>4, <1>5, MoveFrames
<1>7. T \subseteq p.todo
  BY DEF T
<1>8. CASE UpsertWorker(r, n)
  <2>1. /\ p.stage = "workers" /\ workers' = Put(workers, n, F.workers[n])
        /\ cycles' = Put(cycles, n, Single) /\ sources' = sources
    BY <1>8 DEF UpsertWorker, RequestAt
  <2>2. n \in DOMAIN F.workers /\ n \in Name /\ F.workers[n] \in Definition
    BY <1>1, <1>2, <2>1, PartialShape DEF Fitting
  <2>3. Tables'
    BY <1>1, <2>1, <2>2, PutRow DEF Tables
  <2>4. Fitting(rec)
    BY <1>1, <1>5, <1>7, <2>1 DEF Fitting
  <2>5. ASSUME rec.alone
        PROVE  Stands(workers', cycles', sources', rec.stage, rec.read, rec.todo, rec.seen)
    <3>1. Stands(workers, cycles, sources, "workers", F, p.todo, p.seen)
      BY <1>1, <1>5, <2>1, <2>5, Zenon DEF Progress
    <3>2. /\ Valid(F) /\ HasRows(workers, F.workers, DOMAIN F.workers \ p.todo)
          /\ HasCycles(cycles, F, DOMAIN F.workers \ p.todo)
      BY <3>1 DEF Stands
    <3>3. Single = RowOf(F, n)
      BY <2>2, <3>2 DEF RowOf, Valid
    <3>4. HasRows(workers', F.workers, DOMAIN F.workers \ T)
      <4>1. \A rows, A, U : HasRows(workers, rows, A \ U) /\ F.workers[n] = rows[n] =>
                              HasRows(Put(workers, n, F.workers[n]), rows, A \ (U \ {n}))
        BY <1>1, <2>2, RowAdded DEF Tables
      <4> QED
        BY <2>1, <3>2, <4>1, Zenon DEF T
    <3>5. HasCycles(cycles', F, DOMAIN F.workers \ T)
      <4> DEFINE v == Single
      <4>2. v \in Name \cup {Single} /\ cycles \in Partial(Name, Name \cup {Single}) /\ n \in Name
        BY <1>1, <2>2 DEF Tables
      <4> HIDE DEF v
      <4>1. \A G, A, U : HasCycles(cycles, G, A \ U) /\ v = RowOf(G, n) =>
                           HasCycles(Put(cycles, n, v), G, A \ (U \ {n}))
        BY <4>2, RowAdded, Zenon
      <4> QED
        BY <2>1, <3>2, <3>3, <4>1, Zenon DEF T, v, v
    <3> QED
      BY <1>5, <2>1, <3>2, <3>4, <3>5 DEF Stands
  <2> QED
    BY <1>4, <1>5, <1>6, <2>1, <2>3, <2>4, <2>5, RowsMove
<1>9. CASE UpsertCycle(r, n)
  <2>1. /\ p.stage = "cycles" /\ cycles' = Put(cycles, n, F.cycles[n])
        /\ workers' = workers /\ sources' = sources
    BY <1>9 DEF UpsertCycle, RequestAt
  <2>2. n \in DOMAIN F.cycles /\ n \in Name /\ F.cycles[n] \in Name
    BY <1>1, <1>2, <2>1, PartialShape DEF Fitting
  <2>3. Tables'
    BY <1>1, <2>1, <2>2, PutRow DEF Tables
  <2>4. Fitting(rec)
    BY <1>1, <1>5, <1>7, <2>1 DEF Fitting
  <2>5. ASSUME rec.alone
        PROVE  Stands(workers', cycles', sources', rec.stage, rec.read, rec.todo, rec.seen)
    <3>1. Stands(workers, cycles, sources, "cycles", F, p.todo, p.seen)
      BY <1>1, <1>5, <2>1, <2>5, Zenon DEF Progress
    <3>2. /\ Valid(F) /\ HasRows(workers, F.workers, DOMAIN F.workers)
          /\ HasCycles(cycles, F, Listed(F) \ p.todo)
      BY <3>1 DEF Stands
    <3>3. F.cycles[n] = RowOf(F, n)
      BY <2>2 DEF RowOf
    <3>4. HasCycles(cycles', F, Listed(F) \ T)
      <4> DEFINE v == F.cycles[n]
      <4>2. v \in Name \cup {Single} /\ cycles \in Partial(Name, Name \cup {Single}) /\ n \in Name
        BY <1>1, <2>2 DEF Tables
      <4> HIDE DEF v
      <4>1. \A G, A, U : HasCycles(cycles, G, A \ U) /\ v = RowOf(G, n) =>
                           HasCycles(Put(cycles, n, v), G, A \ (U \ {n}))
        BY <4>2, RowAdded, Zenon
      <4> QED
        BY <2>1, <3>2, <3>3, <4>1, Zenon DEF T, v, v
    <3> QED
      BY <1>5, <1>7, <2>1, <3>2, <3>4 DEF Stands
  <2> QED
    BY <1>4, <1>5, <1>6, <2>1, <2>3, <2>4, <2>5, RowsMove
<1>10. CASE UpsertSource(r, n)
  <2>1. /\ p.stage = "sources" /\ sources' = Put(sources, n, F.sources[n])
        /\ workers' = workers /\ cycles' = cycles
    BY <1>10 DEF UpsertSource, RequestAt
  <2>2. n \in DOMAIN F.sources /\ n \in SourceName /\ F.sources[n] \in Name
    BY <1>1, <1>2, <2>1, PartialShape DEF Fitting
  <2>3. Tables'
    BY <1>1, <2>1, <2>2, PutRow DEF Tables
  <2>4. Fitting(rec)
    BY <1>1, <1>5, <1>7, <2>1 DEF Fitting
  <2>5. ASSUME rec.alone
        PROVE  Stands(workers', cycles', sources', rec.stage, rec.read, rec.todo, rec.seen)
    <3>1. Stands(workers, cycles, sources, "sources", F, p.todo, p.seen)
      BY <1>1, <1>5, <2>1, <2>5, Zenon DEF Progress
    <3>2. /\ workers = F.workers /\ CyclesAreIts(cycles, F)
          /\ HasRows(sources, F.sources, DOMAIN F.sources \ p.todo)
      BY <3>1 DEF Stands
    <3>3. HasRows(sources', F.sources, DOMAIN F.sources \ T)
      <4>1. \A rows, A, U : HasRows(sources, rows, A \ U) /\ F.sources[n] = rows[n] =>
                              HasRows(Put(sources, n, F.sources[n]), rows, A \ (U \ {n}))
        BY <1>1, <2>2, RowAdded DEF Tables
      <4> QED
        BY <2>1, <3>2, <4>1, Zenon DEF T
    <3> QED
      BY <1>5, <2>1, <3>2, <3>3 DEF Stands
  <2> QED
    BY <1>4, <1>5, <1>6, <2>1, <2>3, <2>4, <2>5, RowsMove
<1> QED
  BY <1>8, <1>9, <1>10

\* The statements that delete rows.
LEMMA DeleteMoves ==
  ASSUME IndexInv, NEW r \in Request,
         \/ DeleteWorkers(r) \/ ForgetCycles(r) \/ DeleteSources(r)
         \/ \E n \in req[r].seen : PruneCycle(r, n)
  PROVE  IndexInv'
<1> DEFINE p == req[r]
           F == p.read
<1>1. /\ p \in Requests /\ Tables /\ Fitting(p) /\ Progress(p) /\ F \in ConfigText
      /\ req \in [Request -> Requests]
  BY DEF IndexInv, IndexShape, Requests
<1>2. F.workers \in Partial(Name, Definition) /\ F.cycles \in Partial(Name, Name)
      /\ F.sources \in Partial(SourceName, Name)
  BY <1>1 DEF ConfigText
<1>3. /\ workers \in Partial(Name, Definition) /\ cycles \in Partial(Name, Name \cup {Single})
      /\ sources \in Partial(SourceName, Name) /\ DOMAIN workers \subseteq Name
  BY <1>1, PartialShape DEF Tables
<1>4. p.seen \subseteq Name /\ p.todo \subseteq Name \cup SourceName
  BY <1>1 DEF Requests
<1>5. CASE DeleteWorkers(r)
  <2> DEFINE X == DOMAIN workers \ DOMAIN F.workers
             rec == [p EXCEPT !.stage = "forget", !.seen = X]
  <2>1. /\ Move(r, rec) /\ workers' = Without(workers, X) /\ cycles' = cycles /\ sources' = sources
        /\ p.stage = "retire" /\ file' = file /\ writer' = writer /\ lock' = lock
    BY <1>5 DEF DeleteWorkers, fileVars, RequestAt, Unnamed
  <2>2. X \in SUBSET Name /\ X \cap DOMAIN F.workers = {}
    BY <1>3
  <2>3. /\ workers' \in Partial(Name, Definition)
        /\ DOMAIN workers' = DOMAIN workers \cap DOMAIN F.workers
        /\ \A n \in DOMAIN workers' : workers'[n] = workers[n]
    <3> DEFINE D == DOMAIN workers \cap DOMAIN F.workers
    <3>1. DOMAIN workers \ X = D /\ D \in SUBSET DOMAIN workers
      OBVIOUS
    <3>2. workers' = Restrict(workers, D)
      BY <2>1, <3>1, Zenon DEF Without
    <3> HIDE DEF D
    <3>3. /\ workers' \in Partial(Name, Definition) /\ DOMAIN workers' = D
          /\ \A n \in D : workers'[n] = workers[n]
      BY <1>3, <3>1, <3>2, KeptRows
    <3> QED
      BY <3>3 DEF D
  <2> HIDE DEF X
  <2>4. /\ rec \in Requests /\ rec.stage = "forget" /\ rec.read = F /\ rec.seen = X
        /\ rec.alone = p.alone
    BY <1>1, <2>2 DEF Requests, RequestStages
  <2> HIDE DEF rec
  <2>5. Frame(r, rec)
    BY <1>1, <2>1, <2>4, MoveFrames
  <2>6. Tables'
    BY <1>3, <2>1, <2>3 DEF Tables
  <2>7. Fitting(rec)
    BY <2>4 DEF Fitting
  <2>8. ASSUME rec.alone
        PROVE  Stands(workers', cycles', sources', rec.stage, rec.read, rec.todo, rec.seen)
    <3>1. Stands(workers, cycles, sources, "retire", F, p.todo, p.seen)
      BY <1>1, <2>1, <2>4, <2>8, Zenon DEF Progress
    <3>2. /\ HasRows(workers, F.workers, DOMAIN F.workers) /\ HasCycles(cycles, F, Listed(F))
          /\ DOMAIN cycles \subseteq Listed(F)
      BY <3>1 DEF Stands
    <3>3. workers' = F.workers
      <4>1. DOMAIN F.workers \subseteq DOMAIN workers
            /\ \A n \in DOMAIN F.workers : workers[n] = F.workers[n]
        BY <3>2 DEF HasRows
      <4>2. DOMAIN workers' = DOMAIN F.workers /\ \A n \in DOMAIN workers' : workers'[n] = F.workers[n]
        BY <2>3, <4>1
      <4> QED
        BY <1>2, <2>3, <4>2, SameRows
    <3> QED
      BY <2>1, <2>2, <2>4, <3>2, <3>3 DEF Stands
  <2> QED
    BY <2>1, <2>4, <2>5, <2>6, <2>7, <2>8, RowsMove
<1>6. CASE ForgetCycles(r)
  <2> DEFINE X == p.seen
             T == DOMAIN F.sources
             rec == [p EXCEPT !.stage = "sources", !.seen = {}, !.todo = T]
  <2>1. /\ DeleteCycles(r, X, rec) /\ workers' = workers /\ sources' = sources
        /\ p.stage = "forget" /\ file' = file /\ writer' = writer /\ lock' = lock
    BY <1>6 DEF ForgetCycles, fileVars, RequestAt
  <2>2. T \in SUBSET (Name \cup SourceName)
    BY <1>2, PartialShape
  <2>3. /\ cycles' \in Partial(Name, Name \cup {Single}) /\ DOMAIN cycles' = DOMAIN cycles \ X
        /\ \A n \in DOMAIN cycles' : cycles'[n] = cycles[n]
    <3>1. cycles' = Restrict(cycles, DOMAIN cycles \ X)
      BY <2>1 DEF DeleteCycles, Without
    <3> QED
      BY <1>3, <3>1, KeptRows
  <2> HIDE DEF T
  <2>4. /\ rec \in Requests /\ rec.stage = "sources" /\ rec.read = F /\ rec.todo = T
        /\ rec.alone = p.alone
    BY <1>1, <2>2 DEF Requests, RequestStages
  <2> HIDE DEF rec
  <2>5. Frame(r, rec)
    BY <1>1, <2>1, <2>4, DeleteFrames
  <2>6. Tables'
    BY <1>3, <2>1, <2>3 DEF Tables
  <2>7. Fitting(rec)
    BY <2>4 DEF Fitting, T
  <2>8. ASSUME rec.alone
        PROVE  Stands(workers', cycles', sources', rec.stage, rec.read, rec.todo, rec.seen)
    <3>1. Stands(workers, cycles, sources, "forget", F, p.todo, X)
      BY <1>1, <2>1, <2>4, <2>8, Zenon DEF Progress
    <3>2. /\ HasCycles(cycles, F, Listed(F)) /\ DOMAIN cycles \subseteq Listed(F)
          /\ X \cap DOMAIN F.workers = {} /\ workers = F.workers
      BY <3>1 DEF Stands
    <3>3. CyclesAreIts(cycles', F)
      <4> DEFINE w(n) == RowOf(F, n)
                 W == DOMAIN F.workers
                 C == DOMAIN F.cycles
      <4> HIDE DEF w, W, C, X
      <4>1. /\ \A n \in W \cup C : n \in DOMAIN cycles /\ cycles[n] = w(n)
            /\ DOMAIN cycles \subseteq W \cup C /\ X \cap W = {}
        BY <3>2 DEF HasCycles, Listed, w, W, C
      <4>2. /\ DOMAIN cycles' \subseteq W \cup C
            /\ \A n \in W \cup C : \/ n \in DOMAIN cycles' /\ cycles'[n] = w(n)
                                   \/ n \notin DOMAIN cycles' /\ n \in C
        BY <2>3, <4>1
      <4> QED
        BY <4>2 DEF CyclesAreIts, Listed, w, W, C
    <3>4. HasRows(sources', F.sources, DOMAIN F.sources \ T)
      BY DEF HasRows, T
    <3> QED
      BY <2>1, <2>4, <3>2, <3>3, <3>4 DEF Stands
  <2> QED
    BY <2>1, <2>4, <2>5, <2>6, <2>7, <2>8, RowsMove
<1>7. CASE DeleteSources(r)
  <2> DEFINE rec == [p EXCEPT !.stage = "done"]
             D == DOMAIN sources \cap DOMAIN F.sources
  <2>1. /\ Move(r, rec) /\ workers' = workers /\ cycles' = cycles
        /\ sources' = Restrict(sources, D) /\ p.todo = {}
        /\ p.stage = "sources" /\ file' = file /\ writer' = writer /\ lock' = lock
    BY <1>7 DEF DeleteSources, fileVars, RequestAt, RequestTo
  <2>2. /\ sources' \in Partial(SourceName, Name) /\ DOMAIN sources' = D
        /\ \A n \in D : sources'[n] = sources[n]
    BY <1>3, <2>1, KeptRows
  <2>3. rec \in Requests /\ rec.stage = "done" /\ rec.read = F /\ rec.alone = p.alone
    BY <1>1 DEF Requests, RequestStages
  <2> HIDE DEF rec
  <2>4. Frame(r, rec)
    BY <1>1, <2>1, <2>3, MoveFrames
  <2>5. Tables'
    BY <1>3, <2>1, <2>2 DEF Tables
  <2>6. Fitting(rec)
    BY <2>3 DEF Fitting
  <2>7. ASSUME rec.alone
        PROVE  Stands(workers', cycles', sources', rec.stage, rec.read, rec.todo, rec.seen)
    <3>1. Stands(workers, cycles, sources, "sources", F, {}, p.seen)
      BY <1>1, <2>1, <2>3, <2>7, Zenon DEF Progress
    <3>2. /\ workers = F.workers /\ CyclesAreIts(cycles, F)
          /\ HasRows(sources, F.sources, DOMAIN F.sources \ {})
      BY <3>1 DEF Stands
    <3>3. sources' = F.sources
      <4>1. \A n \in DOMAIN F.sources : n \in DOMAIN sources /\ sources[n] = F.sources[n]
        BY <3>2 DEF HasRows
      <4>2. DOMAIN sources' = DOMAIN F.sources /\ \A n \in DOMAIN sources' : sources'[n] = F.sources[n]
        BY <2>2, <4>1
      <4> QED
        BY <1>2, <2>2, <4>2, SameRows
    <3> QED
      BY <2>1, <2>3, <3>2, <3>3 DEF Stands
  <2> QED
    BY <2>1, <2>3, <2>4, <2>5, <2>6, <2>7, RowsMove
<1>8. ASSUME NEW n \in p.seen, PruneCycle(r, n)
      PROVE  IndexInv'
  <2> DEFINE X == p.seen \ {n}
             rec == [p EXCEPT !.seen = X]
  <2>1. /\ DeleteCycles(r, {n}, rec) /\ workers' = workers /\ sources' = sources
        /\ p.stage = "prune" /\ file' = file /\ writer' = writer /\ lock' = lock
    BY <1>8 DEF PruneCycle, fileVars, RequestAt
  <2>2. X \in SUBSET Name
    BY <1>4
  <2>3. /\ cycles' \in Partial(Name, Name \cup {Single}) /\ DOMAIN cycles' = DOMAIN cycles \ {n}
        /\ \A m \in DOMAIN cycles' : cycles'[m] = cycles[m]
    <3>1. cycles' = Restrict(cycles, DOMAIN cycles \ {n})
      BY <2>1 DEF DeleteCycles, Without
    <3> QED
      BY <1>3, <3>1, KeptRows
  <2> HIDE DEF X
  <2>4. /\ rec \in Requests /\ rec.stage = "prune" /\ rec.read = F /\ rec.seen = X
        /\ rec.alone = p.alone
    BY <1>1, <2>1, <2>2 DEF Requests, RequestStages
  <2> HIDE DEF rec
  <2>5. Frame(r, rec)
    BY <1>1, <2>1, <2>4, DeleteFrames
  <2>6. Tables'
    BY <1>3, <2>1, <2>3 DEF Tables
  <2>7. Fitting(rec)
    BY <2>4 DEF Fitting
  <2>8. ASSUME rec.alone
        PROVE  Stands(workers', cycles', sources', rec.stage, rec.read, rec.todo, rec.seen)
    <3>1. Stands(workers, cycles, sources, "prune", F, p.todo, p.seen)
      BY <1>1, <2>1, <2>4, <2>8, Zenon DEF Progress
    <3>2. /\ Valid(F) /\ HasRows(workers, F.workers, DOMAIN F.workers)
          /\ HasCycles(cycles, F, Listed(F))
          /\ DOMAIN cycles \subseteq Listed(F) \cup p.seen /\ p.seen \cap Listed(F) = {}
      BY <3>1 DEF Stands
    <3>3. DOMAIN cycles' \subseteq Listed(F) \cup X /\ X \cap Listed(F) = {}
      BY <2>3, <3>2 DEF X
    <3>4. HasCycles(cycles', F, Listed(F))
      <4> DEFINE w(m) == RowOf(F, m)
                 L == Listed(F)
      <4> HIDE DEF w, L
      <4>1. (\A m \in L : m \in DOMAIN cycles /\ cycles[m] = w(m)) /\ n \notin L
        BY <1>8, <3>2 DEF HasCycles, w, L
      <4>2. \A m \in L : m \in DOMAIN cycles' /\ cycles'[m] = w(m)
        BY <2>3, <4>1
      <4> QED
        BY <4>2 DEF HasCycles, w, L
    <3> QED
      BY <2>1, <2>4, <3>2, <3>3, <3>4 DEF Stands
  <2> QED
    BY <2>1, <2>4, <2>5, <2>6, <2>7, <2>8, RowsMove
<1> QED
  BY <1>5, <1>6, <1>7, <1>8

-----------------------------------------------------------------------------
\* Every step keeps the invariant, whoever takes it.
LEMMA IndexNextKeeps == IndexInv /\ [IndexNext]_indexVars => IndexInv'
<1> SUFFICES ASSUME IndexInv, [IndexNext]_indexVars PROVE IndexInv'
  OBVIOUS
<1>1. ASSUME NEW r \in Request, IndexStep(r)
      PROVE  IndexInv'
  BY <1>1, EditMoves, SelectMoves, UpsertMoves, DeleteMoves, Zenon DEF IndexStep
<1>2. ASSUME NEW r \in Request, IndexAsk(r) \/ BeginSync(r)
      PROVE  IndexInv'
  BY <1>2, AskingMoves
<1>3. ASSUME NEW f \in HandEdit, HandWrite(f)
      PROVE  IndexInv'
  <2>1. /\ file' = f /\ writer' = Person /\ lock' = lock
        /\ workers' = workers /\ cycles' = cycles /\ sources' = sources
        /\ req' = [r \in Request |-> [req[r] EXCEPT !.alone = FALSE]]
    BY <1>3 DEF HandWrite, tableVars
  <2>2. ASSUME NEW r \in Request
        PROVE  /\ req'[r] \in Requests /\ req'[r].stage = req[r].stage
               /\ req'[r].edit = req[r].edit /\ req'[r].read = req[r].read
               /\ req'[r].todo = req[r].todo /\ req'[r].alone = FALSE
    <3>1. req'[r] = [req[r] EXCEPT !.alone = FALSE] /\ req[r] \in Requests
      BY <2>1 DEF IndexInv, IndexShape
    <3> QED
      BY <3>1 DEF Requests
  <2>3. req' \in [Request -> Requests]
    BY <2>1, <2>2
  <2>4. \A r \in Request : Fitting(req'[r])
    BY <2>2, Zenon DEF IndexInv, IndexShape, Fitting
  <2>5. file' \in ConfigText /\ Tables'
    BY <2>1, IndexAssumption DEF Tables, IndexInv, IndexShape
  <2>6. IndexShape'
    BY <2>3, <2>4, <2>5 DEF IndexShape, Fitting
  <2>7. Holding'
    BY <2>1, <2>2, Zenon DEF Holding, RequestAt, IndexInv
  <2> QED
    BY <2>2, <2>6, <2>7 DEF IndexInv, Progress
<1>4. ASSUME NEW n \in Name, QueueJob(n)
      PROVE  IndexInv'
  BY <1>4 DEF QueueJob, fileVars, tableVars, IndexInv, IndexShape, Tables, Holding, Progress,
              RequestAt
<1>5. CASE UNCHANGED indexVars
  BY <1>5 DEF indexVars, IndexInv, IndexShape, Tables, Holding, Progress, RequestAt
<1> QED
  BY <1>1, <1>2, <1>3, <1>4, <1>5, Zenon DEF IndexNext

\* Whatever requests, crashes and people do, a sync that ran by itself has left
\* the rows the file asks for (reindexProject).
THEOREM SyncConverges == IndexSpec => []SyncAloneIndexesTheFile
<1>1. IndexInv => SyncAloneIndexesTheFile
  <2> SUFFICES ASSUME IndexInv, NEW r \in Request, RequestAt(r, "done"), req[r].alone
               PROVE  LET F == req[r].read
                      IN  /\ workers = F.workers /\ sources = F.sources
                          /\ \A n \in DOMAIN Rows(F).cycles :
                               \/ n \in DOMAIN cycles /\ cycles[n] = Rows(F).cycles[n]
                               \/ n \notin DOMAIN cycles /\ n \in DOMAIN F.cycles
                          /\ DOMAIN cycles \subseteq DOMAIN Rows(F).cycles
    BY Zenon DEF SyncAloneIndexesTheFile
  <2> DEFINE F == req[r].read
  <2>1. Stands(workers, cycles, sources, "done", F, req[r].todo, req[r].seen)
    BY Zenon DEF IndexInv, Progress, RequestAt
  <2>2. workers = F.workers /\ sources = F.sources /\ CyclesAreIts(cycles, F)
    BY <2>1 DEF Stands
  <2>3. DOMAIN Rows(F).cycles = Listed(F) /\ \A n \in Listed(F) : Rows(F).cycles[n] = RowOf(F, n)
    BY DEF Rows, Listed, RowOf
  <2> QED
    BY <2>2, <2>3 DEF CyclesAreIts
<1> QED
  BY <1>1, FirstIndex, IndexNextKeeps, PTL DEF IndexSpec

\* An edit made in the UI replaces only the file it was applied to: the queue of
\* config-store.ts lets no other write come between (mutate, serialize).
THEOREM EditsSurvive == IndexSpec => NoEditErasesAnother
<1>1. ASSUME IndexInv, [IndexNext]_indexVars, NEW r \in Request, writer' = r, writes' # writes
      PROVE  writer = Person \/ file = req[r].read
  <2>1. r # Person
    BY IndexAssumption
  <2>2. ASSUME writer' = writer /\ writes' = writes
        PROVE  FALSE
    BY <1>1, <2>2
  <2>3. ASSUME NEW q \in Request, MutateWrite(q)
        PROVE  writer = Person \/ file = req[r].read
    BY <1>1, <2>3 DEF MutateWrite, IndexInv, Holding
  <2>4. ASSUME NEW q \in Request, IndexStep(q) \/ IndexAsk(q) \/ BeginSync(q), ~ MutateWrite(q)
        PROVE  writer' = writer /\ writes' = writes
    BY <2>4 DEF IndexStep, IndexAsk, BeginSync, MutateLoad, Check, RecordHash, SelectCycles,
                SelectDoomed, DeleteWorkers, ForgetCycles, DeleteSources, Answer, UpsertWorker,
                UpsertCycle, RetireJobs, UpsertSource, PruneCycle, OpenPage, Abandon, Submits,
                SubmitCreate, SubmitPatch, SubmitDelete, SubmitSource, fileVars
  <2>5. ASSUME NEW f \in HandEdit, HandWrite(f)
        PROVE  writer' = Person
    BY <2>5 DEF HandWrite
  <2>6. ASSUME NEW n \in Name, QueueJob(n)
        PROVE  writer' = writer /\ writes' = writes
    BY <2>6 DEF QueueJob, fileVars
  <2>7. CASE UNCHANGED indexVars
    BY <2>2, <2>7 DEF indexVars
  <2> QED
    BY <1>1, <2>1, <2>2, <2>3, <2>4, <2>5, <2>6, <2>7, Zenon DEF IndexNext
<1>2. IndexInv /\ [IndexNext]_indexVars =>
        [\A r \in Request : writer' = r /\ writes' # writes =>
           writer = Person \/ file = req[r].read]_indexVars
  BY <1>1
<1> QED
  BY <1>2, FirstIndex, IndexNextKeeps, PTL DEF IndexSpec, NoEditErasesAnother

-----------------------------------------------------------------------------
(* The inbox of findings (findings.ts, suppression.ts).                    *)

\* What a writer may hold between its read and its commit.
Rulers == {1, 2} \X Finding \X (Verdict \cup Merge)
Sightings ==
  [kind : {"publish", "suppress", "lapse"}, seen : Finding, row : Finding, severity : Severity,
   evidence : BOOLEAN]
Documents == [kind : {"verdicts"}, rulings : SUBSET Rulers]
Patches ==
  [kind : {"patch"}, row : Finding, status : Statuses, severity : Severity, snippet : BOOLEAN]
Plans == Sightings \cup Documents \cup Patches \cup {NoPlan}

\* The types.
InboxShape ==
  /\ inbox \in [Finding -> InboxRow] /\ plan \in [Writer -> Plans]
  /\ moved \in [Writer -> SUBSET Finding]

\* A verdict spares what was dismissed when it was read.
Judged(w) ==
  plan[w].kind = "verdicts" =>
    \A r \in plan[w].rulings : r[2] \notin moved[w] => inbox[r[2]].status # "wontfix"

\* A document nobody's commit has overtaken is what it would be if it were read now.
Current(w) ==
  plan[w].kind = "verdicts" /\ moved[w] = {} =>
    \E f, g \in Finding, v, u \in Verdict \cup Merge : plan[w].rulings = Rulings(f, v, g, u)

\* The inductive invariant of the inbox.
InboxInv == InboxShape /\ \A w \in Writer : Judged(w) /\ Current(w)

\* What a document rules on was not dismissed when it was read.
LEMMA RulingsFit ==
  ASSUME NEW f \in Finding, NEW g \in Finding, NEW v \in Verdict \cup Merge,
         NEW u \in Verdict \cup Merge, inbox \in [Finding -> InboxRow]
  PROVE  /\ Rulings(f, v, g, u) \subseteq Rulers
         /\ \A r \in Rulings(f, v, g, u) : inbox[r[2]].status # "wontfix"
<1> DEFINE read == [h \in Finding |-> inbox[h].status]
           next == AfterVerdict(read, f, v)
           one == <<1, f, v>>
           two == <<2, g, u>>
<1>1. one \in Rulers /\ two \in Rulers
  BY DEF Rulers
<1>2. Rulings(f, v, g, u) = {r \in {one, two} : IF r[1] = 1 THEN Accepted(read, f, v)
                                                ELSE Accepted(next, g, u)}
  BY Zenon DEF Rulings
<1>3. Accepted(read, f, v) => inbox[f].status # "wontfix"
  BY DEF Accepted
<1>4. Accepted(next, g, u) => inbox[g].status # "wontfix"
  <2>1. CASE next = read
    BY <2>1 DEF Accepted
  <2>2. CASE Accepted(read, f, v) /\ f = g
    BY <1>3, <2>2
  <2>3. CASE Accepted(read, f, v) /\ f # g
    <3>1. next[g] = read[g]
      BY <2>3 DEF AfterVerdict
    <3> HIDE DEF next
    <3> QED
      BY <3>1 DEF Accepted
  <2> QED
    BY <2>1, <2>2, <2>3 DEF AfterVerdict
<1>5. one[1] = 1 /\ one[2] = f /\ two[1] = 2 /\ two[2] = g
  OBVIOUS
<1> HIDE DEF one, two, read, next
<1> QED
  BY <1>1, <1>2, <1>3, <1>4, <1>5

\* What a writer begins with is sound, and leaves the others alone.
LEMMA BeginKeeps ==
  ASSUME InboxInv, NEW w \in Writer, NEW p \in Plans, Begin(w, p),
         p.kind = "verdicts" =>
           /\ \A r \in p.rulings : inbox[r[2]].status # "wontfix"
           /\ \E f, g \in Finding, v, u \in Verdict \cup Merge : p.rulings = Rulings(f, v, g, u)
  PROVE  InboxInv'
<1>1. /\ plan' = [plan EXCEPT ![w] = p] /\ moved' = [moved EXCEPT ![w] = {}] /\ inbox' = inbox
      /\ InboxShape
  BY DEF Begin, InboxInv
<1>2. /\ plan' \in [Writer -> Plans] /\ moved' \in [Writer -> SUBSET Finding]
      /\ plan'[w] = p /\ moved'[w] = {}
      /\ \A v \in Writer \ {w} : plan'[v] = plan[v] /\ moved'[v] = moved[v]
  BY <1>1 DEF InboxShape
<1>3. InboxShape'
  BY <1>1, <1>2 DEF InboxShape
<1>4. ASSUME NEW x \in Writer
      PROVE  Judged(x)'
  BY <1>1, <1>2 DEF Judged, InboxInv
<1>5. ASSUME NEW x \in Writer
      PROVE  Current(x)'
  <2> SUFFICES ASSUME plan'[x].kind = "verdicts", moved'[x] = {}
               PROVE  \E f, g \in Finding, v, u \in Verdict \cup Merge :
                        plan'[x].rulings = Rulings(f, v, g, u)'
    BY DEF Current
  <2>1. PICK f, g \in Finding, v, u \in Verdict \cup Merge : plan'[x].rulings = Rulings(f, v, g, u)
    <3>1. CASE x = w
      BY <1>2, <3>1, Zenon
    <3>2. CASE x # w
      <4>1. plan[x].kind = "verdicts" /\ moved[x] = {} /\ plan'[x] = plan[x]
        BY <1>2, <3>2
      <4>2. Current(x)
        BY DEF InboxInv
      <4>3. \E f, g \in Finding, v, u \in Verdict \cup Merge : plan[x].rulings = Rulings(f, v, g, u)
        BY <4>1, <4>2 DEF Current
      <4> QED
        BY <4>1, <4>3
    <3> QED
      BY <3>1, <3>2
  <2>2. Rulings(f, v, g, u)' = Rulings(f, v, g, u)
    BY <1>1 DEF Rulings
  <2> QED
    BY <2>1, <2>2, Zenon
<1> QED
  BY <1>3, <1>4, <1>5 DEF InboxInv

\* ... and so is what it commits.
LEMMA CommitKeeps ==
  ASSUME InboxInv, NEW w \in Writer, NEW rows \in [Finding -> InboxRow], Commit(w, rows)
  PROVE  InboxInv'
<1>1. /\ inbox' = rows /\ plan' = [plan EXCEPT ![w] = NoPlan] /\ InboxShape
      /\ moved' = [v \in Writer |->
                     IF plan[v] = NoPlan \/ v = w THEN {}
                     ELSE moved[v] \cup {f \in Finding : rows[f] # inbox[f]}]
  BY DEF Commit, InboxInv
<1>2. NoPlan \in Plans /\ NoPlan.kind = "none"
  BY DEF Plans, NoPlan
<1>3. plan' \in [Writer -> Plans] /\ plan'[w] = NoPlan /\ \A v \in Writer \ {w} : plan'[v] = plan[v]
  BY <1>1, <1>2 DEF InboxShape
<1>4. moved' \in [Writer -> SUBSET Finding]
  BY <1>1 DEF InboxShape
<1>5. InboxShape'
  BY <1>1, <1>3, <1>4 DEF InboxShape
<1>6. ASSUME NEW x \in Writer, plan'[x].kind = "verdicts"
      PROVE  /\ x # w /\ plan'[x] = plan[x]
             /\ moved'[x] = moved[x] \cup {f \in Finding : rows[f] # inbox[f]}
  <2>1. x # w /\ plan[x] # NoPlan
    BY <1>2, <1>3, <1>6
  <2> QED
    BY <1>1, <1>3, <2>1
<1>7. ASSUME NEW x \in Writer, plan'[x].kind = "verdicts"
      PROVE  plan[x].rulings \subseteq Rulers
  <2>1. plan[x] \in Plans /\ plan[x].kind = "verdicts"
    BY <1>1, <1>6, <1>7 DEF InboxShape
  <2> QED
    BY <2>1 DEF Plans, Sightings, Documents, Patches, NoPlan
<1>8. ASSUME NEW x \in Writer
      PROVE  Judged(x)'
  <2> SUFFICES ASSUME plan'[x].kind = "verdicts", NEW r \in plan'[x].rulings, r[2] \notin moved'[x]
               PROVE  inbox'[r[2]].status # "wontfix"
    BY DEF Judged
  <2>1. r \in Rulers /\ r \in plan[x].rulings
    BY <1>6, <1>7
  <2>2. r[2] \in Finding
    BY <2>1 DEF Rulers
  <2>3. rows[r[2]] = inbox[r[2]] /\ r[2] \notin moved[x]
    BY <1>6, <2>2
  <2> QED
    BY <1>1, <1>6, <2>1, <2>3 DEF Judged, InboxInv
<1>9. ASSUME NEW x \in Writer
      PROVE  Current(x)'
  <2> SUFFICES ASSUME plan'[x].kind = "verdicts", moved'[x] = {}
               PROVE  \E f, g \in Finding, v, u \in Verdict \cup Merge :
                        plan'[x].rulings = Rulings(f, v, g, u)'
    BY DEF Current
  <2>1. moved[x] = {} /\ \A f \in Finding : rows[f] = inbox[f]
    BY <1>6
  <2>2. inbox' = inbox
    BY <1>1, <2>1 DEF InboxShape
  <2>3. plan[x].kind = "verdicts" /\ plan'[x] = plan[x]
    BY <1>6
  <2>4. PICK f, g \in Finding, v, u \in Verdict \cup Merge : plan'[x].rulings = Rulings(f, v, g, u)
    <3>1. Current(x)
      BY DEF InboxInv
    <3>2. \E f, g \in Finding, v, u \in Verdict \cup Merge : plan[x].rulings = Rulings(f, v, g, u)
      BY <2>1, <2>3, <3>1 DEF Current
    <3> QED
      BY <2>3, <3>2
  <2>5. Rulings(f, v, g, u)' = Rulings(f, v, g, u)
    BY <2>2 DEF Rulings
  <2> QED
    BY <2>4, <2>5, Zenon
<1> QED
  BY <1>5, <1>8, <1>9 DEF InboxInv

\* The inbox is empty and nobody has a plan.
LEMMA FirstInbox == ASSUME InboxInit PROVE InboxInv
<1>1. NoPlan \in Plans /\ NoPlan.kind = "none"
  BY DEF Plans, NoPlan
<1>2. \A f \in Finding : Blank(f) \in InboxRow
  BY InboxAssumption DEF Blank, InboxRow, Severity, Target
<1>3. InboxShape
  BY <1>1, <1>2 DEF InboxInit, InboxShape
<1>4. \A w \in Writer : plan[w].kind = "none"
  BY <1>1 DEF InboxInit
<1> QED
  BY <1>3, <1>4 DEF InboxInv, Judged, Current

-----------------------------------------------------------------------------
\* What the two verdicts of a document leave.
Read == [h \in Finding |-> inbox[h].status]

\* The rulings about one row.
Aimed(rulings, h) == {r \in rulings : r[2] = h}

\* The last ruling about a row, and where it sends it.
LEMMA LastRuling ==
  ASSUME NEW f \in Finding, NEW g \in Finding, NEW v \in Verdict \cup Merge,
         NEW u \in Verdict \cup Merge, NEW h \in Finding, NEW R, R = Rulings(f, v, g, u)
  PROVE  LET first == Accepted(Read, f, v) /\ h = f
             last == Accepted(AfterVerdict(Read, f, v), g, u) /\ h = g
         IN  /\ last => Final(R, h) = {<<2, g, u>>}
             /\ first /\ ~ last => Final(R, h) = {<<1, f, v>>}
             /\ ~ first /\ ~ last => Final(R, h) = {}
             /\ last /\ u[2] => MergedInto(R, h) = u[1]
             /\ ~ last /\ first /\ v[2] => MergedInto(R, h) = v[1]
<1> DEFINE A == Accepted(Read, f, v)
           B == Accepted(AfterVerdict(Read, f, v), g, u)
           one == <<1, f, v>>
           two == <<2, g, u>>
<1>1. R = {r \in {one, two} : IF r[1] = 1 THEN A ELSE B}
  BY Zenon DEF Rulings, Read
<1>2. /\ one[1] = 1 /\ one[2] = f /\ one[3] = v
      /\ two[1] = 2 /\ two[2] = g /\ two[3] = u
  OBVIOUS
<1> HIDE DEF A, B, one, two
<1>3. \A r : r \in R <=> (r = one /\ A) \/ (r = two /\ B)
  BY <1>1, <1>2
<1>4. CASE B /\ h = g
  <2>1. two \in R /\ \A r \in R : r[1] <= two[1] /\ (r[1] = 2 => r = two)
    BY <1>2, <1>3, <1>4
  <2>2. Final(R, h) = {two}
    BY <1>2, <1>3, <1>4, <2>1 DEF Final
  <2>3. ASSUME u[2] PROVE MergedInto(R, h) = u[1]
    <3> DEFINE own == {r \in R : r[2] = h /\ r[3][2]}
    <3>1. two \in own /\ \A r \in own : r \in R
      BY <1>2, <1>4, <2>1, <2>3
    <3>2. MergedInto(R, h) = (CHOOSE r \in own : \A q \in own : q[1] <= r[1])[3][1]
      BY <3>1, Zenon DEF MergedInto
    <3> HIDE DEF own
    <3>3. \A q \in own : q[1] <= two[1]
      BY <2>1, <3>1
    <3>4. \A r \in own : (\A q \in own : q[1] <= r[1]) => r = two
      BY <1>2, <1>3, <3>1
    <3>5. (CHOOSE r \in own : \A q \in own : q[1] <= r[1]) = two
      BY <3>1, <3>3, <3>4
    <3> QED
      BY <1>2, <3>2, <3>5
  <2> QED
    BY <1>4, <2>2, <2>3 DEF A, B, two
<1>5. CASE A /\ h = f /\ ~ (B /\ h = g)
  <2>1. \A r \in R : r[2] = h => r = one
    BY <1>2, <1>3, <1>5
  <2>2. one \in R /\ one[2] = h /\ one[1] <= one[1]
    BY <1>2, <1>3, <1>5
  <2>3. Final(R, h) = {one}
    BY <2>1, <2>2 DEF Final
  <2>4. ASSUME v[2] PROVE MergedInto(R, h) = v[1]
    <3> DEFINE own == {r \in R : r[2] = h /\ r[3][2]}
    <3>1. own = {one}
      BY <1>2, <2>1, <2>2, <2>4
    <3>2. MergedInto(R, h) = (CHOOSE r \in own : \A q \in own : q[1] <= r[1])[3][1]
      BY <3>1, Zenon DEF MergedInto
    <3> HIDE DEF own
    <3>3. (CHOOSE r \in own : \A q \in own : q[1] <= r[1]) = one
      BY <2>2, <3>1
    <3> QED
      BY <1>2, <3>2, <3>3
  <2> QED
    BY <1>5, <2>3, <2>4 DEF A, B, one
<1>6. CASE ~ (A /\ h = f) /\ ~ (B /\ h = g)
  <2>1. \A r \in R : r[2] # h
    BY <1>2, <1>3, <1>6
  <2>2. Final(R, h) = {}
    BY <2>1 DEF Final
  <2> QED
    BY <1>6, <2>2 DEF A, B
<1> QED
  BY <1>4, <1>5, <1>6 DEF A, B

\* The rows a document makes, when nothing has moved since it was read.
LEMMA DocumentWrites ==
  ASSUME InboxShape, NEW f \in Finding, NEW g \in Finding, NEW v \in Verdict \cup Merge,
         NEW u \in Verdict \cup Merge, NEW w \in Writer, WriteVerdicts(w),
         plan[w].rulings = Rulings(f, v, g, u), NEW h \in Finding
  PROVE  LET first == Accepted(Read, f, v) /\ h = f
             last == Accepted(AfterVerdict(Read, f, v), g, u) /\ h = g
         IN  /\ last => inbox'[h].status = Ruled(u) /\ (u[2] => inbox'[h].into = u[1])
             /\ first /\ ~ last => inbox'[h].status = Ruled(v) /\ (v[2] => inbox'[h].into = v[1])
             /\ ~ first /\ ~ last => inbox'[h] = inbox[h]
<1> DEFINE R == Rulings(f, v, g, u)
           first == Accepted(Read, f, v) /\ h = f
           last == Accepted(AfterVerdict(Read, f, v), g, u) /\ h = g
<1>1. inbox'[h] = IF Final(R, h) = {} THEN inbox[h]
                  ELSE [inbox[h] EXCEPT !.status = Ruled((CHOOSE r \in Final(R, h) : TRUE)[3]),
                                        !.into = MergedInto(R, h)]
  <2>1. inbox' = [x \in Finding |->
         IF Final(R, x) = {} THEN inbox[x]
         ELSE [inbox[x] EXCEPT
                 !.status = Ruled((CHOOSE r \in Final(R, x) : TRUE)[3]),
                 !.into = MergedInto(R, x)]]
    BY Zenon DEF WriteVerdicts, Commit
  <2> QED
    BY <2>1
<1>7. R = Rulings(f, v, g, u)
  OBVIOUS
<1> HIDE DEF R
<1>2. /\ last => Final(R, h) = {<<2, g, u>>}
      /\ first /\ ~ last => Final(R, h) = {<<1, f, v>>}
      /\ ~ first /\ ~ last => Final(R, h) = {}
      /\ last /\ u[2] => MergedInto(R, h) = u[1]
      /\ ~ last /\ first /\ v[2] => MergedInto(R, h) = v[1]
  BY <1>7, LastRuling
<1> HIDE DEF first, last
<1>3. inbox[h] \in InboxRow
  BY DEF InboxShape
<1>4. CASE last
  <2>1. (CHOOSE r \in Final(R, h) : TRUE)[3] = u /\ Final(R, h) # {}
    <3>1. Final(R, h) = {<<2, g, u>>}
      BY <1>2, <1>4
    <3>2. (CHOOSE r \in {<<2, g, u>>} : TRUE) = <<2, g, u>>
      OBVIOUS
    <3> QED
      BY <3>1, <3>2
  <2>2. inbox'[h] = [inbox[h] EXCEPT !.status = Ruled(u), !.into = MergedInto(R, h)]
    BY <1>1, <2>1, Zenon
  <2> QED
    BY <1>2, <1>3, <1>4, <2>2 DEF InboxRow, last, first
<1>5. CASE first /\ ~ last
  <2>1. (CHOOSE r \in Final(R, h) : TRUE)[3] = v /\ Final(R, h) # {}
    <3>1. Final(R, h) = {<<1, f, v>>}
      BY <1>2, <1>5
    <3>2. (CHOOSE r \in {<<1, f, v>>} : TRUE) = <<1, f, v>>
      OBVIOUS
    <3> QED
      BY <3>1, <3>2
  <2>2. inbox'[h] = [inbox[h] EXCEPT !.status = Ruled(v), !.into = MergedInto(R, h)]
    BY <1>1, <2>1, Zenon
  <2> QED
    BY <1>2, <1>3, <1>5, <2>2 DEF InboxRow, last, first
<1>6. CASE ~ first /\ ~ last
  BY <1>1, <1>2, <1>6 DEF last, first
<1> QED
  BY <1>4, <1>5, <1>6 DEF last, first

\* A verdict that is no merge makes no duplicate.
LEMMA OnlyMergesMerge ==
  ASSUME NEW v \in Verdict \cup Merge
  PROVE  /\ v[2] \in BOOLEAN /\ (v[2] => v[1] \in Finding)
         /\ ~ v[2] => Ruled(v) # "duplicate"
BY DEF Verdict, Merge, Ruled

\* Read from the inbox that is there, a document closes no loop: a row it merges
\* goes to one that was no duplicate and that no other verdict makes one.
LEMMA NoLoopCloses ==
  ASSUME InboxInv, NEW w \in Writer, WriteVerdicts(w), moved[w] = {}, Loops(inbox')
  PROVE  Loops(inbox)
<1>1. PICK f, g \in Finding, v, u \in Verdict \cup Merge : plan[w].rulings = Rulings(f, v, g, u)
  <2>1. Current(w) /\ plan[w].kind = "verdicts"
    BY DEF InboxInv, WriteVerdicts
  <2> QED
    BY <2>1 DEF Current
<1>2. PICK S \in (SUBSET Finding) \ {{}} :
        \A h \in S : inbox'[h].status = "duplicate" /\ inbox'[h].into \in S \ {h}
  BY Zenon DEF Loops
<1> DEFINE A == Accepted(Read, f, v)
           next == AfterVerdict(Read, f, v)
           B == Accepted(next, g, u)
<1>3. ASSUME NEW h \in Finding
      PROVE  /\ B /\ h = g => inbox'[h].status = Ruled(u) /\ (u[2] => inbox'[h].into = u[1])
             /\ A /\ h = f /\ ~ (B /\ h = g) =>
                  inbox'[h].status = Ruled(v) /\ (v[2] => inbox'[h].into = v[1])
             /\ ~ (A /\ h = f) /\ ~ (B /\ h = g) => inbox'[h] = inbox[h]
  <2>1. InboxShape
    BY DEF InboxInv
  <2> QED
    BY <1>1, <2>1, DocumentWrites
<1>4. /\ A /\ v[2] => v[1] # f /\ Read[v[1]] # "duplicate"
      /\ B /\ u[2] => u[1] # g /\ next[u[1]] # "duplicate"
  BY Zenon DEF Accepted
<1>5. /\ \A h \in Finding : Read[h] = inbox[h].status
      /\ A => next[f] = Ruled(v) /\ \A h \in Finding \ {f} : next[h] = Read[h]
      /\ ~ A => next = Read
  BY DEF Read, AfterVerdict
<1> HIDE DEF A, B, next
<1>6. S \subseteq Finding /\ S # {}
  BY <1>2
<1>7. ASSUME B, g \in S
      PROVE  FALSE
  <2>1. u[2] /\ inbox'[g].status = Ruled(u) /\ inbox'[g].into = u[1]
    BY <1>2, <1>3, <1>7, OnlyMergesMerge
  <2>2. u[1] \in S /\ u[1] # g /\ next[u[1]] # "duplicate" /\ inbox'[u[1]].status = "duplicate"
    BY <1>2, <1>4, <1>7, <2>1
  <2>3. CASE A /\ u[1] = f
    BY <1>3, <1>5, <1>6, <2>2, <2>3
  <2>4. CASE ~ (A /\ u[1] = f)
    <3>1. inbox'[u[1]] = inbox[u[1]]
      BY <1>3, <1>6, <2>2, <2>4
    <3> QED
      BY <1>5, <1>6, <2>2, <2>4, <3>1
  <2> QED
    BY <2>3, <2>4
<1>8. ASSUME A, f \in S
      PROVE  FALSE
  <2>1. ~ (B /\ f = g)
    BY <1>7, <1>8
  <2>2. v[2] /\ inbox'[f].into = v[1]
    BY <1>2, <1>3, <1>8, <2>1, OnlyMergesMerge
  <2>3. v[1] \in S /\ v[1] # f /\ Read[v[1]] # "duplicate" /\ inbox'[v[1]].status = "duplicate"
    BY <1>2, <1>4, <1>8, <2>2
  <2>4. inbox'[v[1]] = inbox[v[1]]
    BY <1>3, <1>6, <1>7, <2>3
  <2> QED
    BY <1>5, <1>6, <2>3, <2>4
<1>9. \A h \in S : inbox'[h] = inbox[h]
  BY <1>3, <1>6, <1>7, <1>8
<1> QED
  BY <1>2, <1>9 DEF Loops

-----------------------------------------------------------------------------
\* The plan of an open writer, by its kind.
LEMMA PlanShapes ==
  ASSUME InboxShape, NEW w \in Writer
  PROVE  /\ plan[w].kind \in {"publish", "suppress", "lapse"} => plan[w] \in Sightings
         /\ plan[w].kind = "verdicts" => plan[w] \in Documents
         /\ plan[w].kind = "patch" => plan[w] \in Patches
         /\ plan[w].kind \in {"none", "publish", "suppress", "lapse", "verdicts", "patch"}
<1>1. plan[w] \in Plans
  BY DEF InboxShape
<1> QED
  BY <1>1 DEF Plans, Sightings, Documents, Patches, NoPlan

\* The rows of a commit that touches one.
LEMMA OneRow ==
  ASSUME inbox \in [Finding -> InboxRow], NEW f \in Finding, NEW row \in InboxRow
  PROVE  [inbox EXCEPT ![f] = row] \in [Finding -> InboxRow]
OBVIOUS

\* Every step of every writer keeps the invariant.
LEMMA InboxNextKeeps == InboxInv /\ [InboxNext]_inboxVars => InboxInv'
<1> SUFFICES ASSUME InboxInv, [InboxNext]_inboxVars PROVE InboxInv'
  OBVIOUS
<1>1. InboxShape /\ inbox \in [Finding -> InboxRow] /\ \A f \in Finding : inbox[f] \in InboxRow
  BY DEF InboxInv, InboxShape
<1>2. ASSUME NEW w \in Writer, ReportFinding(w)
      PROVE  InboxInv'
  <2>1. PICK f \in Finding, severity \in Severity, evidence \in BOOLEAN, check \in Checks :
          Begin(w, Decision(f, severity, evidence, check))
    BY <1>2, Zenon DEF ReportFinding
  <2>2. DismissalOf(f) \in Finding
    BY <1>1 DEF DismissalOf, InboxRow, Target
  <2>3. /\ Decision(f, severity, evidence, check) \in Sightings
        /\ Decision(f, severity, evidence, check).kind # "verdicts"
    BY <2>2 DEF Decision, Sightings
  <2> QED
    BY <2>1, <2>3, BeginKeeps DEF Plans
<1>3. ASSUME NEW w \in Writer, WriteFinding(w)
      PROVE  InboxInv'
  <2> DEFINE f == plan[w].row
             row == [inbox[f] EXCEPT !.status = Reopened(inbox[f].status),
                       !.severity = plan[w].severity,
                       !.snippet = IF inbox[f].status = Unseen THEN plan[w].evidence
                                   ELSE inbox[f].snippet \/ plan[w].evidence]
             rows == [inbox EXCEPT ![f] = row]
  <2>1. f \in Finding /\ plan[w].severity \in Severity /\ plan[w].evidence \in BOOLEAN
    BY <1>1, <1>3, PlanShapes DEF WriteFinding, Sightings
  <2>2. row \in InboxRow
    BY <1>1, <2>1, InboxAssumption, ZenonT(30) DEF InboxRow, Reopened
  <2>3. Commit(w, rows)
    BY <1>1, <1>3, <2>1 DEF WriteFinding
  <2> HIDE DEF row
  <2> QED
    BY <1>1, <2>1, <2>2, <2>3, OneRow, CommitKeeps
<1>4. ASSUME NEW w \in Writer, Silence(w)
      PROVE  InboxInv'
  <2> DEFINE f == plan[w].row
             row == [inbox[f] EXCEPT !.snippet = @ \/ plan[w].evidence]
             rows == [inbox EXCEPT ![f] = row]
  <2>1. f \in Finding /\ plan[w].evidence \in BOOLEAN
    BY <1>1, <1>4, PlanShapes DEF Silence, Sightings
  <2>2. row \in InboxRow
    BY <1>1, <2>1 DEF InboxRow
  <2>3. Commit(w, rows)
    BY <1>1, <1>4, <2>1 DEF Silence
  <2> HIDE DEF row
  <2> QED
    BY <1>1, <2>1, <2>2, <2>3, OneRow, CommitKeeps
<1>5. ASSUME NEW w \in Writer, Lapse(w)
      PROVE  InboxInv'
  <2> DEFINE d == plan[w].row
             own == plan[w].seen = d
             severity == IF own THEN plan[w].severity ELSE inbox[d].severity
             snippet == inbox[d].snippet \/ (own /\ plan[w].evidence)
             row == [inbox[d] EXCEPT !.status = "open", !.dismissedAt = 0, !.basis = FALSE,
                       !.severity = severity, !.snippet = snippet]
             rows == [inbox EXCEPT ![d] = row]
  <2>1. d \in Finding /\ plan[w].severity \in Severity
    BY <1>1, <1>5, PlanShapes DEF Lapse, Sightings
  <2>2. inbox[d] \in InboxRow
    BY <1>1, <2>1
  <2>3. severity \in Severity /\ snippet \in BOOLEAN
    BY <2>1, <2>2 DEF InboxRow
  <2>4. Commit(w, rows)
    BY <1>1, <1>5, <2>1 DEF Lapse
  <2> HIDE DEF severity, snippet
  <2> DEFINE none == 0
  <2>5. none \in 0 .. Loudest /\ "open" \in Statuses
    BY InboxAssumption
  <2> HIDE DEF none
  <2>6. [inbox[d] EXCEPT !.status = "open", !.dismissedAt = none, !.basis = FALSE,
          !.severity = severity, !.snippet = snippet] \in InboxRow
    BY <2>2, <2>3, <2>5 DEF InboxRow
  <2>7. row \in InboxRow
    BY <2>6 DEF none
  <2> HIDE DEF row
  <2> QED
    BY <1>1, <2>1, <2>4, <2>7, OneRow, CommitKeeps
<1>6. ASSUME NEW w \in Writer, Adjudicate(w)
      PROVE  InboxInv'
  <2>1. PICK f, g \in Finding, v, u \in Verdict \cup Merge :
          Begin(w, [kind |-> "verdicts", rulings |-> Rulings(f, v, g, u)])
    BY <1>6, Zenon DEF Adjudicate
  <2> DEFINE R == Rulings(f, v, g, u)
             p == [kind |-> "verdicts", rulings |-> R]
  <2>2. R \subseteq Rulers /\ \A r \in R : inbox[r[2]].status # "wontfix"
    BY <1>1, RulingsFit
  <2>3. \E a, b \in Finding, x, y \in Verdict \cup Merge : R = Rulings(a, x, b, y)
    OBVIOUS
  <2>4. Begin(w, p)
    BY <2>1
  <2> HIDE DEF R
  <2>5. p \in Plans /\ p.rulings = R
    BY <2>2 DEF Plans, Documents
  <2> HIDE DEF p
  <2> QED
    BY <2>2, <2>3, <2>4, <2>5, BeginKeeps
<1>7. ASSUME NEW w \in Writer, WriteVerdicts(w)
      PROVE  InboxInv'
  <2> DEFINE R == plan[w].rulings
             rows == [f \in Finding |->
                        IF Final(R, f) = {} THEN inbox[f]
                        ELSE [inbox[f] EXCEPT
                                !.status = Ruled((CHOOSE r \in Final(R, f) : TRUE)[3]),
                                !.into = MergedInto(R, f)]]
  <2>1. plan[w].kind = "verdicts" /\ Commit(w, rows)
    BY <1>7, Zenon DEF WriteVerdicts
  <2>2. R \subseteq Rulers
    BY <1>1, <2>1, PlanShapes DEF Documents
  <2> HIDE DEF R
  <2>3. ASSUME NEW r \in R
        PROVE  Ruled(r[3]) \in Statuses /\ (r[3][2] => r[3][1] \in Finding) /\ r[1] \in {1, 2}
    BY <2>2, InboxAssumption DEF Rulers, Ruled, Verdict, Merge
  <2>4. ASSUME NEW f \in Finding
        PROVE  rows[f] \in InboxRow
    <3>1. ASSUME Final(R, f) # {}
          PROVE  (CHOOSE r \in Final(R, f) : TRUE) \in R
      BY <3>1 DEF Final
    <3>2. MergedInto(R, f) \in Finding
      <4> DEFINE own == {r \in R : r[2] = f /\ r[3][2]}
      <4>1. CASE own = {}
        BY <1>1, <4>1 DEF MergedInto, InboxRow, Target
      <4>2. CASE own # {}
        <5>1. \E r \in own : \A q \in own : q[1] <= r[1]
          <6>1. CASE \E r \in own : r[1] = 2
            <7>1. PICK r \in own : r[1] = 2
              BY <6>1
            <7>2. \A q \in own : q[1] <= r[1]
              BY <2>3, <7>1
            <7> QED
              BY <7>2
          <6>2. CASE \A r \in own : r[1] # 2
            <7>1. \A r \in own : r[1] = 1
              BY <2>3, <6>2
            <7> QED
              BY <4>2, <7>1
          <6> QED
            BY <6>1, <6>2
        <5> DEFINE c == CHOOSE r \in own : \A q \in own : q[1] <= r[1]
        <5>2. c \in own
          BY <5>1
        <5>3. MergedInto(R, f) = c[3][1]
          BY <4>2, Zenon DEF MergedInto
        <5> HIDE DEF c
        <5> QED
          BY <2>3, <5>2, <5>3
      <4> QED
        BY <4>1, <4>2
    <3>3. rows[f] = IF Final(R, f) = {} THEN inbox[f]
                    ELSE [inbox[f] EXCEPT
                            !.status = Ruled((CHOOSE r \in Final(R, f) : TRUE)[3]),
                            !.into = MergedInto(R, f)]
      BY Zenon
    <3> HIDE DEF rows
    <3>4. CASE Final(R, f) = {}
      BY <1>1, <3>3, <3>4
    <3>5. CASE Final(R, f) # {}
      <4> DEFINE s == Ruled((CHOOSE r \in Final(R, f) : TRUE)[3])
      <4>1. s \in Statuses
        BY <2>3, <3>1, <3>5
      <4> HIDE DEF s
      <4>2. rows[f] = [inbox[f] EXCEPT !.status = s, !.into = MergedInto(R, f)]
        BY <3>3, <3>5 DEF s
      <4> QED
        BY <1>1, <3>2, <4>1, <4>2 DEF InboxRow, Target
    <3> QED
      BY <3>4, <3>5
  <2>5. rows \in [Finding -> InboxRow]
    BY <2>4
  <2> HIDE DEF rows
  <2> QED
    BY <2>1, <2>5, CommitKeeps
<1>8. ASSUME NEW w \in Writer, PatchRead(w)
      PROVE  InboxInv'
  <2>1. PICK f \in Finding, status \in Statuses :
          Begin(w, [kind |-> "patch", row |-> f, status |-> status,
                    severity |-> inbox[f].severity, snippet |-> inbox[f].snippet])
    BY <1>8, Zenon DEF PatchRead
  <2> DEFINE p == [kind |-> "patch", row |-> f, status |-> status,
                   severity |-> inbox[f].severity, snippet |-> inbox[f].snippet]
  <2>2. p \in Patches /\ p.kind # "verdicts"
    BY <1>1 DEF Patches, InboxRow
  <2>3. p \in Plans
    BY <2>2 DEF Plans
  <2> HIDE DEF p
  <2> QED
    BY <2>1, <2>2, <2>3, BeginKeeps DEF p
<1>9. ASSUME NEW w \in Writer, PatchWrite(w)
      PROVE  InboxInv'
  <2> DEFINE f == plan[w].row
             dismisses == plan[w].status = "wontfix"
             loud == IF dismisses THEN plan[w].severity ELSE 0
             basis == dismisses /\ plan[w].snippet
             row == [inbox[f] EXCEPT !.status = plan[w].status, !.dismissedAt = loud, !.basis = basis]
             rows == [inbox EXCEPT ![f] = row]
  <2>1. f \in Finding /\ plan[w].severity \in Severity /\ plan[w].status \in Statuses
    BY <1>1, <1>9, PlanShapes DEF PatchWrite, Patches
  <2>2. loud \in 0 .. Loudest /\ basis \in BOOLEAN
    BY <2>1, InboxAssumption DEF Severity
  <2>3. Commit(w, rows)
    BY <1>1, <1>9, <2>1 DEF PatchWrite
  <2> HIDE DEF loud, basis
  <2>4. row \in InboxRow
    BY <1>1, <2>1, <2>2 DEF InboxRow
  <2> HIDE DEF row
  <2> QED
    BY <1>1, <2>1, <2>3, <2>4, OneRow, CommitKeeps
<1>10. CASE UNCHANGED inboxVars
  <2>1. inbox' = inbox /\ plan' = plan /\ moved' = moved
    BY <1>10 DEF inboxVars
  <2>2. InboxShape'
    BY <1>1, <2>1 DEF InboxShape
  <2>3. ASSUME NEW w \in Writer
        PROVE  Judged(w)'
    BY <2>1 DEF Judged, InboxInv
  <2>4. ASSUME NEW w \in Writer
        PROVE  Current(w)'
    <3>1. Current(w)
      BY DEF InboxInv
    <3>2. \A f, g \in Finding, v, u \in Verdict \cup Merge :
            Rulings(f, v, g, u)' = Rulings(f, v, g, u)
      BY <2>1 DEF Rulings
    <3> QED
      BY <2>1, <3>1, <3>2 DEF Current
  <2> QED
    BY <2>2, <2>3, <2>4 DEF InboxInv
<1> QED
  BY <1>2, <1>3, <1>4, <1>5, <1>6, <1>7, <1>8, <1>9, <1>10, Zenon DEF InboxNext

\* Who ends a plan has carried it out.
LEMMA CommitsItsPlan ==
  ASSUME InboxInv, [InboxNext]_inboxVars, NEW w \in Writer, Committing(w)
  PROVE  WriteFinding(w) \/ Silence(w) \/ Lapse(w) \/ WriteVerdicts(w) \/ PatchWrite(w)
<1>1. plan \in [Writer -> Plans] /\ plan[w] # NoPlan /\ plan'[w] = NoPlan
  BY DEF InboxInv, InboxShape, Committing
<1>2. ASSUME NEW x \in Writer, NEW p, Begin(x, p)
      PROVE  FALSE
  <2>1. plan[x] = NoPlan /\ plan' = [plan EXCEPT ![x] = p]
    BY <1>2, Zenon DEF Begin
  <2>2. x # w
    BY <1>1, <2>1
  <2> QED
    BY <1>1, <2>1, <2>2
<1>3. ASSUME NEW x \in Writer, NEW rows, Commit(x, rows)
      PROVE  x = w
  <2>1. plan' = [plan EXCEPT ![x] = NoPlan]
    BY <1>3, Zenon DEF Commit
  <2> QED
    BY <1>1, <2>1
<1>4. PICK x \in Writer :
        \/ ReportFinding(x) \/ WriteFinding(x) \/ Silence(x) \/ Lapse(x)
        \/ Adjudicate(x) \/ WriteVerdicts(x) \/ PatchRead(x) \/ PatchWrite(x)
  <2>1. ~ UNCHANGED inboxVars
    BY <1>1 DEF inboxVars
  <2> QED
    BY <2>1, Zenon DEF InboxNext
<1>5. ~ ReportFinding(x) /\ ~ Adjudicate(x) /\ ~ PatchRead(x)
  BY <1>2, Zenon DEF ReportFinding, Adjudicate, PatchRead
<1>6. WriteFinding(x) => x = w
  BY <1>3, Zenon DEF WriteFinding
<1>7. Silence(x) => x = w
  BY <1>3, Zenon DEF Silence
<1>8. Lapse(x) => x = w
  BY <1>3, Zenon DEF Lapse
<1>9. WriteVerdicts(x) => x = w
  BY <1>3, Zenon DEF WriteVerdicts
<1>10. PatchWrite(x) => x = w
  BY <1>3, Zenon DEF PatchWrite
<1> QED
  BY <1>4, <1>5, <1>6, <1>7, <1>8, <1>9, <1>10, Zenon

\* A person's "wontfix" is ended by a person, by a lapse, or by an adjudicator
\* that had read the row before it was dismissed (applyAdjudications, reopenClause).
THEOREM DismissalsHold == InboxSpec => DismissalsYieldOnlyToARace
<1>1. ASSUME InboxInv, [InboxNext]_inboxVars, NEW w \in Writer, NEW f \in Finding,
             Committing(w), Undone(f)
      PROVE  \/ plan[w].kind \in {"patch", "lapse"}
             \/ plan[w].kind = "verdicts" /\ f \in moved[w]
  <2>1. /\ InboxShape /\ inbox \in [Finding -> InboxRow] /\ inbox[f] \in InboxRow
        /\ inbox[f].status = "wontfix" /\ inbox'[f].status # "wontfix"
    BY <1>1 DEF InboxInv, InboxShape, Undone
  <2>2. CASE WriteFinding(w)
    <3> DEFINE g == plan[w].row
               row == [inbox[g] EXCEPT !.status = Reopened(inbox[g].status),
                         !.severity = plan[w].severity,
                         !.snippet = IF inbox[g].status = Unseen THEN plan[w].evidence
                                     ELSE inbox[g].snippet \/ plan[w].evidence]
    <3>1. g \in Finding
      BY <2>1, <2>2, PlanShapes DEF WriteFinding, Sightings
    <3>2. inbox' = [inbox EXCEPT ![g] = row]
      BY <2>1, <2>2, <3>1 DEF WriteFinding, Commit
    <3>3. inbox[g].status = "wontfix" => row.status = "wontfix"
      BY <2>1, <3>1 DEF Reopened, Unseen, InboxRow
    <3> HIDE DEF row
    <3> QED
      BY <2>1, <3>1, <3>2, <3>3
  <2>3. CASE Silence(w)
    <3> DEFINE g == plan[w].row
               row == [inbox[g] EXCEPT !.snippet = @ \/ plan[w].evidence]
    <3>1. g \in Finding
      BY <2>1, <2>3, PlanShapes DEF Silence, Sightings
    <3>2. inbox' = [inbox EXCEPT ![g] = row]
      BY <2>1, <2>3, <3>1 DEF Silence, Commit
    <3>3. row.status = inbox[g].status
      BY <2>1, <3>1 DEF InboxRow
    <3> HIDE DEF row
    <3> QED
      BY <2>1, <3>1, <3>2, <3>3
  <2>4. CASE WriteVerdicts(w)
    <3> DEFINE R == plan[w].rulings
    <3>1. Final(R, f) # {}
      <4>1. SUFFICES ASSUME Final(R, f) = {} PROVE inbox'[f] = inbox[f]
        BY <2>1
      <4> HIDE DEF R
      <4>2. inbox' = [h \in Finding |->
              IF Final(R, h) = {} THEN inbox[h]
              ELSE [inbox[h] EXCEPT !.status = Ruled((CHOOSE r \in Final(R, h) : TRUE)[3]),
                                    !.into = MergedInto(R, h)]]
        BY <2>4, Zenon DEF WriteVerdicts, Commit, R
      <4> QED
        BY <4>1, <4>2
    <3>2. PICK r \in R : r[2] = f
      BY <3>1 DEF Final
    <3> QED
      BY <1>1, <2>1, <2>4, <3>2 DEF InboxInv, Judged, WriteVerdicts
  <2>5. CASE Lapse(w) \/ PatchWrite(w)
    BY <2>5 DEF Lapse, PatchWrite
  <2> QED
    BY <1>1, <2>2, <2>3, <2>4, <2>5, CommitsItsPlan
<1>2. InboxInv /\ [InboxNext]_inboxVars =>
        [\A w \in Writer, f \in Finding :
           Committing(w) /\ Undone(f) =>
             \/ plan[w].kind \in {"patch", "lapse"}
             \/ plan[w].kind = "verdicts" /\ f \in moved[w]]_inboxVars
  BY <1>1
<1> QED
  BY <1>2, FirstInbox, InboxNextKeeps, PTL DEF InboxSpec, DismissalsYieldOnlyToARace

\* A document of verdicts closes no loop of merges in the inbox it was read from,
\* its own two verdicts included (applyAdjudications).
THEOREM MergesEnd == InboxSpec => LoopsTakeARace
<1>1. ASSUME InboxInv, [InboxNext]_inboxVars, NEW w \in Writer, Committing(w),
             plan[w].kind = "verdicts", moved[w] = {}, Loops(inbox')
      PROVE  Loops(inbox)
  <2>1. WriteVerdicts(w)
    BY <1>1, CommitsItsPlan DEF WriteFinding, Silence, Lapse, PatchWrite
  <2> QED
    BY <1>1, <2>1, NoLoopCloses
<1>2. InboxInv /\ [InboxNext]_inboxVars =>
        [\A w \in Writer :
           Committing(w) /\ plan[w].kind = "verdicts" /\ moved[w] = {} /\ Loops(inbox')
             => Loops(inbox)]_inboxVars
  BY <1>1
<1> QED
  BY <1>2, FirstInbox, InboxNextKeeps, PTL DEF InboxSpec, LoopsTakeARace
=============================================================================
