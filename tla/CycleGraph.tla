------------------------------ MODULE CycleGraph ------------------------------
(***************************************************************************)
(* core/config/cycle.ts: the graph a cycle of config.yaml stands for, and  *)
(* the check that it can finish, cycleGraphProblems, which every write of  *)
(* a cycle goes through (runnableCycleSchema).  The check walks the graph  *)
(* depth first; a step of this module is a step of that walk.              *)
(*                                                                         *)
(* Foreman is what runs an accepted graph: there a node starts once every  *)
(* node it depends on has ended.                                           *)
(***************************************************************************)
EXTENDS Naturals, Sequences

CONSTANTS
  Key,     \* node keys; a worker of the short form is the key of its node
  Config   \* what config.yaml may say of a cycle

NoKey == "no key"
EdgeOf == [from : Key, to : Key]

\* The short form has `workers:` and perhaps `then:`; the general one `nodes:`, of
\* which only the keys matter here, and `edges:`.
ShortForm == [sugar : {TRUE}, listed : Seq(Key), next : Key \cup {NoKey}, drawn : {{}}]
LongForm == [sugar : {FALSE}, listed : Seq(Key), next : {NoKey}, drawn : SUBSET EdgeOf]
ASSUME ConfigAssumption == NoKey \notin Key /\ Config \subseteq ShortForm \cup LongForm

VARIABLES
  written,   \* what this cycle says
  path,      \* the keys the walk came by
  left,      \* per key on the path: the successors not looked at
  finished,  \* keys the walk is done with
  loops      \* the loops it reported, each the keys it named

graphVars == <<written, path, left, finished, loops>>

-----------------------------------------------------------------------------
(* expandCycle.                                                            *)

NodeKeys ==
  IF written.next = NoKey THEN written.listed ELSE Append(written.listed, written.next)
Known == {NodeKeys[i] : i \in DOMAIN NodeKeys}
Edges ==
  IF ~written.sugar THEN written.drawn
  ELSE {e \in EdgeOf : \E i \in DOMAIN written.listed :
                         e.from = written.listed[i] /\ e.to = written.next}

\* cycleSugarSchema: no worker twice, and `then` is not one of them.
Repeats(keys) == \E i, j \in DOMAIN keys : i # j /\ keys[i] = keys[j]
SugarAccepts == ~Repeats(written.listed) /\ \A i \in DOMAIN written.listed : written.listed[i] # written.next

-----------------------------------------------------------------------------
(* cycleGraphProblems.                                                     *)

Dangling == {e \in Edges : e.from \notin Known \/ e.to \notin Known}
Successors(k) == {n \in Known : \E e \in Edges : e.from = k /\ e.to = n}

Walked == path = << >> /\ Known \subseteq finished
Problems == Repeats(NodeKeys) \/ Dangling # {} \/ loops # {}

GraphTypeOK ==
  /\ written \in Config
  /\ path \in Seq(Key)
  /\ left \in [Key -> SUBSET Key]
  /\ finished \subseteq Key
  /\ loops \subseteq SUBSET Key

GraphInit ==
  /\ written \in Config
  /\ path = << >> /\ left = [k \in Key |-> {}]
  /\ finished = {} /\ loops = {}

Top == path[Len(path)]
Enter(k, rest) ==
  /\ path' = Append(path, k)
  /\ left' = [rest EXCEPT ![k] = Successors(k)]
LookAt(k) == path # << >> /\ k \in left[Top]
Looked(k) == [left EXCEPT ![Top] = @ \ {k}]
OnPath(k) == \E i \in DOMAIN path : path[i] = k

\* The loop over the known keys.
WalkFrom(k) ==
  /\ path = << >> /\ k \in Known \ finished
  /\ Enter(k, left)
  /\ UNCHANGED <<written, finished, loops>>

\* Mutant: `at > 0`, which is not where a path begins.
CloseLoopPastTheFirst(k) ==
  /\ LookAt(k) /\ OnPath(k)
  /\ left' = Looked(k)
  /\ loops' = loops \cup {{path[j] : j \in {j \in DOMAIN path : j >= i}} :
                            i \in {i \in DOMAIN path : path[i] = k /\ i > 1}}
  /\ UNCHANGED <<written, path, finished>>

\* A key of the path again: the loop is the path from there on.
CloseLoop(k) ==
  /\ LookAt(k) /\ OnPath(k)
  /\ left' = Looked(k)
  /\ loops' = loops \cup {{path[j] : j \in {j \in DOMAIN path : j >= i}} :
                            i \in {i \in DOMAIN path : path[i] = k}}
  /\ UNCHANGED <<written, path, finished>>

PassBy(k) ==
  /\ LookAt(k) /\ ~OnPath(k) /\ k \in finished
  /\ left' = Looked(k)
  /\ UNCHANGED <<written, path, finished, loops>>

Descend(k) ==
  /\ LookAt(k) /\ ~OnPath(k) /\ k \notin finished
  /\ Enter(k, Looked(k))
  /\ UNCHANGED <<written, finished, loops>>

Return ==
  /\ path # << >> /\ left[Top] = {}
  /\ path' = SubSeq(path, 1, Len(path) - 1)
  /\ finished' = finished \cup {Top}
  /\ UNCHANGED <<written, left, loops>>

GraphNext ==
  \/ \E k \in Key : WalkFrom(k) \/ CloseLoop(k) \/ PassBy(k) \/ Descend(k)
  \/ Return

GraphSpec == GraphInit /\ [][GraphNext]_graphVars

-----------------------------------------------------------------------------
(* Properties.                                                             *)

\* Nodes wait for one another's end only as far as some node of them does not:
\* then there is always one that can start.
CanFinish ==
  /\ ~Repeats(NodeKeys) /\ Dangling = {}
  /\ \A S \in SUBSET Known :
       S # {} => \E n \in S : \A e \in Edges : e.to = n => e.from \notin S

\* Where a run starts.
EntryNodes == {n \in Known : ~\E e \in Edges : e.to = n}

\* "Everything about a graph that would stop it ever finishing" (cycleGraphProblems),
\* and nothing else: a graph without a problem can finish, one with a problem
\* cannot, what the short form accepts has none after expansion ("Whatever
\* comes out of here is a graph that can finish", expandCycle), and where every
\* node waits for another there is a loop to name ("always some loop").
ProblemsAreWhatStopsIt ==
  Walked =>
    /\ Problems <=> ~CanFinish
    /\ written.sugar /\ SugarAccepts => ~Problems
    /\ Known # {} /\ EntryNodes = {} => Problems
=============================================================================
