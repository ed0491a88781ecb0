------------------------------- MODULE MCProject -------------------------------
(***************************************************************************)
(* Instances for TLC of what a project keeps: the worker configuration and  *)
(* its index, the graph of a cycle, the machine's configuration file behind *)
(* its lock, and the inbox, side by side.  One behaviour is about one.      *)
(***************************************************************************)
EXTENDS Index, ConfigLock, Inbox, CycleGraph, FiniteSetsExt, TLC

CONSTANTS a, b, c, s

VARIABLE focus

Focus == {"edit", "sync", "lock", "inbox", "graph"}

Prompted(v) == [x \in Field |-> v]

\* The files a person writes: a worker, a cycle over it, and a source naming the
\* cycle; the same with the worker changed, and with the two names changed over.
Named(worker, cycle, v) ==
  [workers |-> worker :> Prompted(v), cycles |-> cycle :> worker, sources |-> s :> cycle]
HandEdits == {Named(a, b, 0), Named(a, b, 1), Named(b, a, 0)}

\* Bound of the focus "sync": times the person saves.
SyncWrites == 1

\* Bound of the focus "graph": edges drawn by hand.
MaxEdge == 4

Workers == {<<a>>, <<a, b>>, <<a, b, a>>}
Short == [sugar : {TRUE}, listed : Workers, next : {a, c, NoKey}, drawn : {{}}]
Long ==
  [sugar : {FALSE}, listed : {<<a, b>>, <<a, b, a>>, <<a, b, c>>}, next : {NoKey},
   drawn : UNION {kSubset(n, EdgeOf) : n \in 0 .. MaxEdge}]
Configs == Short \cup Long
Unwritten == [sugar |-> TRUE, listed |-> <<a>>, next |-> NoKey, drawn |-> {}]

otherThanIndex == <<focus, lockVars, inboxVars, graphVars>>
otherThanLock == <<focus, indexVars, inboxVars, graphVars>>
otherThanInbox == <<focus, indexVars, lockVars, graphVars>>
otherThanGraph == <<focus, indexVars, lockVars, inboxVars>>
allVars == <<focus, indexVars, lockVars, inboxVars, graphVars>>

MCInit ==
  /\ focus \in Focus
  /\ IndexInit /\ file = Named(a, b, 0)
  /\ LockInit
  /\ InboxInit
  /\ GraphInit /\ (focus # "graph" => written = Unwritten)

\* edit: requests change workers and the source, index, and meet one another.
\* sync: the same file is read by syncs while a person replaces it.
IndexFocusNext ==
  IF focus = "edit"
  THEN \E x \in Request : IndexStep(x) \/ IndexAsk(x)
  ELSE \/ \E x \in Request : IndexStep(x) \/ BeginSync(x) \/ Abandon(x)
       \/ \E f \in HandEdit : writes < SyncWrites /\ HandWrite(f)
       \/ \E n \in Name : QueueJob(n)

MCNext ==
  \/ focus \in {"edit", "sync"} /\ IndexFocusNext /\ UNCHANGED otherThanIndex
  \/ focus = "lock" /\ LockNext /\ UNCHANGED otherThanLock
  \/ focus = "inbox" /\ InboxNext /\ UNCHANGED otherThanInbox
  \/ focus = "graph" /\ GraphNext /\ UNCHANGED otherThanGraph

MCSpec ==
  /\ MCInit /\ [][MCNext]_allVars
  /\ \A w \in Updater : WF_lockVars(focus = "lock" /\ UpdateStep(w))
  /\ WF_lockVars(focus = "lock" /\ LockAges)

\* Every state of every component has the shape its module declares.
TypesOK == IndexTypeOK /\ LockTypeOK /\ InboxTypeOK /\ GraphTypeOK
=============================================================================
