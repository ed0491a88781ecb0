-------------------------------- MODULE Index --------------------------------
(***************************************************************************)
(* The definition of a project and its index: `.ogun/config.yaml`, the one *)
(* writer the control plane has for it (server/config-store.ts), the rows  *)
(* reindexProject makes of it (server/reindex.ts), and the routes that     *)
(* lead there: routes/workers.ts and PATCH /sources/:name edit the file    *)
(* and index what they wrote, the sync routes of routes/projects.ts index  *)
(* what they read, and a person edits the file with whatever they like.    *)
(*                                                                         *)
(* A hash of a file stands for its text: it is the set that holds the      *)
(* file's content, and no hash is the empty set.  Requests run one after   *)
(* the other only while they write the file; nothing holds two reindexes   *)
(* apart.                                                                  *)
(***************************************************************************)
EXTENDS Naturals, FiniteSets, Functions

CONSTANTS
  Request,     \* requests and commands in flight at once
  Name,        \* names of workers and cycles
  SourceName,  \* names of sources
  Field,       \* fields of a worker
  Value,       \* and what they may hold
  HandEdit,    \* files a person saves
  MaxWrite,    \* bound: writes of the file
  MaxQueued    \* bound: jobs the rest of the foreman queues

VARIABLES
  file,      \* config.yaml on disk
  writer,    \* who wrote it last
  writes,    \* writes so far
  workers,   \* rows of `workers`: per name the indexed definition
  cycles,    \* rows of `cycles`: per name "single", or the worker a named one runs
  sources,   \* rows of `sources`: per name the cycle it feeds
  indexed,   \* projects.config_hash
  lock,      \* `writes` of config-store.ts: the request at the head of the queue
  req,       \* per request: where it stands and what it holds
  queued,    \* the names with a job queued for their worker
  budget,    \* jobs that may still be queued
  stranded   \* queued jobs whose worker is gone

indexVars == <<file, writer, writes, workers, cycles, sources, indexed, lock, req,
               queued, budget, stranded>>

Definition == [Field -> Value]
Single == "single"
Nobody == "nobody"
Person == "person"

\* A partial function, as the rows of a table and the blocks of a file are.
Partial(S, T) == UNION {[D -> T] : D \in SUBSET S}
ConfigText == [workers : Partial(Name, Definition), cycles : Partial(Name, Name),
               sources : Partial(SourceName, Name)]

ASSUME IndexAssumption ==
  /\ Request \cap {Nobody, Person} = {}
  /\ HandEdit \subseteq ConfigText
  /\ MaxWrite \in Nat /\ MaxQueued \in Nat

Nothing == [n \in {} |-> n]
EmptyFile == [workers |-> Nothing, cycles |-> Nothing, sources |-> Nothing]
Unhashed == {}

Put(f, n, v) == [m \in DOMAIN f \cup {n} |-> IF m = n THEN v ELSE f[m]]
Without(f, S) == Restrict(f, DOMAIN f \ S)

NoRequest == [stage |-> "idle", hash |-> Unhashed, edit |-> Nothing, read |-> EmptyFile,
         todo |-> {}, seen |-> {}, alone |-> FALSE]

IndexTypeOK ==
  /\ file \in ConfigText
  /\ writer \in Request \cup {Nobody, Person}
  /\ writes \in 0 .. MaxWrite
  /\ workers \in Partial(Name, Definition)
  /\ cycles \in Partial(Name, Name \cup {Single})
  /\ sources \in Partial(SourceName, Name)
  /\ \A h \in indexed : h \in ConfigText
  /\ Cardinality(indexed) <= 1
  /\ lock \in Request \cup {Nobody}
  /\ \A r \in Request :
       /\ req[r].stage \in {"idle", "page", "queue", "write", "check", "workers", "hash",
                            "cycles", "select", "prune", "retire", "delete", "forget",
                            "sources", "drop", "done"}
       /\ req[r].read \in ConfigText
       /\ Cardinality(req[r].hash) <= 1 /\ \A h \in req[r].hash : h \in ConfigText
       /\ req[r].todo \subseteq Name \cup SourceName
       /\ req[r].seen \subseteq Name
       /\ req[r].alone \in BOOLEAN
  /\ queued \subseteq Name
  /\ budget \in 0 .. MaxQueued
  /\ stranded \in 0 .. MaxQueued

\* A project that has just been added: a file, and no rows.
IndexInit ==
  /\ file \in HandEdit
  /\ writer = Nobody /\ writes = 0
  /\ workers = Nothing /\ cycles = Nothing /\ sources = Nothing
  /\ indexed = Unhashed
  /\ lock = Nobody
  /\ req = [r \in Request |-> NoRequest]
  /\ queued = {} /\ budget = MaxQueued /\ stranded = 0

-----------------------------------------------------------------------------
(* What reindexProject asks of a file before it touches anything.          *)

\* cycleGraphProblems is the subject of module CycleGraph: a named cycle runs one
\* worker here, and its graph is sound.
Valid(f) ==
  /\ DOMAIN f.cycles \cap DOMAIN f.workers = {}
  /\ \A n \in DOMAIN f.cycles : f.cycles[n] \in DOMAIN f.workers
  /\ \A s \in DOMAIN f.sources : f.sources[s] \in DOMAIN f.cycles \cup DOMAIN f.workers

Rows(f) ==
  [workers |-> f.workers, sources |-> f.sources,
   cycles |-> [n \in DOMAIN f.workers \cup DOMAIN f.cycles |->
                 IF n \in DOMAIN f.cycles THEN f.cycles[n] ELSE Single]]

\* driftOf: what is on disk is what was indexed.
ReadsCurrent == indexed = {file}

-----------------------------------------------------------------------------
(* Requests.                                                               *)

RequestAt(r, stage) == req[r].stage = stage
InFlight == {r \in Request : req[r].stage \notin {"idle", "page", "done"}}

\* A step of one request is company for every other.
Move(r, rec) ==
  req' = [q \in Request |-> IF q = r THEN rec ELSE [req[q] EXCEPT !.alone = FALSE]]
RequestTo(r, stage) == Move(r, [req[r] EXCEPT !.stage = stage])
GoTodo(r, stage, todo) == Move(r, [req[r] EXCEPT !.stage = stage, !.todo = todo])
Did(r, n) == Move(r, [req[r] EXCEPT !.todo = @ \ {n}])

fileVars == <<file, writer, writes>>
tableVars == <<workers, cycles, sources, indexed>>
jobsVars == <<queued, budget, stranded>>

\* The page a person edits from carries the hash of the file as it is now.
OpenPage(r) ==
  /\ RequestAt(r, "idle")
  /\ \E h \in {{file}, Unhashed} : Move(r, [NoRequest EXCEPT !.stage = "page", !.hash = h])
  /\ UNCHANGED <<fileVars, tableVars, lock, jobsVars>>

Submits(r, edit) ==
  /\ RequestAt(r, "page")
  /\ Move(r, [req[r] EXCEPT !.stage = "queue", !.edit = edit])
  /\ UNCHANGED <<fileVars, tableVars, lock, jobsVars>>

\* POST: refused when the name is a worker's already.
SubmitCreate(r, n, d) ==
  /\ n \notin DOMAIN workers
  /\ Submits(r, [put |-> "workers", name |-> n, value |-> d])

\* PATCH merges what it was sent into the row it read, not into the file.
SubmitPatch(r, n, x, v) ==
  /\ n \in DOMAIN workers
  /\ Submits(r, [put |-> "workers", name |-> n, value |-> [workers[n] EXCEPT ![x] = v]])

SubmitDelete(r, n) ==
  /\ n \in DOMAIN workers
  /\ Submits(r, [put |-> "nothing", name |-> n])

SubmitSource(r, s, n) ==
  /\ n \in DOMAIN cycles
  /\ Submits(r, [put |-> "sources", name |-> s, value |-> n])

Apply(edit, f) ==
  CASE edit.put = "workers" -> [f EXCEPT !.workers = Put(@, edit.name, edit.value)]
    [] edit.put = "sources" -> [f EXCEPT !.sources = Put(@, edit.name, edit.value)]
    [] edit.put = "nothing" -> [f EXCEPT !.workers = Without(@, {edit.name})]

\* Mutant: the edit does not wait for the one before it.
MutateLoadUnqueued(r) ==
  /\ RequestAt(r, "queue")
  /\ IF req[r].hash \subseteq {file}
     THEN /\ lock' = r
          /\ Move(r, [req[r] EXCEPT !.stage = "write", !.read = file])
     ELSE UNCHANGED lock /\ Move(r, NoRequest)
  /\ UNCHANGED <<fileVars, tableVars, jobsVars>>

\* `serialize`: the head of the queue loads the file and compares its hash.
MutateLoad(r) ==
  /\ RequestAt(r, "queue") /\ lock = Nobody
  /\ IF req[r].hash \subseteq {file}
     THEN /\ lock' = r
          /\ Move(r, [req[r] EXCEPT !.stage = "write", !.read = file])
     ELSE UNCHANGED lock /\ Move(r, NoRequest)
  /\ UNCHANGED <<fileVars, tableVars, jobsVars>>

\* ... edits what it loaded, and renames the result into place.
MutateWrite(r) ==
  /\ RequestAt(r, "write") /\ writes < MaxWrite
  /\ LET next == Apply(req[r].edit, req[r].read)
     IN  /\ file' = next
         /\ Move(r, [req[r] EXCEPT !.stage = "check", !.read = next])
  /\ writer' = r /\ writes' = writes + 1 /\ lock' = Nobody
  /\ UNCHANGED <<tableVars, jobsVars>>

\* The sync routes, and `ogun project sync`: the file as it is on disk.
BeginSync(r) ==
  /\ RequestAt(r, "idle")
  /\ Move(r, [NoRequest EXCEPT !.stage = "check", !.read = file, !.alone = InFlight = {}])
  /\ UNCHANGED <<fileVars, tableVars, lock, jobsVars>>

\* Everything is checked before the first row is written.
Check(r) ==
  /\ RequestAt(r, "check")
  /\ IF Valid(req[r].read)
     THEN GoTodo(r, "workers", DOMAIN req[r].read.workers)
     ELSE Move(r, NoRequest)
  /\ UNCHANGED <<fileVars, tableVars, lock, jobsVars>>

\* Mutant: a row that is there is left as it is.
UpsertWorkerOnce(r, n) ==
  /\ RequestAt(r, "workers") /\ n \in req[r].todo
  /\ workers' = IF n \in DOMAIN workers THEN workers ELSE Put(workers, n, req[r].read.workers[n])
  /\ cycles' = Put(cycles, n, Single)
  /\ Did(r, n)
  /\ UNCHANGED <<fileVars, sources, indexed, lock, jobsVars>>

\* A worker and the cycle of one node it is.
UpsertWorker(r, n) ==
  /\ RequestAt(r, "workers") /\ n \in req[r].todo
  /\ workers' = Put(workers, n, req[r].read.workers[n])
  /\ cycles' = Put(cycles, n, Single)
  /\ Did(r, n)
  /\ UNCHANGED <<fileVars, sources, indexed, lock, jobsVars>>

RecordHash(r) ==
  /\ RequestAt(r, "workers") /\ req[r].todo = {}
  /\ indexed' = {req[r].read}
  /\ GoTodo(r, "cycles", DOMAIN req[r].read.cycles)
  /\ UNCHANGED <<fileVars, workers, cycles, sources, lock, jobsVars>>

\* syncNamedCycles: the definitions, and then the rows nothing names.
UpsertCycle(r, n) ==
  /\ RequestAt(r, "cycles") /\ n \in req[r].todo
  /\ cycles' = Put(cycles, n, req[r].read.cycles[n])
  /\ Did(r, n)
  /\ UNCHANGED <<fileVars, workers, sources, indexed, lock, jobsVars>>

SelectCycles(r) ==
  /\ RequestAt(r, "cycles") /\ req[r].todo = {}
  /\ Move(r, [req[r] EXCEPT !.stage = "prune",
       !.seen = DOMAIN cycles \ (DOMAIN req[r].read.workers \cup DOMAIN req[r].read.cycles)])
  /\ UNCHANGED <<fileVars, tableVars, lock, jobsVars>>

\* A cycle is deleted by its id: a row another request deleted stays out of reach,
\* whatever has taken its name.
DeleteCycles(r, ns, rec) ==
  /\ cycles' = Without(cycles, ns)
  /\ req' = [q \in Request |->
       IF q = r THEN rec
       ELSE [req[q] EXCEPT !.alone = FALSE, !.seen = IF RequestAt(q, "prune") THEN @ \ ns ELSE @]]

PruneCycle(r, n) ==
  /\ RequestAt(r, "prune") /\ n \in req[r].seen
  /\ DeleteCycles(r, {n}, [req[r] EXCEPT !.seen = @ \ {n}])
  /\ UNCHANGED <<fileVars, workers, sources, indexed, lock, jobsVars>>

Unnamed(r) == DOMAIN workers \ DOMAIN req[r].read.workers

SelectDoomed(r) ==
  /\ RequestAt(r, "prune") /\ req[r].seen = {}
  /\ GoTodo(r, "retire", Unnamed(r))
  /\ UNCHANGED <<fileVars, tableVars, lock, jobsVars>>

\* The work queued for a worker that is about to go is retired first.
RetireJobs(r, n) ==
  /\ RequestAt(r, "retire") /\ n \in req[r].todo
  /\ queued' = queued \ {n}
  /\ Did(r, n)
  /\ UNCHANGED <<fileVars, tableVars, lock, budget, stranded>>

\* Deleting a row leaves its jobs, pointing at nothing.
DeleteWorkers(r) ==
  /\ RequestAt(r, "retire") /\ req[r].todo = {}
  /\ workers' = Without(workers, Unnamed(r))
  /\ stranded' = stranded + Cardinality(queued \cap Unnamed(r))
  /\ queued' = queued \ Unnamed(r)
  /\ Move(r, [req[r] EXCEPT !.stage = "forget", !.seen = Unnamed(r)])
  /\ UNCHANGED <<fileVars, cycles, sources, indexed, lock, budget>>

\* ... and the cycle of the same name, whatever it is by now.
ForgetCycles(r) ==
  /\ RequestAt(r, "forget")
  /\ DeleteCycles(r, req[r].seen,
       [req[r] EXCEPT !.stage = "sources", !.seen = {}, !.todo = DOMAIN req[r].read.sources])
  /\ UNCHANGED <<fileVars, workers, sources, indexed, lock, jobsVars>>

UpsertSource(r, s) ==
  /\ RequestAt(r, "sources") /\ s \in req[r].todo
  /\ sources' = Put(sources, s, req[r].read.sources[s])
  /\ Did(r, s)
  /\ UNCHANGED <<fileVars, workers, cycles, indexed, lock, jobsVars>>

DeleteSources(r) ==
  /\ RequestAt(r, "sources") /\ req[r].todo = {}
  /\ sources' = Restrict(sources, DOMAIN sources \cap DOMAIN req[r].read.sources)
  /\ RequestTo(r, "done")
  /\ UNCHANGED <<fileVars, workers, cycles, indexed, lock, jobsVars>>

Answer(r) ==
  /\ RequestAt(r, "done")
  /\ Move(r, NoRequest)
  /\ UNCHANGED <<fileVars, tableVars, lock, jobsVars>>

\* The process dies, or a statement fails: what was written stays written.
Abandon(r) ==
  /\ r \in InFlight
  /\ Move(r, NoRequest)
  /\ lock' = IF lock = r THEN Nobody ELSE lock
  /\ UNCHANGED <<fileVars, tableVars, jobsVars>>

\* A person saves the file in an editor, or pulls.
HandWrite(f) ==
  /\ writes < MaxWrite /\ f # file
  /\ file' = f /\ writer' = Person /\ writes' = writes + 1
  /\ req' = [r \in Request |-> [req[r] EXCEPT !.alone = FALSE]]
  /\ UNCHANGED <<tableVars, lock, jobsVars>>

\* A cycle starts, and queues a job for its worker.
QueueJob(n) ==
  /\ n \in DOMAIN cycles /\ budget > 0
  /\ LET w == IF cycles[n] = Single THEN n ELSE cycles[n]
     IN  w \in DOMAIN workers \ queued /\ queued' = queued \cup {w}
  /\ budget' = budget - 1
  /\ UNCHANGED <<fileVars, tableVars, lock, req, stranded>>

IndexStep(r) ==
  \/ MutateLoad(r) \/ MutateWrite(r) \/ Check(r) \/ RecordHash(r) \/ SelectCycles(r)
  \/ SelectDoomed(r) \/ DeleteWorkers(r) \/ ForgetCycles(r) \/ DeleteSources(r) \/ Answer(r)
  \/ \E n \in req[r].todo : \/ UpsertWorker(r, n) \/ UpsertCycle(r, n)
                            \/ RetireJobs(r, n) \/ UpsertSource(r, n)
  \/ \E n \in req[r].seen : PruneCycle(r, n)

IndexAsk(r) ==
  \/ OpenPage(r) \/ Abandon(r)
  \/ \E n \in Name :
       \/ \E d \in Definition : SubmitCreate(r, n, d)
       \/ \E x \in Field, v \in Value : SubmitPatch(r, n, x, v)
       \/ SubmitDelete(r, n)
       \/ \E s \in SourceName : SubmitSource(r, s, n)

IndexNext ==
  \/ \E r \in Request : IndexStep(r) \/ IndexAsk(r) \/ BeginSync(r)
  \/ \E f \in HandEdit : HandWrite(f)
  \/ \E n \in Name : QueueJob(n)

IndexSpec == IndexInit /\ [][IndexNext]_indexVars

-----------------------------------------------------------------------------
(* Properties.                                                             *)

\* No edit made through the control plane erases another one, however many tabs
\* submit at once: what a write replaces is what its edit was applied to, unless
\* a person saved the file in between (mutate, serialize).
NoEditErasesAnother ==
  [][\A r \in Request : writer' = r /\ writes' # writes =>
       writer = Person \/ file = req[r].read]_indexVars

\* A sync converges from whatever crashes, failed statements and overlapping
\* reindexes left behind: when one has run by itself, the rows are the file's -
\* except that the cycle of a removed worker goes, though the file may have given
\* its name to a cycle (reindexProject).
SyncAloneIndexesTheFile ==
  \A r \in Request :
    RequestAt(r, "done") /\ req[r].alone =>
      /\ workers = req[r].read.workers /\ sources = req[r].read.sources
      /\ \A n \in DOMAIN Rows(req[r].read).cycles :
           \/ n \in DOMAIN cycles /\ cycles[n] = Rows(req[r].read).cycles[n]
           \/ n \notin DOMAIN cycles /\ n \in DOMAIN req[r].read.cycles
      /\ DOMAIN cycles \subseteq DOMAIN Rows(req[r].read).cycles

\* A job queued for a worker that leaves config.yaml is retired, "rather than
\* leaving a row that quietly means nothing" (reindexProject).  It fails: a job may be queued after
\* the retiring and before the DELETE.
NoJobIsStranded == stranded = 0

\* "`drifted` means exactly `running sync would change something`" (drift.ts): when
\* nothing is in flight and the file reads current, the rows are the file's.  It
\* fails: the hash is recorded before the cycles and sources are.
CurrentMeansIndexed ==
  InFlight = {} /\ ReadsCurrent =>
    [workers |-> workers, cycles |-> cycles, sources |-> sources] = Rows(file)

\* "The UI must not be able to leave a config.yaml on disk that the next `ogun
\* project sync` refuses to load" (mutate).  It fails: a worker is deleted that a
\* named cycle runs.
EditsStaySyncable == [][Valid(file) /\ writer' # Person => Valid(file')]_indexVars
=============================================================================
