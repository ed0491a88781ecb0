----------------------------- MODULE ConfigLock -----------------------------
(***************************************************************************)
(* updateLocalConfig of core/config/machine.ts: the read-modify-write of   *)
(* ~/.ogun/config.json that the CLI, the runner and the control plane do   *)
(* under `<config>.lock`, a file made with O_EXCL that holds the pid of    *)
(* its maker.  A writer is one process making one edit of its own.         *)
(***************************************************************************)
EXTENDS Naturals, FiniteSets

CONSTANTS
  Updater,       \* processes
  MaxDeath,     \* bound: processes killed before they are done
  MaxRecycled,  \* bound: pids of ended processes given to something else
  MaxWait       \* bound: waits that outlast CONFIG_LOCK_WAIT_MS

Noone == "noone"
ASSUME LockAssumption ==
  Noone \notin Updater /\ MaxDeath \in Nat /\ MaxRecycled \in Nat /\ MaxWait \in Nat

VARIABLES
  lockFile,  \* the file beside config.json: who made it, what it says, its age
  config,    \* the edits config.json holds
  at,        \* per writer: where it stands
  held,      \* per writer: the config it read
  seen,      \* per writer: what breakAbandonedLock read of the lock
  ended,     \* the processes that exited or were killed
  recycled,  \* of those, the pids something else runs under
  mishaps     \* deaths and outlasted waits so far

lockVars == <<lockFile, config, at, held, seen, ended, recycled, mishaps>>

NoLock == [by |-> Noone, owner |-> Noone, old |-> FALSE]
Unread == "unread"
Unlooked == [owner |-> Unread, age |-> Unread]
Ages == {Unread, "gone", "young", "old"}

LockTypeOK ==
  /\ lockFile \in [by : Updater \cup {Noone}, owner : Updater \cup {Noone}, old : BOOLEAN]
  /\ config \subseteq Updater
  /\ at \in [Updater -> {"idle", "claim", "sign", "read", "write", "release", "look", "break",
                        "done", "failed"}]
  /\ held \in [Updater -> SUBSET Updater]
  /\ seen \in [Updater -> [owner : Updater \cup {Noone, Unread}, age : Ages]]
  /\ ended \subseteq Updater
  /\ recycled \subseteq ended
  /\ mishaps \in [deaths : 0 .. MaxDeath, waits : 0 .. MaxWait]

LockInit ==
  /\ lockFile = NoLock
  /\ config = {}
  /\ at = [w \in Updater |-> "idle"]
  /\ held = [w \in Updater |-> {}]
  /\ seen = [w \in Updater |-> Unlooked]
  /\ ended = {} /\ recycled = {}
  /\ mishaps = [deaths |-> 0, waits |-> 0]

-----------------------------------------------------------------------------
Locked == lockFile # NoLock
Step(w, from, to) ==
  at[w] = from /\ w \notin ended /\ at' = [at EXCEPT ![w] = to]

\* kill(pid, 0): anything that answers to the pid counts.
Alive(w) == w \notin ended \/ w \in recycled

BeginUpdate(w) ==
  /\ Step(w, "idle", "claim")
  /\ UNCHANGED <<lockFile, config, held, seen, ended, recycled, mishaps>>

\* claimLock: the file exists before the pid is in it.
ClaimLock(w) ==
  /\ IF Locked
     THEN Step(w, "claim", "look") /\ UNCHANGED lockFile
     ELSE Step(w, "claim", "sign") /\ lockFile' = [NoLock EXCEPT !.by = w]
  /\ UNCHANGED <<config, held, seen, ended, recycled, mishaps>>

\* The pid goes into the file that was opened, if it is still the one in place.
SignLock(w) ==
  /\ Step(w, "sign", "read")
  /\ lockFile' = IF lockFile.by = w THEN [lockFile EXCEPT !.owner = w] ELSE lockFile
  /\ UNCHANGED <<config, held, seen, ended, recycled, mishaps>>

ReadConfig(w) ==
  /\ Step(w, "read", "write")
  /\ held' = [held EXCEPT ![w] = config]
  /\ UNCHANGED <<lockFile, config, seen, ended, recycled, mishaps>>

WriteConfig(w) ==
  /\ Step(w, "write", "release")
  /\ config' = held[w] \cup {w}
  /\ UNCHANGED <<lockFile, held, seen, ended, recycled, mishaps>>

\* `rm(lockPath)`: whosever it is.
ReleaseLock(w) ==
  /\ Step(w, "release", "done")
  /\ lockFile' = NoLock
  /\ UNCHANGED <<config, held, seen, ended, recycled, mishaps>>

\* breakAbandonedLock reads the owner and the age side by side; the second of the
\* two may see another lock than the first.
Looks(w, look) ==
  /\ Step(w, "look", IF Unread \in {look.owner, look.age} THEN "look" ELSE "break")
  /\ seen' = [seen EXCEPT ![w] = look]
  /\ UNCHANGED <<lockFile, config, held, ended, recycled, mishaps>>

LookAtOwner(w) ==
  /\ seen[w].owner = Unread
  /\ Looks(w, [seen[w] EXCEPT !.owner = lockFile.owner])

StatLock(w) ==
  /\ seen[w].age = Unread
  /\ Looks(w, [seen[w] EXCEPT !.age =
       IF ~Locked THEN "gone" ELSE IF lockFile.old THEN "old" ELSE "young"])

\* Mutants: a lock nobody signed yet is nobody's; a lock is as good as its pid.
AbandonedUnsigned(w) ==
  /\ seen[w].age # "gone"
  /\ seen[w].age = "old" \/ seen[w].owner = Noone \/ ~Alive(seen[w].owner)

AbandonedByPid(w) == seen[w].age # "gone" /\ seen[w].owner # Noone /\ ~Alive(seen[w].owner)

\* Gone, still being written, or young and its owner alive: not abandoned.
Abandoned(w) ==
  /\ seen[w].age # "gone"
  /\ seen[w].age = "old" \/ (seen[w].owner # Noone /\ ~Alive(seen[w].owner))

BreakLock(w) ==
  /\ Step(w, "break", "claim") /\ Abandoned(w)
  /\ lockFile' = NoLock
  /\ seen' = [seen EXCEPT ![w] = Unlooked]
  /\ UNCHANGED <<config, held, ended, recycled, mishaps>>

WaitForLock(w) ==
  /\ Step(w, "break", "claim") /\ ~Abandoned(w)
  /\ seen' = [seen EXCEPT ![w] = Unlooked]
  /\ UNCHANGED <<lockFile, config, held, ended, recycled, mishaps>>

\* The wait has lasted CONFIG_LOCK_WAIT_MS: an error that names the lock.
GiveUp(w) ==
  /\ Step(w, "break", "failed") /\ ~Abandoned(w)
  /\ mishaps.waits < MaxWait /\ mishaps' = [mishaps EXCEPT !.waits = @ + 1]
  /\ seen' = [seen EXCEPT ![w] = Unlooked]
  /\ UNCHANGED <<lockFile, config, held, ended, recycled>>

\* A command exits when it is done ...
Exit(w) ==
  /\ at[w] \in {"done", "failed"} /\ w \notin ended
  /\ ended' = ended \cup {w}
  /\ UNCHANGED <<lockFile, config, at, held, seen, recycled, mishaps>>

\* ... or is killed wherever it is.
Die(w) ==
  /\ at[w] \notin {"idle", "done", "failed"} /\ w \notin ended
  /\ mishaps.deaths < MaxDeath /\ mishaps' = [mishaps EXCEPT !.deaths = @ + 1]
  /\ ended' = ended \cup {w}
  /\ UNCHANGED <<lockFile, config, at, held, seen, recycled>>

RecyclePid(w) ==
  /\ w \in ended \ recycled /\ Cardinality(recycled) < MaxRecycled
  /\ recycled' = recycled \cup {w}
  /\ UNCHANGED <<lockFile, config, at, held, seen, ended, mishaps>>

\* A lock is old after thirty seconds; a holder that lives holds it for milliseconds.
LockAges ==
  /\ Locked /\ ~lockFile.old /\ lockFile.by \in ended
  /\ lockFile' = [lockFile EXCEPT !.old = TRUE]
  /\ UNCHANGED <<config, at, held, seen, ended, recycled, mishaps>>

UpdateStep(w) ==
  \/ ClaimLock(w) \/ SignLock(w) \/ ReadConfig(w) \/ WriteConfig(w) \/ ReleaseLock(w)
  \/ LookAtOwner(w) \/ StatLock(w) \/ BreakLock(w) \/ WaitForLock(w) \/ GiveUp(w)

LockNext ==
  \/ \E w \in Updater :
       \/ BeginUpdate(w) \/ UpdateStep(w)
       \/ Exit(w) \/ Die(w) \/ RecyclePid(w)
  \/ LockAges

LockSpec == LockInit /\ [][LockNext]_lockVars

\* A process that runs goes on, and time passes.
LockFairness ==
  /\ \A w \in Updater : WF_lockVars(UpdateStep(w))
  /\ WF_lockVars(LockAges)

-----------------------------------------------------------------------------
(* Properties.                                                             *)

Landed == {w \in Updater : at[w] \in {"release", "done"}} \subseteq config

\* While the processes that contend for the file live, no edit is lost: not to a
\* second claim, and not to a reader of a lock whose pid is still being written.
NoEditLostAmongTheLiving == ended = {} => Landed

\* A process killed with the lock in its hands does not wedge the file, signed or
\* not, its pid recycled or not: whoever waits gets its turn.
NobodyWaitsForTheDead ==
  \A w \in Updater :
    [](at[w] = "claim" => <>(w \in ended \/ at[w] \in {"read", "done", "failed"}))

\* The comment over updateLocalConfig states the only way to lose an edit: "That
\* requires a previous holder to have crashed".  It fails: the owner a waiter reads may
\* be of a lock that is released since, its process finished and gone by the time it is
\* asked for, and what is broken is the lock of the next one.
LosingTakesACrash == mishaps.deaths = 0 => Landed
=============================================================================
