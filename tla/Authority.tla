------------------------------ MODULE Authority ------------------------------
(***************************************************************************)
(* loadOrCreateCa of gateway/ca.ts: the certificate authority of the       *)
(* machine's gateways, two files that only mean something as a pair,       *)
(* generated once by whichever process starts first, under ca.lock.        *)
(*                                                                         *)
(* A gateway signs with the pair it holds in memory; a container trusts    *)
(* the certificate on disk, which is mounted into it (container.ts).       *)
(***************************************************************************)
EXTENDS Naturals, FiniteSets

CONSTANTS
  Starter,     \* processes that start a gateway
  MaxPair,     \* bound: pairs ever generated, those found on disk included
  MaxKilled    \* bound: processes killed before they serve

Nobody == "nobody"

ASSUME AuthorityAssumption ==
  /\ Nobody \notin Starter
  /\ MaxPair \in Nat \ {0, 1} /\ MaxKilled \in Nat

VARIABLES
  keyFile,   \* ca.key: the number of the pair it is half of
  certFile,  \* ca.pem, likewise
  caLock,    \* ca.lock: who made it, whether the pid is in it, its age
  start,     \* per process: where it stands
  material,  \* per process: the pair it has in hand
  judged,    \* per process: what it read of the lock of another
  killed,    \* processes that are no more
  pairs,     \* observation: pairs so far
  robbed     \* observation: a lock was removed under a living holder

authorityVars == <<keyFile, certFile, caLock, start, material, judged, killed, pairs, robbed>>

NoFile == 0
PairId == NoFile .. MaxPair
Unlocked == [by |-> Nobody, owner |-> Nobody, old |-> FALSE]
NoMaterial == [key |-> NoFile, cert |-> NoFile]

\* Where a process loads the pair, and the second half of that: on the fast path,
\* holding the lock, and while it waits for another.
Half == [first |-> "first cert", holding |-> "holding cert", waiting |-> "waiting cert"]
Loads == DOMAIN Half
StartStages ==
  {"idle", "claim", "sign", "generate", "rename cert", "rename key", "release", "unwind",
   "owner", "age", "break", "serving", "failed"}
    \cup Loads \cup {Half[l] : l \in Loads}

AuthorityTypeOK ==
  /\ keyFile \in PairId /\ certFile \in PairId /\ pairs \in PairId
  /\ caLock \in [by : Starter \cup {Nobody}, owner : Starter \cup {Nobody}, old : BOOLEAN]
  /\ start \in [Starter -> StartStages]
  /\ material \in [Starter -> [key : PairId, cert : PairId]]
  /\ judged \in [Starter -> Starter \cup {Nobody}]
  /\ killed \subseteq Starter
  /\ robbed \in BOOLEAN

\* A fresh machine, one that was set up before, or one with half a directory
\* restored from a backup; and an earlier start may have been killed with the lock.
AuthorityInit ==
  /\ \/ keyFile = NoFile /\ certFile = NoFile /\ pairs = 0
     \/ keyFile = 1 /\ certFile = 1 /\ pairs = 1
     \/ keyFile = 1 /\ certFile = 2 /\ pairs = 2
  /\ \/ killed = {} /\ caLock = Unlocked
     \/ \E p \in Starter :
          /\ killed = {p}
          /\ caLock \in {Unlocked} \cup [by : {p}, owner : {p, Nobody}, old : {FALSE}]
  /\ start = [p \in Starter |-> "idle"]
  /\ material = [p \in Starter |-> NoMaterial]
  /\ judged = [p \in Starter |-> Nobody]
  /\ robbed = FALSE

-----------------------------------------------------------------------------
StartTo(p, from, to) ==
  start[p] = from /\ p \notin killed /\ start' = [start EXCEPT ![p] = to]
Held == caLock # Unlocked

BeginStart(p) ==
  /\ StartTo(p, "idle", "first")
  /\ UNCHANGED <<keyFile, certFile, caLock, material, judged, killed, pairs, robbed>>

\* What follows loadPair, with a pair and without.
Loaded(l) == IF l = "holding" THEN "release" ELSE "serving"
NotLoaded(l) ==
  CASE l = "first" -> "claim" [] l = "holding" -> "generate" [] OTHER -> "owner"

\* loadPair reads two files, one after the other ...
LoadKey(p, l) ==
  /\ IF keyFile = NoFile \/ certFile = NoFile
     THEN /\ StartTo(p, l, NotLoaded(l))
          /\ UNCHANGED material
     ELSE /\ StartTo(p, l, Half[l])
          /\ material' = [material EXCEPT ![p] = [key |-> keyFile, cert |-> NoFile]]
  /\ UNCHANGED <<keyFile, certFile, caLock, judged, killed, pairs, robbed>>

\* Mutant: both files parse, so the pair is one.
LoadCertUnchecked(p, l) ==
  /\ StartTo(p, Half[l], Loaded(l))
  /\ material' = [material EXCEPT ![p] = [@ EXCEPT !.cert = certFile]]
  /\ UNCHANGED <<keyFile, certFile, caLock, judged, killed, pairs, robbed>>

\* ... and takes them for a pair only if they are one (checkPrivateKey).
LoadCert(p, l) ==
  /\ IF material[p].key = certFile
     THEN /\ StartTo(p, Half[l], Loaded(l))
          /\ material' = [material EXCEPT ![p] = [@ EXCEPT !.cert = certFile]]
     ELSE /\ StartTo(p, Half[l], NotLoaded(l))
          /\ material' = [material EXCEPT ![p] = NoMaterial]
  /\ UNCHANGED <<keyFile, certFile, caLock, judged, killed, pairs, robbed>>

\* claim: the file exists before the pid is in it.
ClaimCa(p) ==
  /\ IF Held
     THEN StartTo(p, "claim", "waiting") /\ UNCHANGED caLock
     ELSE StartTo(p, "claim", "sign") /\ caLock' = [Unlocked EXCEPT !.by = p]
  /\ UNCHANGED <<keyFile, certFile, material, judged, killed, pairs, robbed>>

\* Whoever holds the lock loads again: the last holder may have been done.
SignCa(p) ==
  /\ StartTo(p, "sign", "holding")
  /\ caLock' = IF caLock.by = p THEN [caLock EXCEPT !.owner = p] ELSE caLock
  /\ UNCHANGED <<keyFile, certFile, material, judged, killed, pairs, robbed>>

GenerateCa(p) ==
  /\ StartTo(p, "generate", "rename cert")
  /\ pairs < MaxPair /\ pairs' = pairs + 1
  /\ material' = [material EXCEPT ![p] = [key |-> pairs', cert |-> pairs']]
  /\ UNCHANGED <<keyFile, certFile, caLock, judged, killed, robbed>>

RenameCert(p) ==
  /\ StartTo(p, "rename cert", "rename key")
  /\ certFile' = material[p].cert
  /\ UNCHANGED <<keyFile, caLock, material, judged, killed, pairs, robbed>>

RenameKey(p) ==
  /\ StartTo(p, "rename key", "release")
  /\ keyFile' = material[p].key
  /\ UNCHANGED <<certFile, caLock, material, judged, killed, pairs, robbed>>

\* A temporary file or a rename that fails: the error leaves through `finally`.
GenerateFails(p) ==
  /\ \E stage \in {"generate", "rename cert", "rename key"} : StartTo(p, stage, "unwind")
  /\ UNCHANGED <<keyFile, certFile, caLock, material, judged, killed, pairs, robbed>>

\* rmSync, whosever the lock is.
RemoveCaLock(p) ==
  /\ caLock' = Unlocked
  /\ robbed' = (robbed \/ (Held /\ caLock.by # p /\ caLock.by \notin killed))

ReleaseCa(p) ==
  /\ StartTo(p, "release", "serving") \/ StartTo(p, "unwind", "failed")
  /\ RemoveCaLock(p)
  /\ UNCHANGED <<keyFile, certFile, material, judged, killed, pairs>>

-----------------------------------------------------------------------------
(* breakIfAbandoned.                                                       *)

\* Gone underneath: nothing was broken, and the wait goes on, or has lasted too long.
WaitForCa(p, stage) == StartTo(p, stage, "claim") \/ StartTo(p, stage, "failed")

ReadCaOwner(p) ==
  /\ IF Held THEN StartTo(p, "owner", "age") ELSE WaitForCa(p, "owner")
  /\ judged' = [judged EXCEPT ![p] = caLock.owner]
  /\ UNCHANGED <<keyFile, certFile, caLock, material, killed, pairs, robbed>>

\* A lock with no pid in it yet names nobody who is alive.
OwnerAlive(p) == judged[p] \notin killed \cup {Nobody}
StatCaLock(p) ==
  /\ IF Held /\ (caLock.old \/ ~OwnerAlive(p))
     THEN StartTo(p, "age", "break")
     ELSE WaitForCa(p, "age")
  /\ judged' = [judged EXCEPT ![p] = Nobody]
  /\ UNCHANGED <<keyFile, certFile, caLock, material, killed, pairs, robbed>>

BreakCaLock(p) ==
  /\ StartTo(p, "break", "claim")
  /\ RemoveCaLock(p)
  /\ UNCHANGED <<keyFile, certFile, material, judged, killed, pairs>>

-----------------------------------------------------------------------------
Starting == {p \in Starter : start[p] \notin {"idle", "serving", "failed"} /\ p \notin killed}

KillStarter(p) ==
  /\ p \in Starting /\ Cardinality(killed) < MaxKilled
  /\ killed' = killed \cup {p}
  /\ UNCHANGED <<keyFile, certFile, caLock, start, material, judged, pairs, robbed>>

\* CA_LOCK_STALE_MS under a holder that is stuck: a machine put to sleep.
CaLockAges ==
  /\ Held /\ ~caLock.old
  /\ caLock' = [caLock EXCEPT !.old = TRUE]
  /\ UNCHANGED <<keyFile, certFile, start, material, judged, killed, pairs, robbed>>

StartStep(p) ==
  \/ BeginStart(p) \/ ClaimCa(p) \/ SignCa(p)
  \/ \E l \in Loads : LoadKey(p, l) \/ LoadCert(p, l)
  \/ GenerateCa(p) \/ RenameCert(p) \/ RenameKey(p) \/ GenerateFails(p) \/ ReleaseCa(p)
  \/ ReadCaOwner(p) \/ StatCaLock(p) \/ BreakCaLock(p)

AuthorityNext ==
  \/ \E p \in Starter : StartStep(p) \/ KillStarter(p)
  \/ CaLockAges

AuthoritySpec == AuthorityInit /\ [][AuthorityNext]_authorityVars

-----------------------------------------------------------------------------
Serving == {p \in Starter : start[p] = "serving"}

\* "Every leaf that CA signs is then signed by a key the certificate does not name.
\* Nothing detects it here" (loadOrCreateCa): a gateway never signs with a key its
\* certificate is not of, whatever starts, stops and failures meet; and as long as
\* no lock was removed under a living holder, the certificate a container is given
\* is the one its gateway signs under.
ServedIsTrusted ==
  \A p \in Serving :
    /\ material[p].key = material[p].cert
    /\ ~robbed => keyFile = material[p].key /\ certFile = material[p].cert

\* "Two processes can in principle break one stale lock together and both generate
\* ... only after a crash" (createCa): with nobody killed and no lock left for
\* thirty seconds, no lock is removed under its holder.  It fails: the file exists
\* before the pid is in it, and one that names nobody counts as abandoned.
RobbingTakesACrash ==
  [][robbed' /\ ~robbed /\ killed = {} => caLock.old]_authorityVars
=============================================================================
