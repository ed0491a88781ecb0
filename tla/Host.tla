-------------------------------- MODULE Host --------------------------------
(***************************************************************************)
(* One runner process: the poll ticks that claim jobs and may overlap, the *)
(* clean stop, the sandbox each job provisions and disposes of, and the    *)
(* sessions of the egress gateway with the connections the containers open *)
(* through it.                                                             *)
(*                                                                         *)
(* What a job does inside its sandbox is in Rounds; here it starts         *)
(* containers and ends.                                                    *)
(***************************************************************************)
EXTENDS Integers, FiniteSets, FiniteSetsExt

CONSTANTS
  HostRun,            \* the runs the control plane may hand this machine
  Walled,             \* those whose egress passes through the gateway
  PollTick,           \* the ticks that can be under way at once
  Wire,               \* the connections a container opens to the gateway
  MaxConcurrent,      \* maxConcurrentJobs
  MaxLeft             \* bound: containers and stubs that stay

ASSUME HostAssumption ==
  /\ HostRun # {} /\ Walled \subseteq HostRun
  /\ IsFiniteSet(PollTick)
  /\ MaxConcurrent \in Nat \ {0}
  /\ MaxLeft \in Nat

VARIABLES
  host,               \* running, draining after a signal, closing, exited
  asked,              \* the capacity each tick announced, 0 when it is idle
  answer,             \* the jobs the control plane handed to each tick
  inFlight,           \* the runs whose executeJob has not settled
  box,                \* where each run's sandbox is
  sessions,           \* the runs whose token the gateway knows
  tracked,            \* the connections in their session's socket set
  wires,              \* what each connection is doing, and for which run
  upstream,           \* its request to the real host
  containers, stubs,  \* what each run has on the machine
  misfortunes         \* failures so far, for the bound

hostVars ==
  <<host, asked, answer, inFlight, box, sessions, tracked, wires, upstream,
    containers, stubs, misfortunes>>

pollVars == <<host, asked, answer>>
gateVars == <<sessions, tracked, wires, upstream>>

Doors == {"request", "upgrade", "connect"}
Hung == [run |-> CHOOSE r \in HostRun : TRUE, at |-> "closed"]

HostTypeOK ==
  /\ host \in {"running", "draining", "closing", "exited"}
  /\ asked \in [PollTick -> 0 .. MaxConcurrent]
  /\ answer \in [PollTick -> SUBSET HostRun]
  /\ inFlight \subseteq HostRun
  /\ box \in [HostRun -> {"none", "preparing", "opened", "ready", "running",
                          "revoking", "removing", "unstubbing", "over"}]
  /\ sessions \subseteq HostRun
  /\ tracked \subseteq Wire
  /\ wires \in [Wire -> [run: HostRun,
                         at: {"open", "asking", "relaying", "closed"}]]
  /\ upstream \in [Wire -> {"none", "waiting", "relaying"}]
  /\ containers \subseteq HostRun
  /\ stubs \subseteq HostRun
  /\ misfortunes \in 0 .. MaxLeft

HostInit ==
  /\ host = "running"
  /\ asked = [t \in PollTick |-> 0]
  /\ answer = [t \in PollTick |-> {}]
  /\ inFlight = {}
  /\ box = [r \in HostRun |-> "none"]
  /\ sessions = {}
  /\ tracked = {}
  /\ wires = [c \in Wire |-> Hung]
  /\ upstream = [c \in Wire |-> "none"]
  /\ containers = {}
  /\ stubs = {}
  /\ misfortunes = 0

Misfortune ==
  /\ misfortunes < MaxLeft
  /\ misfortunes' = misfortunes + 1

-----------------------------------------------------------------------------
(* Polling and stopping *)

(* Mutant: the jobs that are running count for nothing. *)
FullCapacity == MaxConcurrent

(* A tick reads the free capacity and posts the claim.  setInterval does   *)
(* not wait for the tick before it.                                        *)
FreeCapacity == MaxConcurrent - Cardinality(inFlight)

TickAsks(t) ==
  /\ host = "running"
  /\ asked[t] = 0
  /\ FreeCapacity > 0
  /\ asked' = [asked EXCEPT ![t] = FreeCapacity]
  /\ UNCHANGED <<host, answer, inFlight, box, gateVars, containers, stubs, misfortunes>>

(* The control plane claims up to that many jobs for this machine (the     *)
(* transaction itself is in Foreman).                                      *)
HandsOut(t) ==
  /\ asked[t] > 0
  /\ answer[t] = {}
  /\ \E jobs \in SUBSET {r \in HostRun : box[r] = "none"
                                         /\ \A u \in PollTick : r \notin answer[u]} :
       /\ IsFiniteSet(jobs) /\ Cardinality(jobs) \in 1 .. asked[t]
       /\ answer' = [answer EXCEPT ![t] = jobs]
  /\ UNCHANGED <<host, asked, inFlight, box, gateVars, containers, stubs, misfortunes>>

(* The answer arrives, with no jobs or with some; `stopping` was looked at *)
(* before the request and is not looked at again.                          *)
TickStarts(t) ==
  /\ host # "exited"
  /\ asked[t] > 0
  /\ inFlight' = inFlight \cup answer[t]
  /\ box' = [r \in HostRun |-> IF r \in answer[t] THEN "preparing" ELSE box[r]]
  /\ asked' = [asked EXCEPT ![t] = 0]
  /\ answer' = [answer EXCEPT ![t] = {}]
  /\ UNCHANGED <<host, gateVars, containers, stubs, misfortunes>>

(* The claim is refused, times out, or its answer is lost with the jobs in *)
(* it: the tick throws and the next one asks afresh.  What is handed out   *)
(* after a loss is another run by the same name.                           *)
TickFails(t) ==
  /\ host # "exited"
  /\ asked[t] > 0
  /\ asked' = [asked EXCEPT ![t] = 0]
  /\ answer' = [answer EXCEPT ![t] = {}]
  /\ UNCHANGED <<host, inFlight, box, gateVars, containers, stubs, misfortunes>>

(* SIGINT or SIGTERM *)
Shutdown ==
  /\ host = "running"
  /\ host' = "draining"
  /\ UNCHANGED <<asked, answer, inFlight, box, gateVars, containers, stubs, misfortunes>>

(* The wait for the last job is over: the gateway drops every session and  *)
(* what it opened ...                                                      *)
CloseGateway ==
  /\ host = "draining"
  /\ inFlight = {}
  /\ host' = "closing"
  /\ wires' = [c \in Wire |-> [wires[c] EXCEPT !.at = "closed"]]
  /\ upstream' = [c \in Wire |-> IF upstream[c] = "relaying" THEN "none" ELSE upstream[c]]
  /\ tracked' = {}
  /\ sessions' = {}
  /\ UNCHANGED <<asked, answer, inFlight, box, containers, stubs, misfortunes>>

(* ... and the process ends once the listener has closed.                  *)
Exit ==
  /\ host = "closing"
  /\ host' = "exited"
  /\ UNCHANGED <<asked, answer, inFlight, box, gateVars, containers, stubs, misfortunes>>

-----------------------------------------------------------------------------
(* The sandbox of one run *)

Alive == host # "exited"

Boxed(r, from, to) ==
  /\ Alive
  /\ box[r] = from
  /\ box' = [box EXCEPT ![r] = to]

(* provision(): the image is there, the configuration is sound, and a      *)
(* walled run gets a session of its own.                                   *)
OpenSession(r) ==
  /\ Boxed(r, "preparing", IF r \in Walled THEN "opened" ELSE "ready")
  /\ sessions' = IF r \in Walled THEN sessions \cup {r} ELSE sessions
  /\ UNCHANGED <<pollVars, inFlight, tracked, wires, upstream, containers, stubs, misfortunes>>

(* ... and the placeholder credentials are written for it to mount.        *)
WriteStubs(r) ==
  /\ Boxed(r, "opened", "ready")
  /\ stubs' = stubs \cup {r}
  /\ UNCHANGED <<pollVars, inFlight, gateVars, containers, misfortunes>>

(* It throws before the session is opened, or with the stubs half written. *)
ProvisionThrows(r) ==
  /\ \/ Boxed(r, "preparing", "revoking") /\ UNCHANGED stubs
     \/ Boxed(r, "opened", "revoking") /\ stubs' \in {stubs, stubs \cup {r}}
  /\ UNCHANGED <<pollVars, inFlight, gateVars, containers, misfortunes>>

(* exec(): `docker run --rm`, and its end.  A run killed at its timeout    *)
(* leaves the container behind.                                            *)
Exec(r) ==
  /\ Boxed(r, "ready", "running")
  /\ containers' = containers \cup {r}
  /\ UNCHANGED <<pollVars, inFlight, gateVars, stubs, misfortunes>>

ExecEnds(r) ==
  /\ Boxed(r, "running", "ready")
  /\ \/ containers' = containers \ {r} /\ UNCHANGED misfortunes
     \/ Misfortune /\ UNCHANGED containers
  /\ UNCHANGED <<pollVars, inFlight, gateVars, stubs>>

(* executeJob is over, whichever way, and its `finally` disposes.          *)
JobEnds(r) ==
  /\ Boxed(r, "ready", "revoking")
  /\ UNCHANGED <<pollVars, inFlight, gateVars, containers, stubs, misfortunes>>

(* Mutant: the token goes, and the connections it opened stay. *)
RevokeTokenOnly(r) ==
  /\ Boxed(r, "revoking", "removing")
  /\ sessions' = sessions \ {r}
  /\ UNCHANGED <<pollVars, inFlight, tracked, wires, upstream, containers, stubs, misfortunes>>

(* dispose(): the token first, with every connection its session tracks;   *)
(* destroying one end of a relay ends the other.                           *)
Revoke(r) ==
  /\ Boxed(r, "revoking", "removing")
  /\ LET gone == {c \in tracked : wires[c].run = r /\ r \in sessions} IN
       /\ wires' = [c \in Wire |->
                      IF c \in gone THEN [wires[c] EXCEPT !.at = "closed"] ELSE wires[c]]
       /\ upstream' = [c \in Wire |->
                         IF c \in gone /\ upstream[c] = "relaying" THEN "none"
                         ELSE upstream[c]]
       /\ tracked' = tracked \ gone
  /\ sessions' = sessions \ {r}
  /\ UNCHANGED <<pollVars, inFlight, containers, stubs, misfortunes>>

(* then the containers, whose removal may fail or hang and is then only    *)
(* reported; a removed container's connections close with it               *)
RemoveContainers(r) ==
  /\ Boxed(r, "removing", "unstubbing")
  /\ \/ /\ containers' = containers \ {r}
        /\ UNCHANGED misfortunes
     \/ /\ r \in containers
        /\ Misfortune
        /\ UNCHANGED containers
  /\ UNCHANGED <<pollVars, inFlight, gateVars, stubs>>

(* then the stubs, whose removal may fail unheard; and executeJob settles  *)
RemoveStubs(r) ==
  /\ Boxed(r, "unstubbing", "over")
  /\ \/ /\ stubs' = stubs \ {r}
        /\ UNCHANGED misfortunes
     \/ /\ r \in stubs
        /\ Misfortune
        /\ UNCHANGED stubs
  /\ inFlight' = inFlight \ {r}
  /\ UNCHANGED <<pollVars, gateVars, containers>>

-----------------------------------------------------------------------------
(* The gateway *)

Listening == host \in {"running", "draining"}

(* A container knocks at one of the proxy's three doors with its token.    *)
(* The request and upgrade doors hold the socket and then look at the      *)
(* target; CONNECT looks first and holds a tunnel it accepts.              *)
Knock(c, r, door, allowed) ==
  /\ Listening
  /\ r \in containers
  /\ wires[c].at = "closed"
  /\ upstream[c] = "none"
  /\ r \in sessions                       \* no session: challenged with a 407
  /\ \/ /\ door = "connect"
        /\ allowed                        \* refused with a 403 otherwise
        /\ wires' = [wires EXCEPT ![c] = [run |-> r, at |-> "open"]]
        /\ UNCHANGED upstream
     \/ /\ door \in {"request", "upgrade"}
        /\ allowed
        /\ wires' = [wires EXCEPT ![c] = [run |-> r, at |-> "asking"]]
        /\ upstream' = [upstream EXCEPT ![c] = "waiting"]
     \/ /\ door = "request"               \* refused, on a socket kept alive
        /\ ~allowed
        /\ wires' = [wires EXCEPT ![c] = [run |-> r, at |-> "open"]]
        /\ UNCHANGED upstream
  /\ tracked' = tracked \cup {c}
  /\ UNCHANGED <<pollVars, inFlight, box, sessions, containers, stubs, misfortunes>>

(* A further request on an open connection, a tunnel or one kept alive:    *)
(* the grant is checked again.                                             *)
AskAgain(c) ==
  /\ Listening
  /\ wires[c].at = "open"
  /\ upstream[c] = "none"
  /\ wires[c].run \in sessions
  /\ wires' = [wires EXCEPT ![c].at = "asking"]
  /\ upstream' = [upstream EXCEPT ![c] = "waiting"]
  /\ UNCHANGED <<pollVars, inFlight, box, sessions, tracked, containers, stubs, misfortunes>>

(* The real host answers.  A client that is gone has the answer destroyed; *)
(* where the request was an upgrade, an accepted one becomes a relay.      *)
UpstreamAnswers(c) ==
  /\ upstream[c] = "waiting"
  /\ Alive
  /\ \/ /\ wires[c].at # "asking"
        /\ upstream' = [upstream EXCEPT ![c] = "none"]
        /\ UNCHANGED wires
     \/ /\ wires[c].at = "asking"
        /\ wires' = [wires EXCEPT ![c].at = "open"]
        /\ upstream' = [upstream EXCEPT ![c] = "none"]
     \/ /\ wires[c].at = "asking"
        /\ wires' = [wires EXCEPT ![c].at = "relaying"]
        /\ upstream' = [upstream EXCEPT ![c] = "relaying"]
  /\ UNCHANGED <<pollVars, inFlight, box, sessions, tracked, containers, stubs, misfortunes>>

(* The client closes: its session forgets the socket, and a relay's other  *)
(* end goes with it.                                                       *)
HangUp(c) ==
  /\ wires[c].at # "closed"
  /\ wires' = [wires EXCEPT ![c].at = "closed"]
  /\ tracked' = tracked \ {c}
  /\ upstream' = IF upstream[c] = "relaying" THEN [upstream EXCEPT ![c] = "none"] ELSE upstream
  /\ UNCHANGED <<pollVars, inFlight, box, sessions, containers, stubs, misfortunes>>

-----------------------------------------------------------------------------
(* A container the daemon would not remove ends by itself at some point.   *)
OrphanEnds(r) ==
  /\ r \in containers
  /\ box[r] = "over"
  /\ containers' = containers \ {r}
  /\ UNCHANGED <<pollVars, inFlight, box, gateVars, stubs, misfortunes>>

HostNext ==
  \/ \E t \in PollTick : TickAsks(t) \/ HandsOut(t) \/ TickStarts(t) \/ TickFails(t)
  \/ Shutdown \/ CloseGateway \/ Exit
  \/ \E r \in HostRun :
       \/ OpenSession(r) \/ WriteStubs(r) \/ ProvisionThrows(r)
       \/ Exec(r) \/ ExecEnds(r) \/ JobEnds(r)
       \/ Revoke(r) \/ RemoveContainers(r) \/ RemoveStubs(r) \/ OrphanEnds(r)
  \/ \E c \in Wire :
       \/ \E r \in HostRun, door \in Doors, allowed \in BOOLEAN : Knock(c, r, door, allowed)
       \/ AskAgain(c) \/ UpstreamAnswers(c) \/ HangUp(c)

HostSpec == HostInit /\ [][HostNext]_hostVars

-----------------------------------------------------------------------------
(* Once a job has settled nothing of it reaches the network, whatever step *)
(* its provisioning stopped at and whatever its containers, one of which   *)
(* may refuse to die, were doing: no token, no connection, no relay.  Its  *)
(* containers and stubs are off the machine too, unless a removal failed   *)
(* or a kill left one behind: nothing but such a failure leaves any.       *)
(* (container.ts dispose, server.ts revoke and hold, and the `finally` of  *)
(* executeJob)                                                             *)
NothingOutlivesItsJob ==
  \A r \in HostRun :
    box[r] = "over" =>
      /\ r \notin sessions
      /\ \A c \in Wire : wires[c].run = r =>
           wires[c].at = "closed" /\ upstream[c] # "relaying"
      /\ misfortunes = 0 => r \notin containers /\ r \notin stubs

(* A machine runs no more jobs than its limit for every tick that can be   *)
(* under way at once, counting those an answer still carries: ticks that   *)
(* overlap announce the same free capacity, and nothing else raises it.    *)
(* (runner/main.ts tick)                                                   *)
CapacityUpToTheOverlap ==
  Cardinality(inFlight) + Cardinality(UNION {answer[t] : t \in PollTick})
    <= MaxConcurrent * Cardinality(PollTick)

(* A clean stop leaves no claimed job behind.  (runner/main.ts shutdown:   *)
(* "In-flight jobs are allowed to finish rather than being orphaned".)     *)
(* It fails: jobs in an answer on its way to a tick are in nobody's wait.  *)
CleanStopOrphansNothing ==
  host = "exited" =>
    /\ inFlight = {}
    /\ \A t \in PollTick : answer[t] = {}
=============================================================================
