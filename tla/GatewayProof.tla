---------------------------- MODULE GatewayProof ----------------------------
(***************************************************************************)
(* The runner's process and the gateway: what outlives a job, how many jobs *)
(* run, which credential is injected and which certificate is served.  For *)
(* any number of runs, ticks, sockets, tokens and starters.                *)
(***************************************************************************)
EXTENDS Host, ConnectionReader, Authority, FiniteSetTheorems, TLAPS

-----------------------------------------------------------------------------
(* Ticks, sandboxes, sessions and sockets (main.ts, container.ts, server.ts). *)

\* Sockets of a sandbox, and the stages of the sandbox itself.
WireStates == [run : HostRun, at : {"open", "asking", "relaying", "closed"}]
BoxStages ==
  {"none", "preparing", "opened", "ready", "running", "revoking", "removing", "unstubbing", "over"}

\* A wire that changes keeps the run it belongs to.
LEMMA WireUpdates ==
  ASSUME NEW w \in WireStates, NEW at \in {"open", "asking", "relaying", "closed"}
  PROVE  /\ [w EXCEPT !.at = at] \in WireStates
         /\ [w EXCEPT !.at = at].at = at /\ [w EXCEPT !.at = at].run = w.run
BY DEF WireStates

\* What the stage of a run's sandbox says of its token; and, as long as nothing has failed, of
\* its stubs and its containers.
InHand ==
  \A r \in HostRun :
    /\ r \in sessions => box[r] \in {"opened", "ready", "running", "revoking"}
    /\ misfortunes = 0 /\ r \in stubs =>
         box[r] \in {"ready", "running", "revoking", "removing", "unstubbing"}
    /\ misfortunes = 0 /\ r \in containers => box[r] = "running"

\* A socket that is not closed is tracked by the session it belongs to.
WireHeld(c) ==
  /\ wires[c].at # "closed" => c \in tracked /\ wires[c].run \in sessions
  /\ upstream[c] = "relaying" => wires[c].at # "closed"

\* A job is in one answer at a time, and in none once it has begun.
Handed ==
  \A t, u \in PollTick : \A r \in answer[t] : box[r] = "none" /\ (r \in answer[u] => u = t)

\* The types.
HostShape ==
  /\ box \in [HostRun -> BoxStages]
  /\ sessions \subseteq HostRun /\ stubs \subseteq HostRun
  /\ answer \in [PollTick -> SUBSET HostRun]
  /\ wires \in [Wire -> WireStates]
  /\ upstream \in [Wire -> {"none", "waiting", "relaying"}]
  /\ misfortunes \in Nat

\* The inductive invariant of the process, its sandboxes and the gateway.
HostInv == HostShape /\ InHand /\ Handed /\ \A c \in Wire : WireHeld(c)

\* One sandbox moves on, and the gateway's connections stay as they are.
LEMMA BoxMoves ==
  ASSUME HostInv, NEW r \in HostRun, NEW from \in BoxStages, NEW to \in BoxStages, Boxed(r, from, to),
         from # "none", UNCHANGED <<answer, tracked, wires, upstream>>,
         sessions' \subseteq HostRun, stubs' \subseteq HostRun, sessions \subseteq sessions',
         misfortunes' \in Nat, misfortunes' = 0 => misfortunes = 0,
         \A q \in HostRun : q # r =>
           /\ q \in sessions' => q \in sessions
           /\ q \in stubs' => q \in stubs
           /\ q \in containers' => q \in containers,
         r \in sessions' => to \in {"opened", "ready", "running", "revoking"},
         misfortunes' = 0 /\ r \in stubs' =>
           to \in {"ready", "running", "revoking", "removing", "unstubbing"},
         misfortunes' = 0 /\ r \in containers' => to = "running"
  PROVE  HostInv'
<1>1. HostShape'
  BY DEF HostInv, HostShape, Boxed
<1>2. box'[r] = to /\ \A q \in HostRun : q # r => box'[q] = box[q]
  BY DEF HostInv, HostShape, Boxed
<1>3. InHand'
  <2>1. ASSUME NEW q \in HostRun, q # r
        PROVE  /\ q \in sessions' => box'[q] \in {"opened", "ready", "running", "revoking"}
               /\ misfortunes' = 0 /\ q \in stubs' =>
                    box'[q] \in {"ready", "running", "revoking", "removing", "unstubbing"}
               /\ misfortunes' = 0 /\ q \in containers' => box'[q] = "running"
    BY <1>2, <2>1 DEF HostInv, InHand
  <2>2. ASSUME NEW q \in HostRun, q = r
        PROVE  /\ q \in sessions' => box'[q] \in {"opened", "ready", "running", "revoking"}
               /\ misfortunes' = 0 /\ q \in stubs' =>
                    box'[q] \in {"ready", "running", "revoking", "removing", "unstubbing"}
               /\ misfortunes' = 0 /\ q \in containers' => box'[q] = "running"
    BY <1>2, <2>2
  <2> QED
    BY <2>1, <2>2 DEF InHand
<1>4. Handed'
  BY <1>2 DEF HostInv, HostShape, Handed, Boxed
<1>5. \A c \in Wire : WireHeld(c)'
  BY DEF HostInv, WireHeld
<1> QED
  BY <1>1, <1>3, <1>4, <1>5 DEF HostInv

\* One connection changes.
LEMMA WireMoves ==
  ASSUME HostInv, NEW c \in Wire, UNCHANGED <<box, sessions, stubs, answer, containers, misfortunes>>,
         wires' \in [Wire -> WireStates], upstream' \in [Wire -> {"none", "waiting", "relaying"}],
         \A d \in Wire : d # c => /\ wires'[d] = wires[d] /\ upstream'[d] = upstream[d]
                                  /\ (d \in tracked => d \in tracked'),
         WireHeld(c)'
  PROVE  HostInv'
<1>1. HostShape' /\ InHand' /\ Handed'
  BY DEF HostInv, HostShape, InHand, Handed
<1>2. \A d \in Wire : WireHeld(d)'
  BY DEF HostInv, WireHeld
<1> QED
  BY <1>1, <1>2 DEF HostInv

\* One connection changes its state, and may leave the tracked ones as it closes.
LEMMA OneWireMoves ==
  ASSUME HostInv, NEW c \in Wire, UNCHANGED <<box, sessions, stubs, answer, containers, misfortunes>>,
         NEW at \in {"open", "asking", "relaying", "closed"}, NEW up \in {"none", "waiting", "relaying"},
         wires' = [wires EXCEPT ![c] = [wires[c] EXCEPT !.at = at]],
         upstream' = [upstream EXCEPT ![c] = up],
         \A d \in Wire : d # c /\ d \in tracked => d \in tracked',
         \/ at = "closed" /\ up # "relaying"
         \/ at # "closed" /\ wires[c].at # "closed" /\ tracked' = tracked
  PROVE  HostInv'
<1> DEFINE w == [wires[c] EXCEPT !.at = at]
<1>0. HostShape /\ wires[c] \in WireStates
  BY DEF HostInv, HostShape
<1>1. w \in WireStates /\ w.at = at /\ w.run = wires[c].run
  BY <1>0, WireUpdates
<1>2. wires' = [wires EXCEPT ![c] = w]
  OBVIOUS
<1> HIDE DEF w
<1>3. /\ wires' \in [Wire -> WireStates] /\ upstream' \in [Wire -> {"none", "waiting", "relaying"}]
      /\ wires'[c] = w /\ upstream'[c] = up
      /\ \A d \in Wire : d # c => wires'[d] = wires[d] /\ upstream'[d] = upstream[d]
  BY <1>0, <1>1, <1>2 DEF HostShape
<1>4. WireHeld(c)'
  BY <1>1, <1>3 DEF HostInv, WireHeld
<1> QED
  BY <1>3, <1>4, WireMoves

\* Every step of the runner's process, its sandboxes and the gateway keeps the invariant.
LEMMA HostInvHolds == HostSpec => []HostInv
<1>1. HostInit => HostInv
  <2> SUFFICES ASSUME HostInit PROVE HostInv
    OBVIOUS
  <2>1. Hung \in WireStates /\ Hung.at = "closed"
    BY HostAssumption DEF Hung, WireStates
  <2> QED
    BY <2>1 DEF HostInit, HostInv, HostShape, InHand, Handed, WireHeld, BoxStages
<1>2. HostInv /\ [HostNext]_hostVars => HostInv'
  <2> SUFFICES ASSUME HostInv, [HostNext]_hostVars PROVE HostInv'
    OBVIOUS
  <2> USE DEF gateVars, pollVars
  <2>0. HostShape
    BY DEF HostInv
  <2>1. ASSUME UNCHANGED <<box, sessions, stubs, answer, tracked, wires, upstream, containers,
                           misfortunes>>
        PROVE  HostInv'
    BY <2>1 DEF HostInv, HostShape, InHand, Handed, WireHeld
  <2>2. ASSUME NEW t \in PollTick, TickAsks(t)
        PROVE  HostInv'
    BY <2>1, <2>2 DEF TickAsks
  <2>3. ASSUME NEW t \in PollTick, HandsOut(t)
        PROVE  HostInv'
    <3>1. PICK jobs \in SUBSET {r \in HostRun : box[r] = "none" /\ \A u \in PollTick : r \notin answer[u]} :
            answer' = [answer EXCEPT ![t] = jobs]
      BY <2>3 DEF HandsOut
    <3>2. UNCHANGED <<box, sessions, stubs, tracked, wires, upstream, containers, misfortunes>>
      BY <2>3 DEF HandsOut
    <3>3. HostShape'
      BY <2>0, <3>1, <3>2 DEF HostShape
    <3>4. answer'[t] = jobs /\ \A u \in PollTick : u # t => answer'[u] = answer[u]
      BY <2>0, <3>1 DEF HostShape
    <3>5. Handed'
      BY <3>1, <3>2, <3>4 DEF HostInv, Handed
    <3> QED
      BY <3>2, <3>3, <3>5 DEF HostInv, InHand, WireHeld
  <2>4. ASSUME NEW t \in PollTick, TickStarts(t)
        PROVE  HostInv'
    <3>1. /\ box' = [r \in HostRun |-> IF r \in answer[t] THEN "preparing" ELSE box[r]]
          /\ answer' = [answer EXCEPT ![t] = {}]
          /\ UNCHANGED <<sessions, stubs, tracked, wires, upstream, containers, misfortunes>>
      BY <2>4 DEF TickStarts
    <3>2. HostShape'
      BY <2>0, <3>1 DEF HostShape, BoxStages
    <3>3. \A r \in HostRun : r \in answer[t] =>
            /\ r \notin sessions
            /\ misfortunes = 0 => r \notin stubs /\ r \notin containers
      BY <2>4 DEF HostInv, Handed, InHand
    <3>4. InHand'
      BY <3>1, <3>3 DEF HostInv, InHand
    <3>5. answer'[t] = {} /\ \A u \in PollTick : u # t => answer'[u] = answer[u]
      BY <2>0, <3>1 DEF HostShape
    <3>6. Handed'
      BY <2>0, <3>1, <3>5 DEF HostInv, HostShape, Handed
    <3> QED
      BY <3>1, <3>2, <3>4, <3>6 DEF HostInv, WireHeld
  <2>21. ASSUME NEW t \in PollTick, TickFails(t)
         PROVE  HostInv'
    <3>1. /\ answer' = [answer EXCEPT ![t] = {}]
          /\ UNCHANGED <<box, sessions, stubs, tracked, wires, upstream, containers, misfortunes>>
      BY <2>21 DEF TickFails, gateVars
    <3>2. HostShape'
      BY <2>0, <3>1 DEF HostShape
    <3>3. \A u \in PollTick : answer'[u] \subseteq answer[u]
      BY <2>0, <3>1 DEF HostShape
    <3>4. Handed'
      BY <3>1, <3>3 DEF HostInv, Handed
    <3> QED
      BY <3>1, <3>2, <3>4 DEF HostInv, InHand, WireHeld
  <2>5. CASE Shutdown
    BY <2>1, <2>5 DEF Shutdown
  <2>6. CASE CloseGateway
    <3>1. /\ wires' = [c \in Wire |-> [wires[c] EXCEPT !.at = "closed"]]
          /\ upstream' = [c \in Wire |-> IF upstream[c] = "relaying" THEN "none" ELSE upstream[c]]
          /\ tracked' = {} /\ sessions' = {}
          /\ UNCHANGED <<box, stubs, answer, containers, misfortunes>>
      BY <2>6 DEF CloseGateway
    <3>2. \A c \in Wire : wires'[c] \in WireStates /\ wires'[c].at = "closed" /\ upstream'[c] # "relaying"
      BY <2>0, <3>1, WireUpdates DEF HostShape
    <3>3. HostShape'
      BY <2>0, <3>1, <3>2 DEF HostShape
    <3> QED
      BY <3>1, <3>2, <3>3 DEF HostInv, InHand, Handed, WireHeld
  <2>7. CASE Exit
    BY <2>1, <2>7 DEF Exit
  <2>8. ASSUME NEW r \in HostRun, OpenSession(r)
        PROVE  HostInv'
    BY <2>0, <2>8, BoxMoves DEF OpenSession, BoxStages, HostShape, HostInv, InHand, Boxed
  <2>9. ASSUME NEW r \in HostRun, WriteStubs(r)
        PROVE  HostInv'
    BY <2>0, <2>9, BoxMoves DEF WriteStubs, BoxStages, HostShape, HostInv, InHand, Boxed
  <2>10. ASSUME NEW r \in HostRun, ProvisionThrows(r)
         PROVE  HostInv'
    BY <2>0, <2>10, BoxMoves DEF ProvisionThrows, BoxStages, HostShape, HostInv, InHand, Boxed
  <2>11. ASSUME NEW r \in HostRun, Exec(r) \/ ExecEnds(r) \/ JobEnds(r)
         PROVE  HostInv'
    <3>1. CASE Exec(r)
      BY <2>0, <3>1, BoxMoves DEF Exec, BoxStages, HostShape, HostInv, InHand, Boxed
    <3>2. CASE ExecEnds(r)
      <4>1. /\ Boxed(r, "running", "ready")
            /\ UNCHANGED <<answer, tracked, wires, upstream, sessions, stubs>>
            /\ containers' \subseteq containers
            /\ \/ misfortunes' = misfortunes /\ r \notin containers'
               \/ misfortunes' = misfortunes + 1
        BY <3>2 DEF ExecEnds, Misfortune
      <4>2. misfortunes' \in Nat /\ (misfortunes' = 0 => misfortunes = 0 /\ r \notin containers')
        BY <2>0, <4>1 DEF HostShape
      <4> QED
        BY <2>0, <4>1, <4>2, BoxMoves DEF BoxStages, HostShape, HostInv, InHand, Boxed
    <3>3. CASE JobEnds(r)
      BY <2>0, <3>3, BoxMoves DEF JobEnds, BoxStages, HostShape, HostInv, InHand, Boxed
    <3> QED
      BY <2>11, <3>1, <3>2, <3>3
  <2>12. ASSUME NEW r \in HostRun, Revoke(r)
         PROVE  HostInv'
    <3> DEFINE gone == {c \in tracked : wires[c].run = r /\ r \in sessions}
    <3>1. /\ wires' = [c \in Wire |-> IF c \in gone THEN [wires[c] EXCEPT !.at = "closed"] ELSE wires[c]]
          /\ upstream' = [c \in Wire |-> IF c \in gone /\ upstream[c] = "relaying" THEN "none"
                                         ELSE upstream[c]]
          /\ tracked' = tracked \ gone /\ sessions' = sessions \ {r}
          /\ UNCHANGED <<stubs, answer, containers, misfortunes>>
          /\ Boxed(r, "revoking", "removing")
      BY <2>12 DEF Revoke
    <3>2. /\ box' \in [HostRun -> BoxStages] /\ box[r] = "revoking" /\ box'[r] = "removing"
          /\ \A q \in HostRun : q # r => box'[q] = box[q]
      BY <2>0, <3>1 DEF HostShape, Boxed, BoxStages
    <3>3. \A c \in Wire : c \notin gone =>
            /\ wires'[c] = wires[c] /\ upstream'[c] = upstream[c] /\ (c \in tracked => c \in tracked')
      BY <3>1
    <3>4. \A c \in Wire : c \in gone =>
            wires'[c] \in WireStates /\ wires'[c].at = "closed" /\ upstream'[c] # "relaying"
      BY <2>0, <3>1, WireUpdates DEF HostShape
    <3>5. HostShape'
      BY <2>0, <3>1, <3>2, <3>3, <3>4 DEF HostShape
    <3>6. InHand' /\ Handed'
      BY <2>0, <3>1, <3>2 DEF HostInv, HostShape, InHand, Handed
    <3>7. ASSUME NEW c \in Wire
          PROVE  WireHeld(c)'
      <4>1. CASE c \in gone
        BY <3>4, <4>1 DEF WireHeld
      <4>2. CASE c \notin gone
        BY <3>1, <3>3, <4>2 DEF HostInv, WireHeld
      <4> QED
        BY <4>1, <4>2
    <3> QED
      BY <3>5, <3>6, <3>7 DEF HostInv
  <2>13. ASSUME NEW r \in HostRun, RemoveContainers(r)
         PROVE  HostInv'
    <3>1. /\ Boxed(r, "removing", "unstubbing")
          /\ UNCHANGED <<answer, tracked, wires, upstream, sessions, stubs>>
          /\ containers' \subseteq containers
          /\ \/ misfortunes' = misfortunes /\ r \notin containers'
             \/ misfortunes' = misfortunes + 1
      BY <2>13 DEF RemoveContainers, Misfortune
    <3>2. misfortunes' \in Nat /\ (misfortunes' = 0 => misfortunes = 0 /\ r \notin containers')
      BY <2>0, <3>1 DEF HostShape
    <3>3. r \notin sessions'
      BY <2>0, <3>1 DEF HostInv, InHand, Boxed
    <3> QED
      BY <2>0, <3>1, <3>2, <3>3, BoxMoves DEF BoxStages, HostShape
  <2>14. ASSUME NEW r \in HostRun, RemoveStubs(r)
         PROVE  HostInv'
    <3>1. /\ Boxed(r, "unstubbing", "over")
          /\ UNCHANGED <<answer, tracked, wires, upstream, sessions, containers>>
          /\ stubs' \subseteq stubs
          /\ \/ misfortunes' = misfortunes /\ r \notin stubs'
             \/ misfortunes' = misfortunes + 1
      BY <2>14 DEF RemoveStubs, Misfortune
    <3>2. misfortunes' \in Nat /\ (misfortunes' = 0 => misfortunes = 0 /\ r \notin stubs')
      BY <2>0, <3>1 DEF HostShape
    <3>3. r \notin sessions' /\ (misfortunes' = 0 => r \notin containers')
      BY <2>0, <3>1, <3>2 DEF HostInv, InHand, Boxed
    <3> QED
      BY <2>0, <3>1, <3>2, <3>3, BoxMoves DEF BoxStages, HostShape
  <2>15. ASSUME NEW r \in HostRun, OrphanEnds(r)
         PROVE  HostInv'
    BY <2>15 DEF OrphanEnds, HostInv, HostShape, InHand, Handed, WireHeld
  <2>16. ASSUME NEW c \in Wire, NEW r \in HostRun, NEW door \in Doors, NEW allowed \in BOOLEAN,
                Knock(c, r, door, allowed)
         PROVE  HostInv'
    <3>1. PICK at \in {"open", "asking"}, up \in {"none", "waiting", "relaying"} :
            /\ wires' = [wires EXCEPT ![c] = [run |-> r, at |-> at]]
            /\ upstream' = [upstream EXCEPT ![c] = up] /\ up # "relaying"
      <4>1. upstream[c] = "none" /\ (UNCHANGED upstream => upstream' = [upstream EXCEPT ![c] = "none"])
        BY <2>0, <2>16 DEF Knock, HostShape
      <4> QED
        BY <2>16, <4>1 DEF Knock
    <3>2. /\ r \in sessions /\ tracked' = tracked \cup {c}
          /\ UNCHANGED <<box, sessions, stubs, answer, containers, misfortunes>>
      BY <2>16 DEF Knock
    <3> DEFINE w == [run |-> r, at |-> at]
    <3>3. w \in WireStates /\ w.run = r
      BY DEF WireStates
    <3>4. wires' = [wires EXCEPT ![c] = w]
      BY <3>1
    <3> HIDE DEF w
    <3>5. /\ wires' \in [Wire -> WireStates] /\ wires'[c] = w /\ upstream'[c] = up
          /\ upstream' \in [Wire -> {"none", "waiting", "relaying"}]
          /\ \A d \in Wire : d # c => wires'[d] = wires[d] /\ upstream'[d] = upstream[d]
      BY <2>0, <3>1, <3>3, <3>4 DEF HostShape
    <3>6. WireHeld(c)'
      BY <3>1, <3>2, <3>3, <3>5 DEF WireHeld
    <3> QED
      BY <3>2, <3>5, <3>6, WireMoves
  <2>17. ASSUME NEW c \in Wire, AskAgain(c)
         PROVE  HostInv'
    <3>1. /\ wires' = [wires EXCEPT ![c] = [wires[c] EXCEPT !.at = "asking"]]
          /\ upstream' = [upstream EXCEPT ![c] = "waiting"]
          /\ UNCHANGED <<box, sessions, stubs, answer, tracked, containers, misfortunes>>
          /\ wires[c].at = "open"
      BY <2>17 DEF AskAgain
    <3> QED
      BY <2>1, <3>1, OneWireMoves
  <2>18. ASSUME NEW c \in Wire, UpstreamAnswers(c)
         PROVE  HostInv'
    <3>1. UNCHANGED <<box, sessions, stubs, answer, tracked, containers, misfortunes>>
      BY <2>18 DEF UpstreamAnswers
    <3>2. CASE wires[c].at # "asking" /\ upstream' = [upstream EXCEPT ![c] = "none"] /\ UNCHANGED wires
      <4>1. HostShape'
        BY <2>0, <3>1, <3>2 DEF HostShape
      <4>2. \A d \in Wire : WireHeld(d)'
        BY <2>0, <3>1, <3>2 DEF HostInv, HostShape, WireHeld
      <4> QED
        BY <3>1, <3>2, <4>1, <4>2 DEF HostInv, InHand, Handed
    <3>3. ASSUME wires[c].at = "asking", NEW at \in {"open", "relaying"}, NEW up \in {"none", "relaying"},
                 wires' = [wires EXCEPT ![c].at = at], upstream' = [upstream EXCEPT ![c] = up]
          PROVE  HostInv'
      <4>1. wires' = [wires EXCEPT ![c] = [wires[c] EXCEPT !.at = at]]
        BY <3>3
      <4> QED
        BY <3>1, <3>3, <4>1, OneWireMoves
    <3> QED
      BY <2>18, <3>2, <3>3, Zenon DEF UpstreamAnswers
  <2>19. ASSUME NEW c \in Wire, HangUp(c)
         PROVE  HostInv'
    <3> DEFINE up == IF upstream[c] = "relaying" THEN "none" ELSE upstream[c]
    <3>1. /\ wires' = [wires EXCEPT ![c] = [wires[c] EXCEPT !.at = "closed"]]
          /\ tracked' = tracked \ {c}
          /\ UNCHANGED <<box, sessions, stubs, answer, containers, misfortunes>>
      BY <2>19 DEF HangUp
    <3>2. upstream' = [upstream EXCEPT ![c] = up] /\ up \in {"none", "waiting"}
      BY <2>0, <2>19 DEF HangUp, HostShape
    <3> HIDE DEF up
    <3> QED
      BY <3>1, <3>2, OneWireMoves
  <2>20. CASE UNCHANGED hostVars
    BY <2>1, <2>20 DEF hostVars
  <2> QED
    BY <2>2, <2>3, <2>4, <2>5, <2>6, <2>7, <2>8, <2>9, <2>10, <2>11, <2>12, <2>13, <2>14, <2>15,
       <2>16, <2>17, <2>18, <2>19, <2>20, <2>21 DEF HostNext
<1> QED
  BY <1>1, <1>2, PTL DEF HostSpec

\* Once a job has settled no token, connection or relay of it is left, wherever its
\* provisioning stopped and whatever its containers were doing; and no container or stub, unless
\* a removal or a kill went wrong.  (container.ts dispose, server.ts revoke)
THEOREM NothingLeftBehind == HostSpec => []NothingOutlivesItsJob
<1>1. HostInv => NothingOutlivesItsJob
  BY DEF HostInv, HostShape, InHand, WireHeld, NothingOutlivesItsJob, WireStates
<1> QED
  BY <1>1, HostInvHolds, PTL

-----------------------------------------------------------------------------
\* What the announcements under way promise: a slot for every job a tick may be given.
Promised == {p \in PollTick \X (1 .. MaxConcurrent) : p[2] =< asked[p[1]]}

\* What runs and what is promised keep within the limit for each tick, and no answer carries
\* more than its tick announced.
Kept ==
  /\ asked \in [PollTick -> 0 .. MaxConcurrent]
  /\ answer \in [PollTick -> SUBSET HostRun]
  /\ \A t \in PollTick : IsFiniteSet(answer[t]) /\ Cardinality(answer[t]) =< asked[t]
  /\ IsFiniteSet(inFlight)
  /\ Cardinality(inFlight) + Cardinality(Promised) =< MaxConcurrent * Cardinality(PollTick)

\* Finitely many slots are promised.
LEMMA PromisedIsFinite ==
  /\ IsFiniteSet(PollTick) /\ Cardinality(PollTick) \in Nat /\ MaxConcurrent \in Nat \ {0}
  /\ IsFiniteSet(PollTick \X (1 .. MaxConcurrent))
  /\ IsFiniteSet(Promised) /\ Cardinality(Promised) \in Nat
<1>1. IsFiniteSet(PollTick) /\ Cardinality(PollTick) \in Nat /\ MaxConcurrent \in Nat \ {0}
  BY HostAssumption, FS_CardinalityType
<1>2. IsFiniteSet(1 .. MaxConcurrent)
  BY <1>1, FS_Interval
<1>3. IsFiniteSet(PollTick \X (1 .. MaxConcurrent))
  BY <1>1, <1>2, FS_Product
<1>4. Promised \in SUBSET (PollTick \X (1 .. MaxConcurrent))
  BY DEF Promised
<1> QED
  BY <1>1, <1>3, <1>4, FS_Subset, FS_CardinalityType

\* The slots of one tick, and those of the others.
LEMMA SlotsOfOne ==
  ASSUME NEW t \in PollTick, NEW n \in 0 .. MaxConcurrent
  PROVE  /\ IsFiniteSet({t} \X (1 .. n)) /\ Cardinality({t} \X (1 .. n)) = n
         /\ IsFiniteSet((PollTick \ {t}) \X (1 .. MaxConcurrent))
         /\ Cardinality((PollTick \ {t}) \X (1 .. MaxConcurrent)) + MaxConcurrent
              = MaxConcurrent * Cardinality(PollTick)
<1>1. /\ IsFiniteSet({t}) /\ Cardinality({t}) = 1
      /\ IsFiniteSet(PollTick \ {t}) /\ Cardinality(PollTick \ {t}) = Cardinality(PollTick) - 1
  BY PromisedIsFinite, FS_Singleton, FS_RemoveElement
<1>2. \A k \in 0 .. MaxConcurrent : IsFiniteSet(1 .. k) /\ Cardinality(1 .. k) = k
  <2>1. ASSUME NEW k \in 0 .. MaxConcurrent
        PROVE  IsFiniteSet(1 .. k) /\ Cardinality(1 .. k) = k
    <3>1. 1 \in Int /\ k \in Int /\ k >= 0
      BY PromisedIsFinite
    <3>2. IsFiniteSet(1 .. k) /\ Cardinality(1 .. k) = IF 1 > k THEN 0 ELSE k - 1 + 1
      BY <3>1, FS_Interval
    <3> QED
      BY <3>1, <3>2
  <2> QED
    BY <2>1
<1>3. IsFiniteSet({t} \X (1 .. n)) /\ Cardinality({t} \X (1 .. n)) = n
  <2>1. Cardinality({t} \X (1 .. n)) = 1 * n /\ IsFiniteSet({t} \X (1 .. n))
    <3> DEFINE one == {t} slots == 1 .. n
    <3>1. IsFiniteSet(one) /\ IsFiniteSet(slots) /\ Cardinality(one) = 1 /\ Cardinality(slots) = n
      BY <1>1, <1>2
    <3> HIDE DEF one, slots
    <3>2. IsFiniteSet(one \X slots) /\ Cardinality(one \X slots) = Cardinality(one) * Cardinality(slots)
      BY <3>1, FS_Product
    <3> QED
      BY <3>1, <3>2 DEF one, slots
  <2> QED
    BY <2>1
<1> DEFINE m == Cardinality(PollTick)
<1>4. /\ IsFiniteSet((PollTick \ {t}) \X (1 .. MaxConcurrent))
      /\ Cardinality((PollTick \ {t}) \X (1 .. MaxConcurrent)) = (m - 1) * MaxConcurrent
  <2> DEFINE others == PollTick \ {t} slots == 1 .. MaxConcurrent
  <2>1. /\ IsFiniteSet(others) /\ IsFiniteSet(slots)
        /\ Cardinality(others) = m - 1 /\ Cardinality(slots) = MaxConcurrent
    BY <1>1, <1>2, PromisedIsFinite
  <2> HIDE DEF others, slots
  <2>2. IsFiniteSet(others \X slots) /\ Cardinality(others \X slots) = Cardinality(others) * Cardinality(slots)
    BY <2>1, FS_Product
  <2> QED
    BY <2>1, <2>2 DEF others, slots
<1>5. m \in Nat /\ MaxConcurrent \in Nat
  BY PromisedIsFinite
<1> HIDE DEF m
<1>6. (m - 1) * MaxConcurrent + MaxConcurrent = MaxConcurrent * m
  BY <1>5
<1> QED
  BY <1>3, <1>4, <1>6 DEF m

\* The jobs of all answers together find a slot each.
LEMMA AnswersFitTheirSlots ==
  ASSUME Kept
  PROVE  LET handed == UNION {answer[t] : t \in PollTick}
         IN  IsFiniteSet(handed) /\ Cardinality(handed) =< Cardinality(Promised)
<1> DEFINE handed == UNION {answer[t] : t \in PollTick}
           Count(t) == Cardinality(answer[t])
           by == [t \in PollTick |-> CHOOSE b \in Bijection(1 .. Count(t), answer[t]) : TRUE]
           Of(job) == CHOOSE t \in PollTick : job \in answer[t]
           Place(job) == CHOOSE k \in 1 .. Count(Of(job)) : by[Of(job)][k] = job
           slot == [job \in handed |-> <<Of(job), Place(job)>>]
<1>1. ASSUME NEW t \in PollTick
      PROVE  /\ Count(t) \in Nat /\ Count(t) =< asked[t] /\ asked[t] \in 0 .. MaxConcurrent
             /\ by[t] \in Bijection(1 .. Count(t), answer[t])
  <2>1. IsFiniteSet(answer[t])
    BY DEF Kept
  <2>2. Count(t) \in Nat /\ Bijection(1 .. Count(t), answer[t]) # {}
    BY <2>1, FS_CardinalityType DEF ExistsBijection
  <2> QED
    BY <2>2 DEF Kept
<1>2. ASSUME NEW job \in handed
      PROVE  /\ Of(job) \in PollTick /\ job \in answer[Of(job)]
             /\ Place(job) \in 1 .. Count(Of(job)) /\ by[Of(job)][Place(job)] = job
  <2>1. Of(job) \in PollTick /\ job \in answer[Of(job)]
    OBVIOUS
  <2>2. by[Of(job)] \in Bijection(1 .. Count(Of(job)), answer[Of(job)])
    BY <1>1, <2>1
  <2>3. \E k \in 1 .. Count(Of(job)) : by[Of(job)][k] = job
    BY <2>1, <2>2 DEF Bijection, Surjection
  <2> QED
    BY <2>1, <2>3
<1> HIDE DEF by, Of, Place
<1>3. ASSUME NEW job \in handed
      PROVE  <<Of(job), Place(job)>> \in Promised
  <2>1. /\ Of(job) \in PollTick /\ Count(Of(job)) =< asked[Of(job)]
        /\ asked[Of(job)] \in 0 .. MaxConcurrent /\ Count(Of(job)) \in Nat
        /\ Place(job) \in 1 .. Count(Of(job))
    BY <1>1, <1>2
  <2> HIDE DEF Count
  <2>2. Place(job) \in 1 .. MaxConcurrent /\ Place(job) =< asked[Of(job)]
    BY <2>1, PromisedIsFinite
  <2> QED
    BY <2>1, <2>2 DEF Promised
<1>4. slot \in Injection(handed, Promised)
  <2>1. slot \in [handed -> Promised]
    BY <1>3
  <2>2. ASSUME NEW a \in handed, NEW b \in handed, slot[a] = slot[b]
        PROVE  a = b
    <3>1. Of(a) = Of(b) /\ Place(a) = Place(b)
      BY <2>2
    <3> QED
      BY <1>2, <3>1
  <2> QED
    BY <2>1, <2>2 DEF Injection, IsInjective
<1> QED
  BY <1>4, PromisedIsFinite, FS_Injection

\* Arithmetic of finite sets that the announcements need.
LEMMA CoveredByTwo ==
  ASSUME NEW S, NEW T, IsFiniteSet(S), IsFiniteSet(T), NEW U \in SUBSET (S \cup T)
  PROVE  IsFiniteSet(U) /\ Cardinality(U) \in Nat /\ Cardinality(U) =< Cardinality(S) + Cardinality(T)
<1>1. /\ IsFiniteSet(S \cup T) /\ Cardinality(S \cup T) = Cardinality(S) + Cardinality(T) - Cardinality(S \cap T)
      /\ IsFiniteSet(S \cap T)
  BY FS_Union, FS_Intersection
<1>2. /\ Cardinality(S) \in Nat /\ Cardinality(T) \in Nat /\ Cardinality(S \cap T) \in Nat
      /\ Cardinality(S \cup T) \in Nat
  BY <1>1, FS_CardinalityType
<1>3. IsFiniteSet(U) /\ Cardinality(U) =< Cardinality(S \cup T) /\ Cardinality(U) \in Nat
  BY <1>1, FS_Subset, FS_CardinalityType
<1> QED
  BY <1>1, <1>2, <1>3

\* Disjoint sets add up.
LEMMA DisjointParts ==
  ASSUME NEW S, NEW T, IsFiniteSet(S), IsFiniteSet(T), S \cap T = {}
  PROVE  Cardinality(S \cup T) = Cardinality(S) + Cardinality(T)
<1>1. Cardinality(S \cup T) = Cardinality(S) + Cardinality(T) - Cardinality(S \cap T)
  BY FS_Union
<1>2. Cardinality({}) = 0 /\ Cardinality(S) \in Nat /\ Cardinality(T) \in Nat
  BY FS_EmptySet, FS_CardinalityType
<1>3. Cardinality(S \cap T) = 0
  BY <1>2
<1> QED
  BY <1>1, <1>2, <1>3

\* Fewer jobs in flight, and the same promises.
LEMMA NoMore ==
  ASSUME Kept, IsFiniteSet(inFlight'), Cardinality(inFlight') =< Cardinality(inFlight), Promised' = Promised
  PROVE  Cardinality(inFlight)' + Cardinality(Promised)' =< MaxConcurrent * Cardinality(PollTick)
<1> DEFINE a == Cardinality(inFlight) b == Cardinality(inFlight') c == Cardinality(Promised)
           m == Cardinality(PollTick)
<1>1. /\ a \in Nat /\ b \in Nat /\ c \in Nat /\ m \in Nat /\ MaxConcurrent \in Nat
      /\ b =< a /\ a + c =< MaxConcurrent * m
  BY PromisedIsFinite, FS_CardinalityType DEF Kept
<1> HIDE DEF a, b, c, m
<1>2. b + c =< MaxConcurrent * m
  BY <1>1
<1> QED
  BY <1>2 DEF b, c, m

\* Every step keeps jobs in flight and slots promised within one capacity for each tick.
LEMMA KeptHolds == HostSpec => []Kept
<1>1. HostInit => Kept
  <2> SUFFICES ASSUME HostInit PROVE Kept
    OBVIOUS
  <2>1. Promised = {}
    BY DEF HostInit, Promised
  <2>2. Cardinality({}) = 0 /\ IsFiniteSet({})
    BY FS_EmptySet
  <2>3. 0 =< MaxConcurrent * Cardinality(PollTick)
    <3> DEFINE m == Cardinality(PollTick)
    <3>1. m \in Nat /\ MaxConcurrent \in Nat
      BY PromisedIsFinite
    <3> HIDE DEF m
    <3>2. 0 =< MaxConcurrent * m
      BY <3>1
    <3> QED
      BY <3>2 DEF m
  <2> QED
    BY <2>1, <2>2, <2>3, PromisedIsFinite DEF HostInit, Kept
<1>2. Kept /\ [HostNext]_hostVars => Kept'
  <2> SUFFICES ASSUME Kept, [HostNext]_hostVars PROVE Kept'
    OBVIOUS
  <2> USE DEF gateVars, pollVars
  <2>0. Cardinality(inFlight) \in Nat /\ Cardinality(Promised) \in Nat
    BY PromisedIsFinite, FS_CardinalityType DEF Kept
  <2>1. ASSUME UNCHANGED <<asked, answer, inFlight>>
        PROVE  Kept'
    BY <2>1 DEF Kept, Promised
  <2>2. ASSUME NEW t \in PollTick, TickAsks(t)
        PROVE  Kept'
    <3> DEFINE free == MaxConcurrent - Cardinality(inFlight)
    <3>1. /\ asked[t] = 0 /\ asked' = [asked EXCEPT ![t] = free] /\ UNCHANGED <<answer, inFlight>>
          /\ free > 0
      BY <2>2 DEF TickAsks, FreeCapacity
    <3>2. free \in 0 .. MaxConcurrent
      BY <2>0, <3>1, PromisedIsFinite
    <3>3. Promised' \subseteq ((PollTick \ {t}) \X (1 .. MaxConcurrent)) \cup ({t} \X (1 .. free))
      BY <3>1, <3>2 DEF Kept, Promised
    <3>4. /\ Cardinality(Promised') \in Nat
          /\ Cardinality(Promised') =< Cardinality((PollTick \ {t}) \X (1 .. MaxConcurrent)) + free
      <4> DEFINE others == (PollTick \ {t}) \X (1 .. MaxConcurrent) mine == {t} \X (1 .. free)
      <4>1. IsFiniteSet(others) /\ IsFiniteSet(mine) /\ Cardinality(mine) = free
        BY <3>2, SlotsOfOne
      <4> HIDE DEF others, mine
      <4>2. Promised' \in SUBSET (others \cup mine)
        BY <3>3 DEF others, mine
      <4> HIDE DEF free
      <4> QED
        BY <4>1, <4>2, CoveredByTwo DEF others
    <3>5. Cardinality(inFlight)' + Cardinality(Promised)' =< MaxConcurrent * Cardinality(PollTick)
      <4> DEFINE others == Cardinality((PollTick \ {t}) \X (1 .. MaxConcurrent))
                 all == MaxConcurrent * Cardinality(PollTick) a == Cardinality(inFlight)
                 b == Cardinality(Promised')
      <4>1. others \in Nat /\ others + MaxConcurrent = all /\ b \in Nat /\ a \in Nat /\ b =< others + free
        BY <2>0, <3>2, <3>4, SlotsOfOne, FS_CardinalityType
      <4>2. MaxConcurrent \in Nat /\ free = MaxConcurrent - a
        BY PromisedIsFinite
      <4> HIDE DEF others, all, a, b, free
      <4>3. a + b =< all
        BY <4>1, <4>2
      <4> QED
        BY <3>1, <4>3 DEF a, b, all
    <3>6. \A u \in PollTick : IsFiniteSet(answer'[u]) /\ Cardinality(answer'[u]) =< asked'[u]
      <4> HIDE DEF free
      <4>1. ASSUME NEW u \in PollTick
            PROVE  IsFiniteSet(answer'[u]) /\ Cardinality(answer'[u]) =< asked'[u]
        <5>1. asked'[u] = (IF u = t THEN free ELSE asked[u]) /\ answer'[u] = answer[u]
          BY <3>1, <3>2 DEF Kept
        <5>2. IsFiniteSet(answer[u]) /\ Cardinality(answer[u]) \in Nat /\ Cardinality(answer[u]) =< asked[u]
          BY FS_CardinalityType DEF Kept
        <5> QED
          BY <3>1, <3>2, <5>1, <5>2
      <4> QED
        BY <4>1
    <3>7. asked' \in [PollTick -> 0 .. MaxConcurrent]
      BY <3>1, <3>2 DEF Kept
    <3> QED
      BY <3>1, <3>5, <3>6, <3>7 DEF Kept
  <2>3. ASSUME NEW t \in PollTick, HandsOut(t)
        PROVE  Kept'
    <3>1. PICK jobs \in SUBSET HostRun :
            /\ IsFiniteSet(jobs) /\ Cardinality(jobs) \in 1 .. asked[t]
            /\ answer' = [answer EXCEPT ![t] = jobs]
      BY <2>3 DEF HandsOut
    <3>2. UNCHANGED <<asked, inFlight>> /\ Promised' = Promised
      BY <2>3 DEF HandsOut, Promised
    <3>3. \A u \in PollTick : answer'[u] = IF u = t THEN jobs ELSE answer[u]
      BY <3>1 DEF Kept
    <3>4. \A u \in PollTick : IsFiniteSet(answer'[u]) /\ Cardinality(answer'[u]) =< asked[u]
      BY <3>1, <3>3 DEF Kept
    <3> QED
      BY <3>1, <3>2, <3>4 DEF Kept
  <2>4. ASSUME NEW t \in PollTick, TickStarts(t)
        PROVE  Kept'
    <3>1. /\ inFlight' = inFlight \cup answer[t] /\ asked' = [asked EXCEPT ![t] = 0]
          /\ answer' = [answer EXCEPT ![t] = {}]
      BY <2>4 DEF TickStarts
    <3>2. /\ asked' \in [PollTick -> 0 .. MaxConcurrent] /\ asked'[t] = 0
          /\ \A u \in PollTick : u # t => asked'[u] = asked[u]
          /\ answer' \in [PollTick -> SUBSET HostRun] /\ answer'[t] = {}
          /\ \A u \in PollTick : u # t => answer'[u] = answer[u]
      BY <3>1, PromisedIsFinite DEF Kept
    <3>3. \A u \in PollTick : IsFiniteSet(answer'[u]) /\ Cardinality(answer'[u]) =< asked'[u]
      <4>1. ASSUME NEW u \in PollTick
            PROVE  IsFiniteSet(answer'[u]) /\ Cardinality(answer'[u]) =< asked'[u]
        <5>1. CASE u = t
          <6>1. Cardinality({}) = 0 /\ IsFiniteSet({})
            BY FS_EmptySet
          <6> QED
            BY <3>2, <5>1, <6>1
        <5>2. CASE u # t
          BY <3>2, <5>2 DEF Kept
        <5> QED
          BY <5>1, <5>2
      <4> QED
        BY <4>1
    <3> DEFINE given == asked[t] mine == {t} \X (1 .. given)
    <3>4. /\ given \in 0 .. MaxConcurrent /\ IsFiniteSet(answer[t]) /\ Cardinality(answer[t]) \in Nat
          /\ Cardinality(answer[t]) =< given
      BY FS_CardinalityType DEF Kept
    <3>5. IsFiniteSet(inFlight') /\ Cardinality(inFlight') \in Nat
          /\ Cardinality(inFlight') =< Cardinality(inFlight) + Cardinality(answer[t])
      <4>1. inFlight' \in SUBSET (inFlight \cup answer[t]) /\ IsFiniteSet(inFlight)
        BY <3>1 DEF Kept
      <4> QED
        BY <3>4, <4>1, CoveredByTwo
    <3>6. Cardinality(Promised') \in Nat /\ Cardinality(Promised') + given =< Cardinality(Promised)
      <4>1. IsFiniteSet(mine) /\ Cardinality(mine) = given
        BY <3>4, SlotsOfOne
      <4>2. Promised' \subseteq Promised /\ mine \subseteq Promised /\ Promised' \cap mine = {}
        BY <3>2, <3>4, PromisedIsFinite DEF Promised, Kept
      <4> HIDE DEF mine, given
      <4>3. IsFiniteSet(Promised') /\ Cardinality(Promised') \in Nat
        BY <4>2, PromisedIsFinite, FS_Subset, FS_CardinalityType
      <4>4. Cardinality(Promised' \cup mine) = Cardinality(Promised') + Cardinality(mine)
        BY <4>1, <4>2, <4>3, DisjointParts
      <4>5. Cardinality(Promised' \cup mine) =< Cardinality(Promised)
        BY <4>2, PromisedIsFinite, FS_Subset
      <4> QED
        BY <4>1, <4>3, <4>4, <4>5
    <3>7. Cardinality(inFlight)' + Cardinality(Promised)' =< MaxConcurrent * Cardinality(PollTick)
      <4> DEFINE a == Cardinality(inFlight) a2 == Cardinality(inFlight') c == Cardinality(Promised)
                 c2 == Cardinality(Promised') k == Cardinality(answer[t]) m == Cardinality(PollTick)
      <4>1. /\ a \in Nat /\ a2 \in Nat /\ c \in Nat /\ c2 \in Nat /\ k \in Nat /\ m \in Nat
            /\ given \in Nat /\ MaxConcurrent \in Nat
            /\ k =< given /\ a2 =< a + k /\ c2 + given =< c /\ a + c =< MaxConcurrent * m
        BY <2>0, <3>4, <3>5, <3>6, PromisedIsFinite DEF Kept
      <4> HIDE DEF a, a2, c, c2, k, m, given
      <4>2. a2 + c2 =< MaxConcurrent * m
        BY <4>1
      <4> QED
        BY <4>2 DEF a2, c2, m
    <3> QED
      BY <3>2, <3>3, <3>5, <3>7 DEF Kept
  <2>6. ASSUME NEW t \in PollTick, TickFails(t)
        PROVE  Kept'
    <3>1. /\ asked' = [asked EXCEPT ![t] = 0] /\ answer' = [answer EXCEPT ![t] = {}]
          /\ UNCHANGED inFlight
      BY <2>6 DEF TickFails
    <3>2. /\ asked' \in [PollTick -> 0 .. MaxConcurrent] /\ asked'[t] = 0
          /\ \A u \in PollTick : u # t => asked'[u] = asked[u]
          /\ answer' \in [PollTick -> SUBSET HostRun] /\ answer'[t] = {}
          /\ \A u \in PollTick : u # t => answer'[u] = answer[u]
      BY <3>1, PromisedIsFinite DEF Kept
    <3>3. \A u \in PollTick : IsFiniteSet(answer'[u]) /\ Cardinality(answer'[u]) =< asked'[u]
      <4>1. Cardinality({}) = 0 /\ IsFiniteSet({})
        BY FS_EmptySet
      <4>2. 0 =< asked'[t]
        BY <3>2
      <4> QED
        BY <3>2, <4>1, <4>2 DEF Kept
    <3>4. /\ Cardinality(Promised') \in Nat /\ Cardinality(Promised') =< Cardinality(Promised)
      <4>1. Promised' \subseteq Promised
        BY <3>2, PromisedIsFinite DEF Promised, Kept
      <4> QED
        BY <4>1, PromisedIsFinite, FS_Subset, FS_CardinalityType
    <3>5. Cardinality(inFlight)' + Cardinality(Promised)' =< MaxConcurrent * Cardinality(PollTick)
      <4> DEFINE a == Cardinality(inFlight) c == Cardinality(Promised) c2 == Cardinality(Promised')
                 all == MaxConcurrent * Cardinality(PollTick) m == Cardinality(PollTick)
      <4>1. m \in Nat /\ MaxConcurrent \in Nat
        BY PromisedIsFinite
      <4>2. all \in Nat
        <5> HIDE DEF m
        <5>1. MaxConcurrent * m \in Nat
          BY <4>1
        <5> QED
          BY <5>1 DEF m
      <4>3. a \in Nat /\ c \in Nat /\ c2 \in Nat /\ c2 =< c /\ a + c =< all
        BY <2>0, <3>4 DEF Kept
      <4> HIDE DEF a, c, c2, all
      <4>4. a + c2 =< all
        BY <4>2, <4>3
      <4> QED
        BY <3>1, <4>4 DEF a, c2, all
    <3> QED
      BY <3>1, <3>2, <3>3, <3>5 DEF Kept
  <2>5. ASSUME NEW r \in HostRun, RemoveStubs(r)
        PROVE  Kept'
    <3>1. inFlight' = inFlight \ {r} /\ UNCHANGED <<asked, answer>> /\ Promised' = Promised
      BY <2>5 DEF RemoveStubs, Promised
    <3>2. IsFiniteSet(inFlight') /\ Cardinality(inFlight') =< Cardinality(inFlight)
      <4>1. inFlight' \in SUBSET inFlight
        BY <3>1
      <4> QED
        BY <4>1, FS_Subset DEF Kept
    <3> QED
      BY <3>1, <3>2, NoMore DEF Kept
  <2> QED
    BY <2>1, <2>2, <2>3, <2>4, <2>5, <2>6 DEF HostNext, hostVars, Shutdown, CloseGateway, Exit, OpenSession, WriteStubs,
         ProvisionThrows, Exec, ExecEnds, JobEnds, Revoke, RemoveContainers, OrphanEnds, Knock,
         AskAgain, UpstreamAnswers, HangUp
<1> QED
  BY <1>1, <1>2, PTL DEF HostSpec

\* A machine runs no more jobs than its limit for each tick under way, those in an answer
\* included, for any number of ticks and any limit (main.ts tick).
THEOREM CapacityHolds == HostSpec => []CapacityUpToTheOverlap
<1>1. Kept => CapacityUpToTheOverlap
  <2> SUFFICES ASSUME Kept PROVE CapacityUpToTheOverlap
    OBVIOUS
  <2> DEFINE a == Cardinality(inFlight) c == Cardinality(Promised) m == Cardinality(PollTick)
             handed == UNION {answer[t] : t \in PollTick} h == Cardinality(handed)
  <2>1. IsFiniteSet(handed) /\ h =< c
    BY AnswersFitTheirSlots
  <2>2. /\ a \in Nat /\ c \in Nat /\ h \in Nat /\ m \in Nat /\ MaxConcurrent \in Nat
        /\ a + c =< MaxConcurrent * m
    BY <2>1, PromisedIsFinite, FS_CardinalityType DEF Kept
  <2> HIDE DEF a, c, h, m
  <2>3. a + h =< MaxConcurrent * m
    BY <2>1, <2>2
  <2> QED
    BY <2>3 DEF CapacityUpToTheOverlap, a, h, m
<1> QED
  BY <1>1, KeptHolds, PTL

-----------------------------------------------------------------------------
(* The certificate authority on disk (ca.ts).                              *)

\* The lock, what a process has loaded, and the stages between taking the lock and removing it.
CaLocks == [by : Starter \cup {Nobody}, owner : Starter \cup {Nobody}, old : BOOLEAN]
Materials == [key : PairId, cert : PairId]
InsideStages ==
  {"sign", "holding", "holding cert", "generate", "rename cert", "rename key", "release", "unwind"}

\* Who is between taking the lock and removing it.
Inside == {p \in Starter : start[p] \in InsideStages /\ p \notin killed}

\* On disk: a key with its certificate, and what a process loaded.
Paired == keyFile = certFile /\ keyFile # NoFile
Files(p) == keyFile = material[p].key /\ certFile = material[p].cert

\* Whatever is signed with, or is about to be put on disk, is one pair.
OnePair(p) ==
  start[p] \in {"rename cert", "rename key", "release", "serving"} => material[p].key = material[p].cert

\* While no lock is taken from a living holder: pairs only get newer and the certificate is
\* renamed first ...
Ordered == keyFile =< certFile /\ certFile =< pairs

\* ... what was read is still there or outdated for good, who serves has what is on disk, and
\* the one inside that is about to replace the pair knows that there is none.
Reads(p) ==
  start[p] \in {"first cert", "waiting cert", "holding cert"} =>
    material[p].key # NoFile /\ (keyFile = material[p].key \/ material[p].key < certFile)
Holds(p) ==
  p \in Inside =>
    /\ caLock.by = p
    /\ start[p] = "holding cert" => keyFile = material[p].key
    /\ start[p] \in {"generate", "rename cert"} => ~Paired
    /\ start[p] = "rename cert" => material[p].key = pairs /\ certFile < pairs
    /\ start[p] = "rename key" => material[p].key = pairs /\ certFile = pairs /\ keyFile < certFile
    /\ start[p] = "release" => Files(p) /\ Paired
Serves(p) == start[p] = "serving" => Files(p) /\ Paired
Fits(p) == Reads(p) /\ Holds(p) /\ Serves(p)

\* The inductive invariant; no more than whole pairs once a lock was taken from its holder.
AuthorityInv ==
  /\ AuthorityTypeOK
  /\ \A p \in Starter : OnePair(p)
  /\ ~robbed => Ordered /\ \A p \in Starter : Fits(p)

\* The stages of the two halves of a load, by name.
LEMMA LoadStages ==
  /\ Loads = {"first", "holding", "waiting"}
  /\ Half["first"] = "first cert" /\ Half["holding"] = "holding cert" /\ Half["waiting"] = "waiting cert"
  /\ {Half[l] : l \in Loads} = {"first cert", "holding cert", "waiting cert"}
<1>1. /\ Loads = {"first", "holding", "waiting"}
      /\ Half["first"] = "first cert" /\ Half["holding"] = "holding cert" /\ Half["waiting"] = "waiting cert"
  BY DEF Loads, Half
<1> QED
  BY <1>1

\* What is written to a lock or to what a process loaded keeps its type.
LEMMA CaShapes ==
  /\ Unlocked \in CaLocks /\ Unlocked.by = Nobody
  /\ \A p \in Starter : [Unlocked EXCEPT !.by = p] \in CaLocks /\ [Unlocked EXCEPT !.by = p].by = p
  /\ \A l \in CaLocks, p \in Starter :
       [l EXCEPT !.owner = p] \in CaLocks /\ [l EXCEPT !.owner = p].by = l.by
  /\ \A l \in CaLocks : [l EXCEPT !.old = TRUE] \in CaLocks /\ [l EXCEPT !.old = TRUE].by = l.by
  /\ NoMaterial \in Materials
  /\ \A m \in Materials, c \in PairId :
       [m EXCEPT !.cert = c] \in Materials /\ [m EXCEPT !.cert = c].cert = c
         /\ [m EXCEPT !.cert = c].key = m.key
<1>1. Unlocked \in CaLocks /\ Unlocked.by = Nobody
  BY DEF Unlocked, CaLocks
<1>2. \A p \in Starter : [Unlocked EXCEPT !.by = p] \in CaLocks /\ [Unlocked EXCEPT !.by = p].by = p
  BY DEF Unlocked, CaLocks
<1>3. \A l \in CaLocks, p \in Starter :
        [l EXCEPT !.owner = p] \in CaLocks /\ [l EXCEPT !.owner = p].by = l.by
  BY DEF CaLocks
<1>4. \A l \in CaLocks : [l EXCEPT !.old = TRUE] \in CaLocks /\ [l EXCEPT !.old = TRUE].by = l.by
  BY DEF CaLocks
<1>5. NoMaterial \in Materials
  BY AuthorityAssumption DEF NoMaterial, Materials, PairId, NoFile
<1>6. \A m \in Materials, c \in PairId :
       [m EXCEPT !.cert = c] \in Materials /\ [m EXCEPT !.cert = c].cert = c
         /\ [m EXCEPT !.cert = c].key = m.key
  BY DEF Materials
<1> QED
  BY <1>1, <1>2, <1>3, <1>4, <1>5, <1>6

\* Whatever is on disk when the first gateway starts fits.
LEMMA AuthorityInitially == AuthorityInit => AuthorityInv
<1> SUFFICES ASSUME AuthorityInit PROVE AuthorityInv
  OBVIOUS
<1>1. caLock \in CaLocks /\ killed \subseteq Starter
  <2>1. \A p \in Starter : [by : {p}, owner : {p, Nobody}, old : {FALSE}] \subseteq CaLocks
    BY DEF CaLocks
  <2> QED
    BY <2>1, CaShapes DEF AuthorityInit
<1>2. NoMaterial \in Materials
  BY CaShapes
<1>3. start \in [Starter -> StartStages] /\ \A p \in Starter : start[p] = "idle"
  BY DEF AuthorityInit, StartStages
<1>4. keyFile \in PairId /\ certFile \in PairId /\ pairs \in PairId /\ Ordered
  BY AuthorityAssumption DEF AuthorityInit, PairId, NoFile, Ordered
<1>5. AuthorityTypeOK
  BY <1>1, <1>2, <1>3, <1>4 DEF AuthorityInit, AuthorityTypeOK, CaLocks, Materials
<1>6. \A p \in Starter : OnePair(p) /\ Fits(p)
  BY <1>3 DEF OnePair, Fits, Reads, Holds, Serves, Inside, InsideStages
<1> QED
  BY <1>4, <1>5, <1>6 DEF AuthorityInv

\* The types, as the proofs use them.
Typed ==
  /\ start \in [Starter -> StartStages] /\ caLock \in CaLocks /\ material \in [Starter -> Materials]
  /\ keyFile \in PairId /\ certFile \in PairId /\ pairs \in PairId /\ PairId \subseteq Nat
  /\ judged \in [Starter -> Starter \cup {Nobody}] /\ killed \subseteq Starter /\ robbed \in BOOLEAN

\* The type invariant, with the sets it speaks of named.
LEMMA TypesUnfold == AuthorityTypeOK <=> Typed
BY DEF AuthorityTypeOK, Typed, CaLocks, Materials, PairId, NoFile

\* One process moves on; the files stay.
LEMMA OneStarterMoves ==
  ASSUME AuthorityInv, NEW p \in Starter, NEW to \in StartStages, NEW m \in Materials,
         start' = [start EXCEPT ![p] = to], material' = [material EXCEPT ![p] = m],
         UNCHANGED <<keyFile, certFile, killed>>,
         caLock' \in CaLocks, pairs' \in PairId, robbed' \in BOOLEAN,
         judged' \in [Starter -> Starter \cup {Nobody}],
         OnePair(p)',
         ~robbed' => /\ ~robbed /\ Ordered' /\ Fits(p)'
                     /\ \A q \in Inside \ {p} : caLock'.by = q /\ pairs' = pairs
  PROVE  AuthorityInv'
<1>1. Typed
  BY TypesUnfold DEF AuthorityInv
<1>2. /\ start' \in [Starter -> StartStages] /\ material' \in [Starter -> Materials]
      /\ \A q \in Starter \ {p} : start'[q] = start[q] /\ material'[q] = material[q]
  BY <1>1 DEF Typed
<1>3. AuthorityTypeOK'
  BY <1>1, <1>2 DEF Typed, AuthorityTypeOK, CaLocks, Materials, PairId, NoFile
<1>4. \A q \in Starter : OnePair(q)'
  BY <1>2 DEF AuthorityInv, OnePair
<1>5. ASSUME ~robbed', NEW q \in Starter
      PROVE  Fits(q)'
  <2>1. CASE q = p
    BY <1>5, <2>1
  <2>2. CASE q # p
    <3>1. /\ start'[q] = start[q] /\ material'[q] = material[q] /\ Fits(q) /\ (q \in Inside' <=> q \in Inside)
          /\ q \in Inside => caLock'.by = q /\ pairs' = pairs
      BY <1>2, <1>5, <2>2 DEF AuthorityInv, Inside
    <3>2. Reads(q)' /\ Serves(q)'
      BY <3>1 DEF Fits, Reads, Serves, Files, Paired
    <3>3. Holds(q)'
      BY <3>1 DEF Fits, Holds, Files, Paired
    <3> QED
      BY <3>2, <3>3 DEF Fits
  <2> QED
    BY <2>1, <2>2
<1> QED
  BY <1>3, <1>4, <1>5 DEF AuthorityInv

\* The one inside renames a file, and there was no pair.
LEMMA FilesMove ==
  ASSUME AuthorityInv, NEW p \in Inside, NEW to \in StartStages, start' = [start EXCEPT ![p] = to],
         keyFile' \in PairId, certFile' \in PairId,
         UNCHANGED <<caLock, material, judged, killed, pairs, robbed>>,
         OnePair(p)',
         ~robbed => /\ ~Paired /\ Ordered' /\ Fits(p)' /\ Inside \ {p} = {}
                    /\ \A q \in Starter \ {p} : Reads(q) /\ start'[q] = start[q] => Reads(q)'
  PROVE  AuthorityInv'
<1>1. Typed /\ p \in Starter
  BY TypesUnfold DEF AuthorityInv, Inside
<1>2. /\ start' \in [Starter -> StartStages]
      /\ \A q \in Starter \ {p} : start'[q] = start[q]
  BY <1>1 DEF Typed
<1>3. AuthorityTypeOK'
  BY <1>1, <1>2 DEF Typed, AuthorityTypeOK, CaLocks, Materials, PairId, NoFile
<1>4. \A q \in Starter : OnePair(q)'
  BY <1>2 DEF AuthorityInv, OnePair
<1>5. ASSUME ~robbed', NEW q \in Starter \ {p}
      PROVE  Fits(q)'
  <2>1. ~robbed /\ Fits(q) /\ start'[q] = start[q] /\ q \notin Inside
    BY <1>2, <1>5 DEF AuthorityInv
  <2>2. start'[q] # "serving" /\ q \notin Inside'
    BY <2>1 DEF Fits, Serves, Inside
  <2> QED
    BY <2>1, <2>2 DEF Fits, Holds, Serves
<1> QED
  BY <1>3, <1>4, <1>5 DEF AuthorityInv

\* Every step of every starting gateway keeps the invariant.
LEMMA AuthorityStep == AuthorityInv /\ [AuthorityNext]_authorityVars => AuthorityInv'
<1> SUFFICES ASSUME AuthorityInv, [AuthorityNext]_authorityVars PROVE AuthorityInv'
  OBVIOUS
<1>T. Typed
  BY TypesUnfold DEF AuthorityInv
<1>A. \A p \in Starter : material[p] \in Materials /\ material = [material EXCEPT ![p] = material[p]]
  BY <1>T DEF Typed
<1>N. \A m \in Materials : m.key \in Nat /\ m.cert \in Nat
  BY <1>T DEF Typed, Materials
\* A lock that is removed was nobody's, or its holder is gone.
<1>R. ASSUME NEW p \in Starter, RemoveCaLock(p), UNCHANGED <<keyFile, certFile, pairs, killed>>
      PROVE  /\ caLock' \in CaLocks /\ robbed' \in BOOLEAN
             /\ ~robbed' => ~robbed /\ Ordered' /\ Inside \ {p} = {}
  <2>1. caLock' \in CaLocks /\ robbed' \in BOOLEAN /\ (~robbed' => ~robbed)
    BY <1>R, <1>T, CaShapes DEF RemoveCaLock, Typed
  <2>2. ASSUME ~robbed', NEW q \in Inside \ {p}
        PROVE  FALSE
    <3>1. caLock.by = q /\ q \in Starter /\ q \notin killed
      BY <2>1, <2>2 DEF AuthorityInv, Fits, Holds, Inside
    <3>2. Held
      BY <3>1, CaShapes, AuthorityAssumption DEF Held
    <3> QED
      BY <1>R, <2>2, <3>1, <3>2 DEF RemoveCaLock
  <2> QED
    BY <1>R, <2>1, <2>2 DEF AuthorityInv, Ordered
<1>M. ASSUME NEW p \in Starter, NEW to \in StartStages, NEW m \in Materials,
             start' = [start EXCEPT ![p] = to], material' = [material EXCEPT ![p] = m]
      PROVE  start'[p] = to /\ material'[p] = m
  BY <1>M, <1>T DEF Typed
\* Nothing but the place of one process changes, and it is no place inside.
<1>O. ASSUME NEW p \in Starter, NEW to \in {"first", "claim", "waiting", "owner", "age", "break", "failed"},
             start' = [start EXCEPT ![p] = to], UNCHANGED <<keyFile, certFile, caLock, material, killed, pairs, robbed>>,
             judged' \in [Starter -> Starter \cup {Nobody}]
      PROVE  AuthorityInv'
  <2>1. to \in StartStages
    BY LoadStages DEF StartStages
  <2>2. start'[p] = to /\ material'[p] = material[p]
    BY <1>A, <1>M, <1>O, <2>1
  <2>3. OnePair(p)' /\ Fits(p)'
    BY <2>2 DEF OnePair, Fits, Reads, Holds, Serves, Inside, InsideStages
  <2>4. ~robbed' => Ordered' /\ \A q \in Inside \ {p} : caLock'.by = q
    BY <1>O DEF AuthorityInv, Ordered, Fits, Holds, Inside
  <2> QED
    BY <1>A, <1>O, <1>T, <2>1, <2>3, <2>4, OneStarterMoves DEF Typed
\* Who is inside is alone there.
<1>I. ASSUME NEW p \in Inside, ~robbed
      PROVE  p \in Starter /\ p \notin killed /\ caLock.by = p /\ Inside \ {p} = {} /\ Fits(p) /\ Ordered
  BY <1>I DEF AuthorityInv, Fits, Holds, Inside
<1> USE DEF StartTo
<1>1. ASSUME NEW p \in Starter, BeginStart(p)
      PROVE  AuthorityInv'
  BY <1>1, <1>O, <1>T DEF BeginStart, Typed
<1>2. ASSUME NEW p \in Starter, ClaimCa(p)
      PROVE  AuthorityInv'
  <2>1. CASE Held
    BY <1>2, <1>O, <1>T, <2>1 DEF ClaimCa, Typed
  <2>2. CASE ~Held
    <3>1. /\ start' = [start EXCEPT ![p] = "sign"] /\ caLock' = [Unlocked EXCEPT !.by = p]
          /\ UNCHANGED <<keyFile, certFile, material, judged, killed, pairs, robbed>>
      BY <1>2, <2>2 DEF ClaimCa
    <3>2. "sign" \in StartStages
      BY DEF StartStages
    <3>3. start'[p] = "sign" /\ material'[p] = material[p]
      BY <1>A, <1>M, <3>1, <3>2
    <3>4. caLock' \in CaLocks /\ caLock'.by = p
      BY <3>1, CaShapes
    <3>5. OnePair(p)' /\ Fits(p)'
      BY <3>3, <3>4 DEF OnePair, Fits, Reads, Holds, Serves
    <3>6. ASSUME ~robbed, NEW q \in Inside \ {p}
          PROVE  FALSE
      <4>1. q \in Starter /\ caLock.by = q
        BY <1>I, <3>6
      <4>2. caLock.by = Nobody
        BY <2>2, CaShapes DEF Held
      <4> QED
        BY <4>1, <4>2, AuthorityAssumption
    <3>7. ~robbed => Ordered'
      BY <3>1 DEF AuthorityInv, Ordered
    <3> QED
      BY <1>A, <1>T, <3>1, <3>2, <3>4, <3>5, <3>6, <3>7, OneStarterMoves DEF Typed
  <2> QED
    BY <2>1, <2>2
<1>3. ASSUME NEW p \in Starter, SignCa(p)
      PROVE  AuthorityInv'
  <2>1. /\ start[p] = "sign" /\ p \notin killed /\ start' = [start EXCEPT ![p] = "holding"]
        /\ caLock' \in CaLocks /\ caLock'.by = caLock.by
        /\ UNCHANGED <<keyFile, certFile, material, judged, killed, pairs, robbed>>
    BY <1>3, <1>T, CaShapes DEF SignCa, Typed
  <2>2. "holding" \in StartStages /\ p \in Inside
    BY <2>1, LoadStages DEF StartStages, Inside, InsideStages
  <2>3. start'[p] = "holding" /\ material'[p] = material[p]
    BY <1>A, <1>M, <2>1, <2>2
  <2>4. OnePair(p)' /\ (~robbed => Fits(p)' /\ Ordered')
    BY <1>I, <2>1, <2>2, <2>3 DEF OnePair, Fits, Reads, Holds, Serves, Ordered
  <2> QED
    BY <1>A, <1>I, <1>T, <2>1, <2>2, <2>4, OneStarterMoves DEF Typed
<1>4. ASSUME NEW p \in Starter, NEW l \in Loads, LoadKey(p, l)
      PROVE  AuthorityInv'
  <2> DEFINE m == [key |-> keyFile, cert |-> NoFile]
  <2>1. l \in {"first", "holding", "waiting"}
    BY LoadStages
  <2>2. CASE keyFile = NoFile \/ certFile = NoFile
    <3>1. /\ start[p] = l /\ p \notin killed /\ start' = [start EXCEPT ![p] = NotLoaded(l)]
          /\ UNCHANGED <<keyFile, certFile, caLock, material, judged, killed, pairs, robbed>>
      BY <1>4, <2>2 DEF LoadKey
    <3>2. CASE l # "holding"
      <4>1. NotLoaded(l) \in {"claim", "owner"}
        BY <2>1, <3>2 DEF NotLoaded
      <4> QED
        BY <1>O, <1>T, <3>1, <4>1 DEF Typed
    <3>3. CASE l = "holding"
      <4>1. NotLoaded(l) = "generate" /\ "generate" \in StartStages /\ p \in Inside
        BY <3>1, <3>3 DEF NotLoaded, StartStages, Inside, InsideStages
      <4>2. start'[p] = "generate" /\ material'[p] = material[p]
        BY <1>A, <1>M, <3>1, <4>1
      <4>3. ~Paired'
        BY <2>2, <3>1 DEF Paired
      <4>4. OnePair(p)' /\ (~robbed => Fits(p)' /\ Ordered')
        BY <1>I, <3>1, <4>1, <4>2, <4>3 DEF OnePair, Fits, Reads, Holds, Serves, Ordered
      <4> QED
        BY <1>A, <1>I, <1>T, <3>1, <4>1, <4>4, OneStarterMoves DEF Typed
    <3> QED
      BY <3>2, <3>3
  <2>3. CASE ~(keyFile = NoFile \/ certFile = NoFile)
    <3>1. /\ start[p] = l /\ p \notin killed /\ start' = [start EXCEPT ![p] = Half[l]]
          /\ material' = [material EXCEPT ![p] = m]
          /\ UNCHANGED <<keyFile, certFile, caLock, judged, killed, pairs, robbed>>
      BY <1>4, <2>3 DEF LoadKey
    <3>2. m \in Materials /\ m.key = keyFile /\ keyFile # NoFile
      BY <1>T, <2>3, CaShapes DEF Typed, Materials, NoMaterial
    <3>3. Half[l] \in {"first cert", "holding cert", "waiting cert"} /\ Half[l] \in StartStages
          /\ (Half[l] = "holding cert" => l = "holding")
      BY <2>1, LoadStages DEF StartStages
    <3> HIDE DEF m
    <3>4. start'[p] = Half[l] /\ material'[p] = m
      BY <1>M, <3>1, <3>2, <3>3
    <3>5. OnePair(p)' /\ Reads(p)' /\ Serves(p)'
      BY <3>1, <3>2, <3>3, <3>4 DEF OnePair, Reads, Serves
    <3>6. ASSUME ~robbed
          PROVE  Holds(p)' /\ \A q \in Inside \ {p} : caLock'.by = q
      <4>1. p \in Inside' => p \in Inside /\ start'[p] = "holding cert"
        BY <3>1, <3>3, <3>4 DEF Inside, InsideStages
      <4>2. Holds(p)'
        BY <1>I, <3>1, <3>2, <3>4, <3>6, <4>1 DEF Holds
      <4> QED
        BY <1>I, <3>1, <3>6, <4>2
    <3>7. ~robbed => Ordered'
      BY <3>1 DEF AuthorityInv, Ordered
    <3> QED
      BY <1>T, <3>1, <3>2, <3>3, <3>5, <3>6, <3>7, OneStarterMoves DEF Typed, Fits
  <2> QED
    BY <2>2, <2>3
<1>5. ASSUME NEW p \in Starter, NEW l \in Loads, LoadCert(p, l)
      PROVE  AuthorityInv'
  <2> DEFINE m == [material[p] EXCEPT !.cert = certFile]
  <2>1. l \in {"first", "holding", "waiting"} /\ Half[l] \in {"first cert", "holding cert", "waiting cert"}
        /\ (Half[l] = "holding cert" <=> l = "holding")
    BY LoadStages
  <2>2. start[p] = Half[l] /\ p \notin killed
    BY <1>5 DEF LoadCert
  <2>3. ~robbed => Reads(p) /\ Ordered
    BY DEF AuthorityInv, Fits
  <2>4. p \in Inside <=> l = "holding"
    BY <2>1, <2>2 DEF Inside, InsideStages
  <2>5. CASE material[p].key = certFile
    <3>1. /\ start' = [start EXCEPT ![p] = Loaded(l)] /\ material' = [material EXCEPT ![p] = m]
          /\ UNCHANGED <<keyFile, certFile, caLock, judged, killed, pairs, robbed>>
      BY <1>5, <2>5 DEF LoadCert
    <3>2. m \in Materials /\ m.key = certFile /\ m.cert = certFile
      BY <1>A, <1>T, <2>5, CaShapes DEF Typed
    <3>3. Loaded(l) = (IF l = "holding" THEN "release" ELSE "serving") /\ Loaded(l) \in StartStages
      BY DEF Loaded, StartStages
    <3> HIDE DEF m
    <3>4. start'[p] = Loaded(l) /\ material'[p] = m
      BY <1>M, <3>1, <3>2, <3>3
    <3>5. OnePair(p)' /\ Reads(p)'
      BY <3>2, <3>3, <3>4 DEF OnePair, Reads
    <3>6. ~robbed => Files(p)' /\ Paired'
      <4>1. ASSUME ~robbed PROVE keyFile = certFile /\ certFile # NoFile
        <5>1. material[p].key # NoFile /\ (keyFile = material[p].key \/ material[p].key < certFile)
          BY <2>1, <2>2, <2>3, <4>1 DEF Reads
        <5>2. certFile \in Nat
          BY <1>T DEF Typed
        <5> QED
          BY <2>5, <5>1, <5>2
      <4> QED
        BY <3>1, <3>2, <3>4, <4>1 DEF Files, Paired
    <3>7. ASSUME ~robbed
          PROVE  Holds(p)' /\ Serves(p)' /\ Ordered' /\ \A q \in Inside \ {p} : caLock'.by = q
      <4>1. p \in Inside' => p \in Inside
        BY <2>4, <3>3, <3>4 DEF Inside, InsideStages
      <4>2. Holds(p)'
        BY <1>I, <3>1, <3>3, <3>4, <3>6, <3>7, <4>1 DEF Holds
      <4>3. Serves(p)' /\ Ordered'
        BY <2>3, <3>1, <3>6, <3>7 DEF Serves, Ordered
      <4>4. \A q \in Inside \ {p} : caLock'.by = q
        BY <1>I, <3>1, <3>7
      <4> QED
        BY <4>2, <4>3, <4>4
    <3> QED
      BY <1>T, <3>1, <3>2, <3>3, <3>5, <3>7, OneStarterMoves DEF Typed, Fits
  <2>6. CASE material[p].key # certFile
    <3>1. /\ start' = [start EXCEPT ![p] = NotLoaded(l)] /\ material' = [material EXCEPT ![p] = NoMaterial]
          /\ UNCHANGED <<keyFile, certFile, caLock, judged, killed, pairs, robbed>>
      BY <1>5, <2>6 DEF LoadCert
    <3>2. /\ NotLoaded(l) \in {"claim", "generate", "owner"} /\ NotLoaded(l) \in StartStages
          /\ NotLoaded(l) = "generate" <=> l = "holding"
      BY <2>1 DEF NotLoaded, StartStages
    <3>3. start'[p] = NotLoaded(l)
      BY <1>M, <3>1, <3>2, CaShapes
    <3>4. OnePair(p)' /\ Reads(p)' /\ Serves(p)'
      BY <3>2, <3>3 DEF OnePair, Reads, Serves
    <3>5. ASSUME ~robbed
          PROVE  Holds(p)' /\ Ordered' /\ \A q \in Inside \ {p} : caLock'.by = q
      <4>1. p \in Inside' => p \in Inside
        BY <2>4, <3>2, <3>3 DEF Inside, InsideStages
      <4>2. p \in Inside => ~Paired
        BY <1>I, <2>1, <2>2, <2>4, <2>6, <3>5 DEF Fits, Holds, Paired
      <4>3. Holds(p)'
        BY <1>I, <3>1, <3>2, <3>3, <3>5, <4>1, <4>2 DEF Holds, Paired
      <4>4. Ordered' /\ \A q \in Inside \ {p} : caLock'.by = q
        BY <1>I, <2>3, <3>1, <3>5 DEF Ordered
      <4> QED
        BY <4>3, <4>4
    <3> QED
      BY <1>T, <3>1, <3>2, <3>4, <3>5, CaShapes, OneStarterMoves DEF Typed, Fits
  <2> QED
    BY <2>5, <2>6
<1>6. ASSUME NEW p \in Starter, GenerateCa(p)
      PROVE  AuthorityInv'
  <2> DEFINE m == [key |-> pairs', cert |-> pairs']
  <2>1. /\ start[p] = "generate" /\ p \notin killed /\ start' = [start EXCEPT ![p] = "rename cert"]
        /\ material' = [material EXCEPT ![p] = m] /\ pairs' = pairs + 1 /\ pairs < MaxPair
        /\ UNCHANGED <<keyFile, certFile, caLock, judged, killed, robbed>>
    BY <1>6 DEF GenerateCa
  <2>2. pairs' \in PairId
    <3>1. pairs \in 0 .. MaxPair /\ MaxPair \in Nat
      BY <1>T, AuthorityAssumption DEF Typed, PairId, NoFile
    <3>2. pairs' = pairs + 1 /\ pairs < MaxPair
      BY <2>1
    <3> QED
      BY <3>1, <3>2 DEF PairId, NoFile
  <2>3. m \in Materials /\ m.key = pairs' /\ m.cert = pairs'
    BY <2>2 DEF Materials
  <2> HIDE DEF m
  <2>4. p \in Inside /\ "rename cert" \in StartStages
    BY <2>1 DEF Inside, InsideStages, StartStages
  <2>5. start'[p] = "rename cert" /\ material'[p] = m
    BY <1>M, <2>1, <2>3, <2>4
  <2>6. ASSUME ~robbed
        PROVE  Ordered' /\ certFile' < pairs' /\ ~Paired'
    <3>1. keyFile \in Nat /\ certFile \in Nat /\ pairs \in Nat
      BY <1>T DEF Typed
    <3>2. Ordered /\ ~Paired
      BY <1>I, <2>1, <2>4, <2>6 DEF Fits, Holds
    <3>3. keyFile' = keyFile /\ certFile' = certFile /\ pairs' = pairs + 1
      BY <2>1
    <3>4. NoFile' = NoFile
      BY DEF NoFile
    <3> QED
      BY <3>1, <3>2, <3>3, <3>4 DEF Ordered, Paired
  <2>7. OnePair(p)' /\ (~robbed => Fits(p)')
    BY <1>I, <2>1, <2>3, <2>4, <2>5, <2>6 DEF OnePair, Fits, Reads, Holds, Serves
  <2> QED
    BY <1>I, <1>T, <2>1, <2>2, <2>3, <2>4, <2>6, <2>7, OneStarterMoves DEF Typed
<1>7. ASSUME NEW p \in Starter, RenameCert(p)
      PROVE  AuthorityInv'
  <2>1. /\ start[p] = "rename cert" /\ p \notin killed /\ start' = [start EXCEPT ![p] = "rename key"]
        /\ certFile' = material[p].cert
        /\ UNCHANGED <<keyFile, caLock, material, judged, killed, pairs, robbed>>
    BY <1>7 DEF RenameCert
  <2>2. p \in Inside /\ "rename key" \in StartStages /\ certFile' \in PairId /\ material[p].key = material[p].cert
    BY <1>T, <2>1 DEF Inside, InsideStages, StartStages, Typed, Materials, AuthorityInv, OnePair
  <2>3. start'[p] = "rename key"
    BY <1>A, <1>M, <2>1, <2>2
  <2>4. OnePair(p)'
    BY <2>1, <2>2, <2>3 DEF OnePair
  <2>5. ASSUME ~robbed
        PROVE  /\ ~Paired /\ keyFile =< certFile /\ certFile < certFile' /\ certFile' = pairs
               /\ material[p].key = pairs
    BY <1>I, <2>1, <2>2, <2>5 DEF Fits, Holds, Ordered
  <2>6. /\ keyFile \in Nat /\ certFile \in Nat /\ certFile' \in Nat /\ pairs \in Nat
        /\ \A q \in Starter : material[q].key \in Nat
    BY <1>A, <1>N, <1>T, <2>2 DEF Typed
  <2>7. ~robbed => Ordered' /\ Fits(p)'
    <3>1. ASSUME ~robbed
          PROVE  Ordered' /\ keyFile' < certFile'
      <4>1. keyFile' = keyFile /\ pairs' = pairs
        BY <2>1
      <4> QED
        BY <2>5, <2>6, <3>1, <4>1 DEF Ordered
    <3> QED
      BY <1>I, <2>1, <2>2, <2>3, <2>5, <3>1 DEF Fits, Reads, Holds, Serves
  <2>8. ASSUME ~robbed, NEW q \in Starter \ {p}, Reads(q), start'[q] = start[q]
        PROVE  Reads(q)'
    <3>1. q \in Starter /\ keyFile' = keyFile /\ material'[q] = material[q]
      BY <2>1
    <3>2. \A n \in Nat : n < certFile => n < certFile'
      BY <2>5, <2>6, <2>8
    <3> QED
      BY <2>6, <2>8, <3>1, <3>2 DEF Reads
  <2> QED
    BY <1>I, <1>T, <2>1, <2>2, <2>4, <2>5, <2>7, <2>8, FilesMove DEF Typed
<1>8. ASSUME NEW p \in Starter, RenameKey(p)
      PROVE  AuthorityInv'
  <2>1. /\ start[p] = "rename key" /\ p \notin killed /\ start' = [start EXCEPT ![p] = "release"]
        /\ keyFile' = material[p].key
        /\ UNCHANGED <<certFile, caLock, material, judged, killed, pairs, robbed>>
    BY <1>8 DEF RenameKey
  <2>2. p \in Inside /\ "release" \in StartStages /\ keyFile' \in PairId /\ material[p].key = material[p].cert
    BY <1>T, <2>1 DEF Inside, InsideStages, StartStages, Typed, Materials, AuthorityInv, OnePair
  <2>3. start'[p] = "release"
    BY <1>A, <1>M, <2>1, <2>2
  <2>4. OnePair(p)'
    BY <2>1, <2>2, <2>3 DEF OnePair
  <2>5. ASSUME ~robbed
        PROVE  keyFile < certFile /\ keyFile' = certFile /\ certFile = pairs
    BY <1>I, <2>1, <2>2, <2>5 DEF Fits, Holds
  <2>6. /\ keyFile \in Nat /\ certFile \in Nat /\ pairs \in Nat
        /\ \A q \in Starter : material[q].key \in Nat
    BY <1>A, <1>N, <1>T DEF Typed
  <2>7. ~robbed => Ordered' /\ Paired' /\ ~Paired
    <3>1. certFile' = certFile /\ pairs' = pairs
      BY <2>1
    <3> QED
      BY <2>5, <2>6, <3>1 DEF Ordered, Paired, NoFile
  <2>8. ~robbed => Fits(p)'
    BY <1>I, <2>1, <2>2, <2>3, <2>5, <2>7 DEF Fits, Reads, Holds, Serves, Files
  <2>9. ASSUME ~robbed, NEW q \in Starter \ {p}, Reads(q), start'[q] = start[q]
        PROVE  Reads(q)'
    BY <2>1, <2>5, <2>6, <2>9 DEF Reads
  <2> QED
    BY <1>I, <1>T, <2>1, <2>2, <2>4, <2>7, <2>8, <2>9, FilesMove DEF Typed
<1>9. ASSUME NEW p \in Starter, GenerateFails(p)
      PROVE  AuthorityInv'
  <2>1. /\ p \notin killed /\ start' = [start EXCEPT ![p] = "unwind"]
        /\ start[p] \in {"generate", "rename cert", "rename key"}
        /\ UNCHANGED <<keyFile, certFile, caLock, material, judged, killed, pairs, robbed>>
    BY <1>9 DEF GenerateFails
  <2>2. p \in Inside /\ "unwind" \in StartStages
    BY <2>1 DEF Inside, InsideStages, StartStages
  <2>3. start'[p] = "unwind"
    BY <1>A, <1>M, <2>1, <2>2
  <2>4. OnePair(p)' /\ (~robbed => Fits(p)' /\ Ordered')
    BY <1>I, <2>1, <2>2, <2>3 DEF OnePair, Fits, Reads, Holds, Serves, Ordered
  <2> QED
    BY <1>A, <1>I, <1>T, <2>1, <2>2, <2>4, OneStarterMoves DEF Typed
<1>10. ASSUME NEW p \in Starter, ReleaseCa(p)
       PROVE  AuthorityInv'
  <2>1. PICK to \in {"serving", "failed"} :
          /\ start' = [start EXCEPT ![p] = to] /\ p \notin killed
          /\ to = "serving" => start[p] = "release"
    BY <1>10 DEF ReleaseCa
  <2>2. RemoveCaLock(p) /\ UNCHANGED <<keyFile, certFile, material, judged, killed, pairs>>
    BY <1>10 DEF ReleaseCa
  <2>3. to \in StartStages /\ (to = "serving" => p \in Inside)
    BY <2>1 DEF StartStages, Inside, InsideStages
  <2>4. start'[p] = to /\ material'[p] = material[p]
    BY <1>A, <1>M, <2>1, <2>2, <2>3
  <2>5. OnePair(p)'
    BY <2>1, <2>4 DEF AuthorityInv, OnePair
  <2>6. ~robbed' => Fits(p)'
    <3>1. ASSUME ~robbed', to = "serving" PROVE Files(p)' /\ Paired'
      BY <1>I, <1>R, <2>1, <2>2, <2>3, <2>4, <3>1 DEF Fits, Holds, Files, Paired
    <3> QED
      BY <2>1, <2>4, <3>1 DEF Fits, Reads, Holds, Serves, Inside, InsideStages
  <2> QED
    BY <1>A, <1>R, <1>T, <2>1, <2>2, <2>3, <2>5, <2>6, OneStarterMoves DEF Typed
<1>11. ASSUME NEW p \in Starter, ReadCaOwner(p)
       PROVE  AuthorityInv'
  <2>1. judged' \in [Starter -> Starter \cup {Nobody}]
    BY <1>11, <1>T DEF ReadCaOwner, Typed, CaLocks
  <2> QED
    BY <1>11, <1>O, <2>1 DEF ReadCaOwner, WaitForCa
<1>12. ASSUME NEW p \in Starter, StatCaLock(p)
       PROVE  AuthorityInv'
  <2>1. judged' \in [Starter -> Starter \cup {Nobody}]
    BY <1>12, <1>T DEF StatCaLock, Typed
  <2> QED
    BY <1>12, <1>O, <2>1 DEF StatCaLock, WaitForCa
<1>13. ASSUME NEW p \in Starter, BreakCaLock(p)
       PROVE  AuthorityInv'
  <2>1. /\ start' = [start EXCEPT ![p] = "claim"]
        /\ RemoveCaLock(p) /\ UNCHANGED <<keyFile, certFile, material, judged, killed, pairs>>
    BY <1>13 DEF BreakCaLock
  <2>2. "claim" \in StartStages
    BY DEF StartStages
  <2>3. start'[p] = "claim"
    BY <1>A, <1>M, <2>1, <2>2
  <2>4. OnePair(p)' /\ Fits(p)'
    BY <2>3 DEF OnePair, Fits, Reads, Holds, Serves, Inside, InsideStages
  <2> QED
    BY <1>A, <1>R, <1>T, <2>1, <2>2, <2>4, OneStarterMoves DEF Typed
<1>14. ASSUME NEW p \in Starter, KillStarter(p)
       PROVE  AuthorityInv'
  <2>1. /\ killed' = killed \cup {p}
        /\ UNCHANGED <<keyFile, certFile, caLock, start, material, judged, pairs, robbed>>
    BY <1>14 DEF KillStarter
  <2>2. AuthorityTypeOK' /\ \A q \in Starter : OnePair(q)'
    BY <2>1 DEF AuthorityInv, AuthorityTypeOK, OnePair, PairId
  <2>3. Inside' \subseteq Inside
    BY <2>1 DEF Inside
  <2>4. ASSUME ~robbed', NEW q \in Starter
        PROVE  Ordered' /\ Fits(q)'
    <3>1. Ordered /\ Fits(q)
      BY <2>1, <2>4 DEF AuthorityInv
    <3> QED
      BY <2>1, <2>3, <3>1 DEF Ordered, Fits, Reads, Holds, Serves, Files, Paired
  <2> QED
    BY <2>1, <2>2, <2>4 DEF AuthorityInv, Ordered
<1>15. CASE CaLockAges
  <2>1. /\ caLock' \in CaLocks /\ caLock'.by = caLock.by
        /\ UNCHANGED <<keyFile, certFile, start, material, judged, killed, pairs, robbed>>
    BY <1>15, <1>T, CaShapes DEF CaLockAges, Typed
  <2>2. AuthorityTypeOK' /\ \A q \in Starter : OnePair(q)'
    BY <2>1 DEF AuthorityInv, AuthorityTypeOK, OnePair, PairId, CaLocks
  <2>3. ASSUME ~robbed'
        PROVE  Ordered' /\ \A q \in Starter : Fits(q)'
    BY <2>1, <2>3 DEF AuthorityInv, Ordered, Fits, Reads, Holds, Serves, Files, Paired, Inside
  <2> QED
    BY <2>2, <2>3 DEF AuthorityInv
<1>16. CASE UNCHANGED authorityVars
  BY <1>16 DEF authorityVars, AuthorityInv, AuthorityTypeOK, OnePair, PairId, Ordered, Fits, Reads, Holds,
               Serves, Files, Paired, Inside
<1> QED
  BY <1>1, <1>2, <1>3, <1>4, <1>5, <1>6, <1>7, <1>8, <1>9, <1>10, <1>11, <1>12, <1>13, <1>14, <1>15, <1>16
  DEF AuthorityNext, StartStep

\* A gateway signs with the key of its certificate; and as long as no lock was taken from a
\* living holder, with the pair that is on disk, whatever else happens (ca.ts).
THEOREM TrustHolds == AuthoritySpec => []ServedIsTrusted
<1>1. AuthorityInv => ServedIsTrusted
  BY DEF AuthorityInv, OnePair, Fits, Serves, ServedIsTrusted, Serving, Files
<1> QED
  BY <1>1, AuthorityInitially, AuthorityStep, PTL DEF AuthoritySpec
-----------------------------------------------------------------------------
(* The credential a job holds (connections.ts).                            *)

\* Nothing is cached that is newer than the store, whose tokens only get newer.
ReaderInv == ReaderTypeOK /\ cached =< secret.token

\* Every step of the reader and of the store keeps the invariant.
LEMMA ReaderInvariant == ReaderSpec => []ReaderInv
<1>1. ReaderInit => ReaderInv
  <2> SUFFICES ASSUME ReaderInit PROVE ReaderInv
    OBVIOUS
  <2>1. secret \in [state: States, token: 0 .. MaxIssued]
    BY ReaderAssumption DEF ReaderInit, States
  <2>2. 0 \in 0 .. MaxIssued /\ secret.token \in Nat /\ 0 =< secret.token
    BY <2>1, ReaderAssumption
  <2>3. lapsed \in 0 .. MaxIssued /\ cached \in 0 .. MaxIssued /\ cached =< secret.token
    BY <2>2 DEF ReaderInit
  <2> QED
    BY <2>1, <2>3, Zenon DEF ReaderInit, ReaderInv, ReaderTypeOK
<1>2. ReaderInv /\ [ReaderNext]_readerVars => ReaderInv'
  <2> SUFFICES ASSUME ReaderInv, [ReaderNext]_readerVars PROVE ReaderInv'
    OBVIOUS
  <2> USE ReaderAssumption DEF ReaderInv, ReaderTypeOK, States
  <2>0. secret.token \in 0 .. MaxIssued
    OBVIOUS
  <2>1. CASE Refresh
    <3>1. cached' \in {secret.token, 0, cached}
      BY <2>1 DEF Refresh, Looked
    <3>2. UNCHANGED <<secret, lapsed, fresh>> /\ primed' \in BOOLEAN /\ refreshing' \in BOOLEAN
      BY <2>1, Zenon DEF Refresh
    <3>3. cached' \in 0 .. MaxIssued /\ cached' =< secret.token
      BY <2>0, <3>1
    <3> QED
      BY <3>2, <3>3
  <2>2. CASE RefreshThrows \/ UseCredential \/ TimeToLive
    BY <2>2 DEF RefreshThrows, UseCredential, TimeToLive
  <2>3. CASE Issue
    BY <2>3 DEF Issue
  <2>4. CASE Withdraw
    BY <2>4 DEF Withdraw
  <2>5. CASE Reappear
    BY <2>5 DEF Reappear
  <2>6. CASE Lapse
    BY <2>6 DEF Lapse
  <2>7. CASE UNCHANGED readerVars
    BY <2>7 DEF readerVars
  <2> QED
    BY <2>1, <2>2, <2>3, <2>4, <2>5, <2>6, <2>7 DEF ReaderNext
<1> QED
  BY <1>1, <1>2, PTL DEF ReaderSpec

\* A token takes another's place only if it is newer and has not expired.
OnlyNewer == cached' # cached => cached' = 0 \/ (cached' > cached /\ cached' > lapsed)

\* However reads, throws, renewals and withdrawals cross, the cache never goes back to a
\* token older than the one it holds, nor takes one that expired (connectionReader).
THEOREM CacheNeverGoesBack == ReaderSpec => [][OnlyNewer]_readerVars
<1>1. ReaderInv /\ [ReaderNext]_readerVars => [OnlyNewer]_readerVars
  <2> SUFFICES ASSUME ReaderInv, ReaderNext PROVE OnlyNewer
    BY DEF OnlyNewer, readerVars
  <2>1. CASE Refresh
    <3>1. /\ secret.token \in Nat /\ cached \in Nat /\ lapsed \in Nat
          /\ cached =< secret.token
      BY ReaderAssumption DEF ReaderInv, ReaderTypeOK
    <3>2. cached' \in {0, cached} \/ (cached' = secret.token /\ secret.token > lapsed)
      <4>1. cached' = Looked
        BY <2>1 DEF Refresh
      <4>2. CASE Usable
        BY <4>1, <4>2 DEF Looked, Usable
      <4>3. CASE ~Usable
        BY <4>1, <4>3 DEF Looked
      <4> QED
        BY <4>2, <4>3
    <3>3. CASE cached' \in {0, cached}
      BY <3>3 DEF OnlyNewer
    <3>4. CASE cached' = secret.token /\ secret.token > lapsed
      BY <3>1, <3>4 DEF OnlyNewer
    <3> QED
      BY <3>2, <3>3, <3>4
  <2>2. CASE ~Refresh
    BY <2>2 DEF ReaderNext, RefreshThrows, UseCredential, TimeToLive, Issue, Withdraw,
      Reappear, Lapse, OnlyNewer
  <2> QED
    BY <2>1, <2>2
<1> QED
  BY <1>1, ReaderInvariant, PTL DEF ReaderSpec
=============================================================================
