---------------------------- MODULE SourcesProof ----------------------------
(***************************************************************************)
(* Ticket sources and the connection they poll with: a ticket starts at    *)
(* most one cycle run, a source in trouble is named, and the stored grant  *)
(* can be renewed - for any number of control planes, sources, tickets,    *)
(* polls and flows, and any number of crashes, throws and lost answers.    *)
(***************************************************************************)
EXTENDS Sources, LinearConnection, SequenceTheorems, FiniteSetTheorems, TLAPS

-----------------------------------------------------------------------------
(* A ticket starts once (sources.ts, emit).                                *)

-----------------------------------------------------------------------------
(* Shapes.                                                                 *)

\* Only what its fields are called matters of a pass and of the poll in it.
PollFields == {"stage", "source", "age", "pages", "cursor", "list", "admitted", "outcome", "kind"}
PassFields == {"busy", "age", "todo", "unchanged", "poll"}
LoopShape ==
  /\ DOMAIN loop = Plane
  /\ \A v \in Plane : DOMAIN loop[v] = PassFields /\ DOMAIN loop[v].poll = PollFields

\* A pass that has not begun.
LEMMA NoPassShape ==
  /\ DOMAIN NoPass = PassFields /\ DOMAIN NoPoll = PollFields
  /\ NoPass.poll = NoPoll /\ NoPoll.stage = "none"
<1>1. DOMAIN NoPoll = PollFields /\ NoPoll.stage = "none"
  BY DEF NoPoll, PollFields
<1>2. DOMAIN NoPass = PassFields /\ NoPass.poll = NoPoll
  BY DEF NoPass, PassFields
<1> QED
  BY <1>1, <1>2

\* A step of one pass.
LEMMA PassMoves ==
  ASSUME LoopShape, NEW v \in Plane, NEW q, DOMAIN q = PassFields, DOMAIN q.poll = PollFields,
         loop' = [loop EXCEPT ![v] = q]
  PROVE  /\ LoopShape' /\ Poll(v)' = q.poll
         /\ \A w \in Plane \ {v} : Poll(w)' = Poll(w)
BY DEF LoopShape, Poll

\* One plane's poll changes; the others' stay.
LEMMA PollMoves ==
  ASSUME LoopShape, NEW v \in Plane, NEW p, DOMAIN p = PollFields, loop' = [loop EXCEPT ![v].poll = p]
  PROVE  /\ LoopShape' /\ Poll(v)' = p
         /\ \A w \in Plane \ {v} : Poll(w)' = Poll(w)
<1> DEFINE q == [loop[v] EXCEPT !.poll = p]
<1>1. loop' = [loop EXCEPT ![v] = q]
  OBVIOUS
<1>2. DOMAIN q = PassFields /\ q.poll = p
  BY DEF LoopShape, PassFields
<1> HIDE DEF q
<1> QED
  BY <1>1, <1>2, PassMoves

\* One plane's poll moves to another stage.
LEMMA StageMoves ==
  ASSUME LoopShape, NEW v \in Plane, NEW stage, loop' = [loop EXCEPT ![v].poll.stage = stage]
  PROVE  /\ LoopShape' /\ Poll(v)'.stage = stage /\ Poll(v)'.list = Poll(v).list
         /\ \A w \in Plane \ {v} : Poll(w)' = Poll(w)
<1> DEFINE p == [loop[v].poll EXCEPT !.stage = stage]
<1>1. loop' = [loop EXCEPT ![v].poll = p]
  OBVIOUS
<1>2. DOMAIN p = PollFields /\ p.stage = stage /\ p.list = loop[v].poll.list
  BY DEF LoopShape, PollFields
<1> HIDE DEF p
<1> QED
  BY <1>1, <1>2, PollMoves DEF Poll

-----------------------------------------------------------------------------
(* The invariant.                                                          *)

\* A control plane holds the ticket at the head of its list from the claim on.
Hot == {"start", "link", "fail"}
Holds(v, t) == Poll(v).stage \in Hot /\ NextTicket(v) = t

TicketInv ==
  /\ LoopShape
  /\ emission \in [Ticket -> {"none", "emitted", "linked", "failed"}]
  /\ started \in [Ticket -> Nat]
  /\ \A t \in Ticket : emission[t] = "none" => started[t] = 0
  /\ \A v \in Plane : \A t \in Ticket : Holds(v, t) =>
       /\ emission[t] # "none"
       /\ Poll(v).stage = "start" => started[t] = 0
       /\ \A w \in Plane : Holds(w, t) => w = v

\* No ticket is in anybody's hands.
LEMMA TicketInitially == SourcesInit => TicketInv
<1> SUFFICES ASSUME SourcesInit PROVE TicketInv
  OBVIOUS
<1>1. DOMAIN loop = Plane /\ \A v \in Plane : loop[v] = NoPass
  BY DEF SourcesInit
<1>2. LoopShape /\ \A v \in Plane, t \in Ticket : ~Holds(v, t)
  BY <1>1, NoPassShape DEF LoopShape, Holds, Poll, Hot
<1> QED
  BY <1>2 DEF SourcesInit, TicketInv

\* Nobody takes hold of a ticket, and the ledger stays.
Unheld ==
  /\ LoopShape' /\ UNCHANGED <<emission, started>>
  /\ \A v \in Plane : Poll(v)'.stage \in Hot =>
       /\ Poll(v).stage \in Hot /\ Poll(v)'.list = Poll(v).list
       /\ Poll(v)'.stage = "start" => Poll(v).stage = "start"

\* A step at which nobody takes hold of a ticket keeps the invariant.
LEMMA UnheldKeeps == ASSUME TicketInv, Unheld PROVE TicketInv'
<1>1. \A v \in Plane, t \in Ticket : Holds(v, t)' => Holds(v, t)
  BY DEF Holds, Unheld, NextTicket
<1>2. \A v \in Plane, t \in Ticket : Holds(v, t)' /\ Poll(v)'.stage = "start" => Poll(v).stage = "start"
  BY DEF Holds, Unheld
<1>3. UNCHANGED <<emission, started>> /\ LoopShape'
  BY DEF Unheld
<1>4. ASSUME NEW v \in Plane, NEW t \in Ticket, Holds(v, t)'
      PROVE  /\ emission'[t] # "none"
             /\ Poll(v)'.stage = "start" => started'[t] = 0
             /\ \A w \in Plane : Holds(w, t)' => w = v
  BY <1>1, <1>2, <1>3, <1>4 DEF TicketInv
<1> QED
  BY <1>3, <1>4 DEF TicketInv

\* A poll that only moves on is quiet.
LEMMA OneStage ==
  ASSUME LoopShape, NEW v \in Plane, NEW stage, stage # "start", stage # "link",
         Goto(v, stage), stage = "fail" => Poll(v).stage \in {"start", "link"},
         UNCHANGED <<emission, started>>
  PROVE  Unheld
BY StageMoves DEF Goto, Unheld, Hot

\* So is one that ends up where no ticket is held ...
LEMMA CoolPoll ==
  ASSUME LoopShape, NEW v \in Plane, NEW p, DOMAIN p = PollFields, p.stage \notin Hot,
         PassOn(v, p), UNCHANGED <<emission, started>>
  PROVE  Unheld
BY PollMoves DEF PassOn, Unheld

\* ... and a whole pass that does.
LEMMA CoolPass ==
  ASSUME LoopShape, NEW v \in Plane, NEW q, DOMAIN q = PassFields, DOMAIN q.poll = PollFields,
         q.poll.stage \notin Hot, loop' = [loop EXCEPT ![v] = q], UNCHANGED <<emission, started>>
  PROVE  Unheld
BY PassMoves DEF Unheld

\* Most steps are quiet.
LEMMA UnheldSteps ==
  ASSUME TicketInv, NEW v \in Plane,
         \/ PassRead(v) \/ PassDone(v) \/ Checked(v) \/ ReadPage(v) \/ ReadKnown(v)
         \/ EmitDone(v) \/ Record(v) \/ CatchRecord(v)
         \/ PassFault(v)
  PROVE  Unheld
<1> USE DEF TicketInv
<1>1. CASE PassRead(v)
  <2> DEFINE todo == {s \in Source \ Unparseable : source[s].enabled /\ IsDueRow(s)}
             q == [busy |-> TRUE, age |-> 0, todo |-> todo, unchanged |-> todo, poll |-> NoPoll]
  <2>1. loop' = [loop EXCEPT ![v] = q] /\ UNCHANGED <<emission, started>>
    BY <1>1 DEF PassRead
  <2>2. DOMAIN q = PassFields /\ q.poll = NoPoll
    BY DEF PassFields
  <2> HIDE DEF q
  <2> QED
    BY <2>1, <2>2, NoPassShape, CoolPass DEF Hot
<1>2. CASE PassDone(v) \/ PollCrash(v)
  BY <1>2, NoPassShape, CoolPass DEF PassDone, PollCrash, Hot
<1>3. CASE Checked(v) \/ EmitDone(v) \/ Unforeseen(v) \/ EmitThrows(v)
  BY <1>3, OneStage DEF Checked, EmitDone, Unforeseen, EmitThrows, PassAt
<1>4. CASE Record(v) \/ CatchRecord(v) \/ CatchSwallows(v)
  BY <1>4, NoPassShape, CoolPoll DEF Record, CatchRecord, CatchSwallows, Hot
<1>5. CASE Refused(v) \/ \E kind \in Kind : LinearFails(v, kind)
  <2>1. PICK outcome, kind : PollEnds(v, outcome, kind) /\ UNCHANGED <<emission, started>>
    BY <1>5 DEF Refused, LinearFails
  <2> DEFINE p == [Poll(v) EXCEPT !.stage = "record", !.outcome = outcome, !.kind = kind,
                                  !.admitted = FALSE]
  <2>2. DOMAIN p = PollFields /\ p.stage = "record"
    BY DEF LoopShape, PollFields, Poll
  <2>3. PassOn(v, p)
    BY <2>1 DEF PollEnds
  <2> HIDE DEF p
  <2> QED
    BY <2>1, <2>2, <2>3, CoolPoll DEF Hot
<1>6. CASE ReadPage(v)
  <2> DEFINE page == Page(Poll(v).source, Poll(v).cursor)
             more == Len(page) < Cardinality(Beyond(Poll(v).source, Poll(v).cursor))
             admitted == SelectSeq(page, LAMBDA t : t \in open)
             stage == IF more /\ Poll(v).pages + 1 < MaxPages THEN "read" ELSE "known"
             p == [Poll(v) EXCEPT !.pages = @ + 1, !.stage = stage,
                     !.cursor = IF page = << >> THEN @ ELSE updated[page[Len(page)]],
                     !.list = @ \o admitted, !.admitted = @ \/ admitted # << >>]
  <2>1. PassOn(v, p) /\ UNCHANGED <<emission, started>>
    BY <1>6 DEF ReadPage
  <2>2. stage \in {"read", "known"}
    OBVIOUS
  <2> HIDE DEF page, more, admitted, stage
  <2>3. DOMAIN p = PollFields /\ p.stage = stage
    BY DEF LoopShape, PollFields, Poll
  <2> HIDE DEF p
  <2> QED
    BY <2>1, <2>2, <2>3, CoolPoll DEF Hot
<1>7. CASE ReadKnown(v)
  <2> DEFINE p == [Poll(v) EXCEPT !.stage = "emit", !.list = Taking(Poll(v).list)]
  <2>1. PassOn(v, p) /\ UNCHANGED <<emission, started>>
    BY <1>7 DEF ReadKnown
  <2>2. DOMAIN p = PollFields /\ p.stage = "emit"
    BY DEF LoopShape, PollFields, Poll
  <2> HIDE DEF p
  <2> QED
    BY <2>1, <2>2, CoolPoll DEF Hot
<1> QED
  BY <1>1, <1>2, <1>3, <1>4, <1>5, <1>6, <1>7 DEF PassFault

\* Claims of polls, edits and minutes take hold of no ticket either.
LEMMA UnheldAround ==
  ASSUME TicketInv,
         \/ \E v \in Plane, s \in Source : ClaimPoll(v, s)
         \/ \E t \in Ticket : EditTicket(t)
         \/ \E s \in Source : ToggleSource(s)
         \/ MinutePasses \/ UNCHANGED sourcesVars
  PROVE  Unheld
<1> USE DEF TicketInv
<1>1. CASE UNCHANGED <<loop, emission, started>>
  <2>1. LoopShape' /\ \A v \in Plane : Poll(v)' = Poll(v)
    BY <1>1 DEF LoopShape, Poll
  <2> QED
    BY <1>1, <2>1 DEF Unheld
<1>2. ASSUME NEW v \in Plane, NEW s \in Source, ClaimPoll(v, s)
      PROVE  Unheld
  <2>1. UNCHANGED <<emission, started>>
    BY <1>2 DEF ClaimPoll
  <2>2. CASE s \in loop[v].unchanged
    <3> DEFINE p == [NoPoll EXCEPT !.stage = "check", !.source = s]
               q == [loop[v] EXCEPT !.todo = @ \ {s}, !.poll = p]
               r(w) == [loop[w] EXCEPT !.unchanged = @ \ {s}]
    <3>1. DOMAIN p = PollFields /\ p.stage = "check"
      <4> HIDE DEF p
      <4>1. DOMAIN [NoPoll EXCEPT !.stage = "check", !.source = s] = PollFields
        BY NoPassShape
      <4>2. [NoPoll EXCEPT !.stage = "check", !.source = s].stage = "check"
        BY NoPassShape DEF PollFields
      <4> QED
        BY <4>1, <4>2 DEF p
    <3>2. loop' = [w \in Plane |-> IF w = v THEN q ELSE r(w)]
      BY <1>2, <2>2 DEF ClaimPoll
    <3> HIDE DEF p
    <3>3. DOMAIN q = PassFields /\ q.poll = p
      BY DEF LoopShape, PassFields
    <3>4. \A w \in Plane : DOMAIN r(w) = PassFields /\ r(w).poll = loop[w].poll
      BY DEF LoopShape, PassFields
    <3> HIDE DEF q, r
    <3>5. LoopShape'
      BY <3>1, <3>2, <3>3, <3>4 DEF LoopShape
    <3>6. Poll(v)'.stage = "check" /\ \A w \in Plane \ {v} : Poll(w)' = Poll(w)
      BY <3>1, <3>2, <3>3, <3>4 DEF Poll
    <3> QED
      BY <2>1, <3>5, <3>6 DEF Unheld, Hot
  <2>3. CASE s \notin loop[v].unchanged
    <3> DEFINE q == [loop[v] EXCEPT !.todo = @ \ {s}]
    <3>1. loop' = [loop EXCEPT ![v] = q]
      BY <1>2, <2>3 DEF ClaimPoll
    <3>2. DOMAIN q = PassFields /\ q.poll = loop[v].poll /\ DOMAIN loop[v].poll = PollFields
      BY DEF LoopShape, PassFields
    <3>3. q.poll.stage = "none"
      BY <1>2, <3>2 DEF ClaimPoll, PassAt, Poll
    <3> HIDE DEF q
    <3> QED
      BY <2>1, <3>1, <3>2, <3>3, CoolPass DEF Hot
  <2> QED
    BY <2>2, <2>3
<1>3. CASE MinutePasses
  <2> DEFINE q(v) == [loop[v] EXCEPT !.age = Older(@),
                        !.poll.age = IF loop[v].poll.stage = "none" THEN 0 ELSE Older(@)]
  <2>1. loop' = [v \in Plane |-> IF loop[v].busy THEN q(v) ELSE loop[v]]
        /\ UNCHANGED <<emission, started>>
    BY <1>3 DEF MinutePasses
  <2>2. ASSUME NEW v \in Plane
        PROVE  /\ DOMAIN q(v) = PassFields /\ DOMAIN q(v).poll = PollFields
               /\ q(v).poll.stage = loop[v].poll.stage /\ q(v).poll.list = loop[v].poll.list
    <3> DEFINE a == IF loop[v].poll.stage = "none" THEN 0 ELSE Older(loop[v].poll.age)
               p == [loop[v].poll EXCEPT !.age = a]
    <3>1. DOMAIN p = PollFields /\ p.stage = loop[v].poll.stage /\ p.list = loop[v].poll.list
      BY DEF LoopShape, PollFields
    <3>2. q(v) = [loop[v] EXCEPT !.age = Older(@), !.poll = p]
      OBVIOUS
    <3> HIDE DEF p, q
    <3>3. DOMAIN q(v) = PassFields /\ q(v).poll = p
      BY <3>2 DEF LoopShape, PassFields
    <3> QED
      BY <3>1, <3>3
  <2> HIDE DEF q
  <2>3. LoopShape'
    BY <2>1, <2>2 DEF LoopShape
  <2>4. \A v \in Plane : Poll(v)'.stage = Poll(v).stage /\ Poll(v)'.list = Poll(v).list
    BY <2>1, <2>2 DEF Poll
  <2> QED
    BY <2>1, <2>3, <2>4 DEF Unheld
<1> QED
  BY <1>1, <1>2, <1>3 DEF EditTicket, ToggleSource, sourcesVars

-----------------------------------------------------------------------------
(* The four steps that are not.                                            *)

\* A ticket that is passed over is in nobody's hands.
LEMMA Dropping ==
  ASSUME LoopShape, NEW v \in Plane, PassOn(v, Dropped(v, "emit"))
  PROVE  /\ LoopShape' /\ Poll(v)'.stage \notin Hot
         /\ \A w \in Plane \ {v} : Poll(w)' = Poll(w)
<1> DEFINE p == [Poll(v) EXCEPT !.stage = "emit", !.list = Tail(@)]
<1>1. DOMAIN p = PollFields /\ p.stage = "emit"
  BY DEF LoopShape, PollFields, Poll
<1>2. PassOn(v, p)
  BY DEF Dropped
<1> HIDE DEF p
<1> QED
  BY <1>1, <1>2, PollMoves DEF PassOn, Hot

Claimed == {t \in Ticket : emission[t] # "none"}

\* The insert that claims a ticket, or finds it claimed.
LEMMA ClaimTicketKeeps ==
  ASSUME TicketInv, NEW v \in Plane, ClaimTicket(v)
  PROVE  TicketInv' /\ [TicketContract!Next]_<<Claimed, started>>
<1> USE DEF TicketInv
<1> DEFINE t == NextTicket(v)
<1>1. CASE emission[t] # "none"
  <2>1. PassOn(v, Dropped(v, "emit")) /\ UNCHANGED <<emission, started>>
    BY <1>1 DEF ClaimTicket
  <2>2. Unheld
    BY <2>1, Dropping DEF Unheld
  <2> QED
    BY <2>1, <2>2, UnheldKeeps DEF Claimed
<1>2. CASE emission[t] = "none"
  <2>1. /\ emission' = [emission EXCEPT ![t] = "emitted"] /\ UNCHANGED started
        /\ Goto(v, "start")
    BY <1>2 DEF ClaimTicket
  <2>2. /\ LoopShape' /\ Poll(v)'.stage = "start" /\ Poll(v)'.list = Poll(v).list
        /\ \A w \in Plane \ {v} : Poll(w)' = Poll(w)
    BY <2>1, StageMoves DEF Goto
  <2>3. /\ \A u \in Ticket : Holds(v, u)' <=> u = t
        /\ \A w \in Plane \ {v}, u \in Ticket : Holds(w, u)' <=> Holds(w, u)
    BY <2>2 DEF Holds, NextTicket, Hot
  <2> HIDE DEF t
  <2>4. CASE t \in Ticket
    <3>1. started[t] = 0 /\ \A w \in Plane : ~Holds(w, t)
      BY <1>2, <2>4
    <3>2. /\ emission' \in [Ticket -> {"none", "emitted", "linked", "failed"}]
          /\ emission'[t] = "emitted" /\ \A u \in Ticket \ {t} : emission'[u] = emission[u]
      BY <2>1, <2>4
    <3>3. ASSUME NEW w \in Plane, NEW u \in Ticket, Holds(w, u)'
          PROVE  /\ emission'[u] # "none"
                 /\ Poll(w)'.stage = "start" => started'[u] = 0
                 /\ \A x \in Plane : Holds(x, u)' => x = w
      <4>1. CASE w = v
        BY <4>1, <3>3, <2>1, <2>3, <3>1, <3>2
      <4>2. CASE w # v
        <5>1. Holds(w, u) /\ u # t /\ Poll(w)' = Poll(w)
          BY <4>2, <3>3, <2>2, <2>3, <3>1
        <5> QED
          BY <5>1, <2>1, <2>3, <3>2
      <4> QED
        BY <4>1, <4>2
    <3>4. TicketInv'
      BY <2>1, <2>2, <3>2, <3>3
    <3>5. t \notin Claimed /\ Claimed' = Claimed \cup {t}
      BY <1>2, <2>4, <3>2 DEF Claimed
    <3>6. PICK u \in Ticket : u = t
      BY <2>4
    <3>8. TicketContract!Claim(u)
      BY <3>5, <3>6, <2>1 DEF TicketContract!Claim, Claimed
    <3>7. TicketContract!Next
      BY <3>8 DEF TicketContract!Next
    <3> QED
      BY <3>4, <3>7
  <2>5. CASE t \notin Ticket
    <3>1. emission' = emission
      BY <2>1, <2>5
    <3>2. ASSUME NEW w \in Plane, NEW u \in Ticket, Holds(w, u)'
          PROVE  w # v /\ Holds(w, u) /\ Poll(w)' = Poll(w)
      BY <3>2, <2>2, <2>3, <2>5
    <3>3. TicketInv'
      BY <2>1, <2>2, <3>1, <3>2
    <3> QED
      BY <3>1, <3>3, <2>1 DEF Claimed
  <2> QED
    BY <2>4, <2>5
<1> QED
  BY <1>1, <1>2

\* The start of the cycle run of a claimed ticket.
LEMMA BeginKeeps ==
  ASSUME TicketInv, NEW v \in Plane, BeginCycle(v)
  PROVE  TicketInv' /\ [TicketContract!Next]_<<Claimed, started>>
<1> USE DEF TicketInv
<1> DEFINE t == NextTicket(v)
<1>1. /\ started' = [started EXCEPT ![t] = started[t] + 1] /\ UNCHANGED emission
      /\ Goto(v, "link") /\ Poll(v).stage = "start"
  BY DEF BeginCycle, PassAt
<1>2. /\ LoopShape' /\ Poll(v)'.stage = "link" /\ Poll(v)'.list = Poll(v).list
      /\ \A w \in Plane \ {v} : Poll(w)' = Poll(w)
  BY <1>1, StageMoves DEF Goto
<1>3. /\ \A u \in Ticket : (Holds(v, u)' <=> u = t) /\ (Holds(v, u) <=> u = t)
      /\ \A w \in Plane \ {v}, u \in Ticket : Holds(w, u)' <=> Holds(w, u)
  BY <1>1, <1>2 DEF Holds, NextTicket, Hot
<1> HIDE DEF t
<1>4. CASE t \in Ticket
  <2>1. started[t] = 0 /\ emission[t] # "none" /\ \A w \in Plane \ {v} : ~Holds(w, t)
    BY <1>1, <1>3, <1>4
  <2>2. started' = [started EXCEPT ![t] = 1]
    BY <1>1, <2>1
  <2>3. started' \in [Ticket -> Nat] /\ \A u \in Ticket \ {t} : started'[u] = started[u]
    BY <1>4, <2>2
  <2>4. ASSUME NEW w \in Plane, NEW u \in Ticket, Holds(w, u)'
        PROVE  /\ emission'[u] # "none"
               /\ Poll(w)'.stage = "start" => started'[u] = 0
               /\ \A x \in Plane : Holds(x, u)' => x = w
    <3>1. CASE w = v
      BY <3>1, <2>1, <2>4, <1>1, <1>2, <1>3
    <3>2. CASE w # v
      <4>1. Holds(w, u) /\ u # t /\ Poll(w)' = Poll(w)
        BY <3>2, <2>4, <1>2, <1>3, <2>1
      <4> QED
        BY <4>1, <1>1, <1>3, <2>3
    <3> QED
      BY <3>1, <3>2
  <2>5. TicketInv'
    BY <1>1, <1>2, <2>1, <2>3, <2>4
  <2>6. TicketContract!Run(t)
    BY <1>1, <1>4, <2>1, <2>2 DEF TicketContract!Run
  <2> QED
    BY <2>5, <2>6, <1>4 DEF TicketContract!Next
<1>5. CASE t \notin Ticket
  <2>1. started' = started
    BY <1>1, <1>5
  <2>2. ASSUME NEW w \in Plane, NEW u \in Ticket, Holds(w, u)'
        PROVE  w # v /\ Holds(w, u) /\ Poll(w)' = Poll(w)
    BY <2>2, <1>2, <1>3, <1>5
  <2>4. ASSUME NEW w \in Plane, NEW u \in Ticket, Holds(w, u)'
        PROVE  /\ emission'[u] # "none"
               /\ Poll(w)'.stage = "start" => started'[u] = 0
               /\ \A x \in Plane : Holds(x, u)' => x = w
    BY <2>2, <2>4, <1>1, <2>1
  <2>3. TicketInv'
    BY <1>1, <1>2, <2>1, <2>4
  <2> QED
    BY <1>1, <2>1, <2>3 DEF Claimed
<1> QED
  BY <1>4, <1>5

\* Linked or failed, a ticket that was claimed stays so.
LEMMA SettleKeeps ==
  ASSUME TicketInv, NEW v \in Plane, LinkCycle(v) \/ FailEmission(v)
  PROVE  TicketInv' /\ UNCHANGED <<Claimed, started>>
<1> USE DEF TicketInv
<1> DEFINE t == NextTicket(v)
<1>1. PICK e \in {"linked", "failed"} :
        /\ emission' = [emission EXCEPT ![t] = e] /\ UNCHANGED started
        /\ PassOn(v, Dropped(v, "emit")) /\ Poll(v).stage \in Hot
  BY DEF LinkCycle, FailEmission, PassAt, Hot
<1>2. /\ LoopShape' /\ Poll(v)'.stage \notin Hot
      /\ \A w \in Plane \ {v} : Poll(w)' = Poll(w)
  BY <1>1, Dropping
<1>3. t \in Ticket => Holds(v, t)
  BY <1>1 DEF Holds
<1> HIDE DEF t
<1>4. \A u \in Ticket : (emission'[u] = "none" <=> emission[u] = "none")
  BY <1>1, <1>3
<1>5. emission' \in [Ticket -> {"none", "emitted", "linked", "failed"}]
  BY <1>1
<1>6. \A w \in Plane, u \in Ticket : Holds(w, u)' => Holds(w, u) /\ Poll(w)' = Poll(w)
  BY <1>2 DEF Holds, NextTicket
<1>7. ASSUME NEW w \in Plane, NEW u \in Ticket, Holds(w, u)'
      PROVE  /\ emission'[u] # "none"
             /\ Poll(w)'.stage = "start" => started'[u] = 0
             /\ \A x \in Plane : Holds(x, u)' => x = w
  BY <1>1, <1>4, <1>6, <1>7
<1>8. TicketInv'
  BY <1>1, <1>2, <1>4, <1>5, <1>7
<1> QED
  BY <1>1, <1>4, <1>8 DEF Claimed

\* Every step keeps the invariant, and is a step of the contract or none.
LEMMA TicketStep ==
  ASSUME TicketInv, [SourcesNext]_sourcesVars
  PROVE  TicketInv' /\ [TicketContract!Next]_<<Claimed, started>>
<1>1. ASSUME Unheld
      PROVE  TicketInv' /\ UNCHANGED <<Claimed, started>>
  BY <1>1, UnheldKeeps DEF Unheld, Claimed
<1> QED
  BY <1>1, UnheldSteps, UnheldAround, ClaimTicketKeeps, BeginKeeps, SettleKeeps
     DEF SourcesNext, PassStep

\* The row of a ticket is taken before a cycle run starts for it, by one poll
\* alone, and it starts one run at most: whichever sources and control planes see
\* the ticket, and wherever they throw or die (sources.ts, emit).
THEOREM TicketsStartOnce == SourcesSpec => TicketStartsAtMostOnce
<1>1. SourcesInit => TicketContract!Init
  BY DEF SourcesInit, TicketContract!Init
<1>2. TicketInv /\ [SourcesNext]_sourcesVars => TicketInv'
  BY TicketStep
<1>3. TicketInv /\ [SourcesNext]_sourcesVars
        => [TicketContract!Next]_<<{t \in Ticket : emission[t] # "none"}, started>>
  BY TicketStep DEF Claimed
<1> QED
  BY TicketInitially, <1>1, <1>2, <1>3, PTL
     DEF SourcesSpec, TicketStartsAtMostOnce, TicketContract!Spec

-----------------------------------------------------------------------------
(* Trouble is told (source-health.ts).                                     *)

\* The polls of a source that are under way.
Polling(s) == {v \in Plane : Poll(v).stage # "none" /\ Poll(v).source = s}

\* What a pass holds: a poll begins within it, and is not older than it.
PassInv ==
  /\ LoopShape
  /\ \A v \in Plane :
       /\ loop[v].age \in Nat /\ Poll(v).age \in Nat /\ Poll(v).outcome \in Outcome
       /\ Poll(v).stage # "none" =>
            /\ loop[v].busy /\ Poll(v).source \in Source
            /\ Poll(v).age <= loop[v].age

\* What the rows hold.
RowFields == {"enabled", "ever", "age"}
SourceShape ==
  /\ DOMAIN source = Source
  /\ \A s \in Source : DOMAIN source[s] = RowFields /\ source[s].age \in Nat
LastFields == {"outcome", "kind", "age"}
RowInv ==
  /\ SourceShape /\ owed \in [Source -> Nat]
  /\ DOMAIN ledger = Source
  /\ \A s \in Source :
       /\ DOMAIN ledger[s].last = LastFields
       /\ ledger[s].last.outcome \in Outcome \cup {"none"} /\ ledger[s].last.age \in Nat
       /\ ledger[s].ok.age \in Nat

\* A claim is answered by a row at least as young, or by a poll under way, or
\* what it owes is owed for good.
Answered(s) ==
  \/ ledger[s].last.outcome # "none" /\ ledger[s].last.age <= source[s].age
  \/ \E v \in Polling(s) : loop[v].age <= source[s].age
  \/ Cardinality(Polling(s)) < owed[s]
Told(s) ==
  /\ IsFiniteSet(Polling(s)) /\ Cardinality(Polling(s)) <= owed[s]
  /\ Polling(s) # {} \/ ledger[s].last.outcome # "none" => source[s].ever
  /\ ledger[s].last.outcome = "ok" => ledger[s].ok.ever /\ ledger[s].ok.age <= ledger[s].last.age
  /\ ledger[s].first.ever => ledger[s].last.outcome # "none"
  /\ source[s].ever => Answered(s)

\* The inductive invariant of the health page.
HealthInv == PassInv /\ RowInv /\ \A s \in Source : Told(s)

-----------------------------------------------------------------------------

\* Before the first poll nothing is owed.
LEMMA HealthInitially == ASSUME SourcesInit PROVE HealthInv
<1> USE SourcesAssumption
<1>1. DOMAIN loop = Plane /\ \A v \in Plane : loop[v] = NoPass
  BY DEF SourcesInit
<1>2. NoPass.age = 0 /\ NoPoll.age = 0 /\ NoPoll.outcome = "ok"
  BY DEF NoPass, NoPoll
<1>3. LoopShape /\ \A v \in Plane : Poll(v) = NoPoll
  BY <1>1, NoPassShape DEF LoopShape, Poll
<1>4. PassInv
  BY <1>1, <1>2, <1>3, NoPassShape DEF PassInv, Outcome
<1>5. \A s \in Source : ledger[s].last = NoRowYet /\ ledger[s].ok = Unset /\ ledger[s].first = Unset
  BY DEF SourcesInit
<1>6. /\ NoRowYet.outcome = "none" /\ NoRowYet.age = Old /\ DOMAIN NoRowYet = LastFields
      /\ Unset.ever = FALSE /\ Unset.age = 0 /\ Old \in Nat
  BY DEF NoRowYet, Unset, LastFields
<1>7. RowInv
  <2>1. SourceShape
    <3>1. source \in [Source -> [enabled : BOOLEAN, ever : {FALSE}, age : {0}]]
      BY DEF SourcesInit
    <3>2. ASSUME NEW r \in [enabled : BOOLEAN, ever : {FALSE}, age : {0}]
          PROVE  DOMAIN r = RowFields /\ r.age \in Nat
      <4>1. DOMAIN r = RowFields
        BY DEF RowFields
      <4>2. r.age \in {0}
        OBVIOUS
      <4> QED
        BY <4>1, <4>2
    <3> QED
      BY <3>1, <3>2 DEF SourceShape
  <2>2. owed \in [Source -> Nat] /\ DOMAIN ledger = Source
    BY DEF SourcesInit
  <2> QED
    BY <1>5, <1>6, <2>1, <2>2 DEF RowInv
<1>8. \A s \in Source : ~source[s].ever /\ owed[s] = 0
  BY DEF SourcesInit
<1>9. \A s \in Source : Polling(s) = {}
  BY <1>3, NoPassShape DEF Polling
<1>10. ASSUME NEW s \in Source PROVE Told(s)
  <2>a. IsFiniteSet({}) /\ Cardinality({}) = 0
    BY FS_EmptySet
  <2>b. Polling(s) = {} /\ owed[s] = 0
    BY <1>8, <1>9
  <2>c. IsFiniteSet(Polling(s)) /\ Cardinality(Polling(s)) = 0
    BY <2>a, <2>b
  <2>1. IsFiniteSet(Polling(s)) /\ Cardinality(Polling(s)) <= owed[s]
    <3> DEFINE n == Cardinality(Polling(s))
    <3>1. n = 0 /\ owed[s] = 0
      BY <2>b, <2>c
    <3> HIDE DEF n
    <3>2. n <= owed[s]
      BY <3>1
    <3> QED
      BY <2>c, <3>2 DEF n
  <2> QED
    BY <1>5, <1>6, <1>8, <1>9, <2>1 DEF Told
<1> QED
  BY <1>4, <1>7, <1>10 DEF HealthInv

\* Nothing changes for a source.
LEMMA SameTold ==
  ASSUME NEW s \in Source, Told(s), Polling(s)' = Polling(s),
         owed'[s] = owed[s], source'[s].ever = source[s].ever, source'[s].age = source[s].age,
         ledger'[s] = ledger[s], \A v \in Polling(s) : loop'[v].age = loop[v].age
  PROVE  Told(s)'
<1>1. Answered(s) => Answered(s)'
  BY DEF Answered
<1> QED
  BY <1>1 DEF Told

\* No poll begins or ends.
Calm ==
  /\ LoopShape' /\ UNCHANGED <<owed, ledger>>
  /\ SourceShape'
  /\ \A s \in Source : source'[s].ever = source[s].ever /\ source'[s].age = source[s].age
  /\ \A v \in Plane :
       /\ loop'[v].age \in Nat /\ Poll(v)'.age \in Nat /\ Poll(v)'.outcome \in Outcome
       /\ Poll(v)'.stage # "none" <=> Poll(v).stage # "none"
       /\ Poll(v).stage # "none" =>
            /\ loop'[v].busy /\ loop'[v].age = loop[v].age
            /\ Poll(v)'.source = Poll(v).source /\ Poll(v)'.age = Poll(v).age

\* A step at which no poll begins, ends or is recorded keeps the invariant.
LEMMA CalmKeeps == ASSUME HealthInv, Calm PROVE HealthInv'
<1> USE DEF HealthInv
<1>1. PassInv'
  BY DEF PassInv, Calm
<1>2. owed' = owed /\ ledger' = ledger /\ SourceShape'
  BY DEF Calm
<1>3. RowInv'
  BY <1>2 DEF RowInv
<1>4. \A s \in Source : Polling(s)' = Polling(s)
  BY DEF Polling, Calm
<1>5. ASSUME NEW s \in Source PROVE Told(s)'
  <2>1. \A v \in Polling(s) : loop'[v].age = loop[v].age
    BY DEF Calm, Polling
  <2>2. source'[s].ever = source[s].ever /\ source'[s].age = source[s].age
    BY DEF Calm
  <2> QED
    BY <1>2, <1>4, <2>1, <2>2, SameTold
<1> QED
  BY <1>1, <1>3, <1>5

-----------------------------------------------------------------------------

\* A pass that moves and keeps its poll, or has none.
LEMMA CalmPass ==
  ASSUME HealthInv, NEW v \in Plane, NEW q, loop' = [loop EXCEPT ![v] = q],
         DOMAIN q = PassFields, DOMAIN q.poll = PollFields,
         q.age \in Nat, q.poll.age \in Nat, q.poll.outcome \in Outcome,
         q.poll.stage # "none" <=> Poll(v).stage # "none",
         Poll(v).stage # "none" =>
           /\ q.busy /\ q.age = loop[v].age
           /\ q.poll.source = Poll(v).source /\ q.poll.age = Poll(v).age,
         UNCHANGED <<source, owed, ledger>>
  PROVE  Calm
<1> USE DEF HealthInv
<1>1. LoopShape
  BY DEF PassInv
<1>2. /\ LoopShape' /\ Poll(v)' = q.poll
      /\ \A w \in Plane \ {v} : Poll(w)' = Poll(w)
  BY <1>1, PassMoves
<1>3. loop'[v] = q /\ \A w \in Plane \ {v} : loop'[w] = loop[w]
  BY <1>1 DEF LoopShape
<1>4. SourceShape' /\ source' = source /\ owed' = owed /\ ledger' = ledger
  BY DEF RowInv, SourceShape
<1>5. ASSUME NEW w \in Plane
      PROVE  /\ loop'[w].age \in Nat /\ Poll(w)'.age \in Nat /\ Poll(w)'.outcome \in Outcome
             /\ Poll(w)'.stage # "none" <=> Poll(w).stage # "none"
             /\ Poll(w).stage # "none" =>
                  /\ loop'[w].busy /\ loop'[w].age = loop[w].age
                  /\ Poll(w)'.source = Poll(w).source /\ Poll(w)'.age = Poll(w).age
  <2>1. CASE w = v
    BY <2>1, <1>2, <1>3
  <2>2. CASE w # v
    BY <2>2, <1>2, <1>3 DEF PassInv
  <2> QED
    BY <2>1, <2>2
<1> QED
  BY <1>2, <1>4, <1>5 DEF Calm

\* A poll that moves and keeps its source and its age.
LEMMA CalmPoll ==
  ASSUME HealthInv, NEW v \in Plane, NEW p, PassOn(v, p), DOMAIN p = PollFields,
         Poll(v).stage # "none", p.stage # "none", p.source = Poll(v).source,
         p.age = Poll(v).age, p.outcome \in Outcome, UNCHANGED <<source, owed, ledger>>
  PROVE  Calm
<1> DEFINE q == [loop[v] EXCEPT !.poll = p]
<1>1. loop' = [loop EXCEPT ![v] = q]
  BY DEF PassOn
<1>2. DOMAIN q = PassFields /\ q.poll = p /\ q.age = loop[v].age /\ q.busy = loop[v].busy
  BY DEF HealthInv, PassInv, LoopShape, PassFields
<1>3. loop[v].age \in Nat /\ Poll(v).age \in Nat /\ loop[v].busy
  BY DEF HealthInv, PassInv
<1> HIDE DEF q
<1> QED
  BY <1>1, <1>2, <1>3, CalmPass

\* A poll that moves to its next stage.
LEMMA CalmStage ==
  ASSUME HealthInv, NEW v \in Plane, NEW stage, Goto(v, stage), stage # "none",
         Poll(v).stage # "none", UNCHANGED <<source, owed, ledger>>
  PROVE  Calm
<1> DEFINE p == [loop[v].poll EXCEPT !.stage = stage]
<1>1. PassOn(v, p)
  BY DEF Goto, PassOn
<1>2. /\ DOMAIN p = PollFields /\ p.stage = stage /\ p.source = loop[v].poll.source
      /\ p.age = loop[v].poll.age /\ p.outcome = loop[v].poll.outcome
  BY DEF HealthInv, PassInv, LoopShape, PollFields
<1>3. loop[v].poll = Poll(v) /\ Poll(v).outcome \in Outcome
  BY DEF HealthInv, PassInv, Poll
<1> HIDE DEF p
<1> QED
  BY <1>1, <1>2, <1>3, CalmPoll

\* The ages and the outcome of a pass that has not begun.
LEMMA NoPassFields ==
  NoPass.age = 0 /\ NoPoll.age = 0 /\ NoPoll.outcome = "ok"
BY DEF NoPass, NoPoll

\* Most steps of a pass.
LEMMA CalmSteps ==
  ASSUME HealthInv, NEW v \in Plane,
         \/ PassRead(v) \/ PassDone(v) \/ Checked(v) \/ ReadPage(v) \/ ReadKnown(v)
         \/ ClaimTicket(v) \/ BeginCycle(v) \/ LinkCycle(v) \/ FailEmission(v) \/ EmitDone(v)
         \/ Refused(v) \/ EmitThrows(v) \/ Unforeseen(v)
         \/ \E kind \in Kind : LinearFails(v, kind)
  PROVE  Calm
<1>0. DOMAIN Poll(v) = PollFields /\ Poll(v).outcome \in Outcome
  BY DEF HealthInv, PassInv, LoopShape, Poll
<1>1. CASE PassRead(v)
  <2> DEFINE todo == {s \in Source \ Unparseable : source[s].enabled /\ IsDueRow(s)}
             q == [busy |-> TRUE, age |-> 0, todo |-> todo, unchanged |-> todo, poll |-> NoPoll]
  <2>1. loop' = [loop EXCEPT ![v] = q] /\ UNCHANGED <<source, owed, ledger>>
    BY <1>1 DEF PassRead
  <2>2. DOMAIN q = PassFields /\ q.poll = NoPoll /\ q.age = 0
    BY DEF PassFields
  <2>3. Poll(v).stage = "none"
    BY <1>1 DEF PassRead, HealthInv, PassInv
  <2>4. /\ DOMAIN q = PassFields /\ DOMAIN q.poll = PollFields /\ q.age \in Nat
        /\ q.poll.age \in Nat /\ q.poll.outcome \in Outcome /\ q.poll.stage = "none"
    BY <2>2, NoPassShape, NoPassFields DEF Outcome
  <2> HIDE DEF q
  <2> QED
    BY <2>1, <2>3, <2>4, CalmPass
<1>2. CASE PassDone(v)
  <2>1. Poll(v).stage = "none" /\ loop' = [loop EXCEPT ![v] = NoPass]
        /\ UNCHANGED <<source, owed, ledger>>
    BY <1>2 DEF PassDone, PassAt
  <2>2. /\ DOMAIN NoPass = PassFields /\ DOMAIN NoPass.poll = PollFields /\ NoPass.age \in Nat
        /\ NoPass.poll.age \in Nat /\ NoPass.poll.outcome \in Outcome /\ NoPass.poll.stage = "none"
    BY NoPassShape, NoPassFields DEF Outcome
  <2> QED
    BY <2>1, <2>2, CalmPass
<1>3. CASE Checked(v) \/ EmitDone(v) \/ Unforeseen(v) \/ EmitThrows(v) \/ BeginCycle(v)
  <2>1. PICK stage : stage # "none" /\ Goto(v, stage)
    BY <1>3 DEF Checked, EmitDone, Unforeseen, EmitThrows, BeginCycle
  <2>2. Poll(v).stage # "none" /\ UNCHANGED <<source, owed, ledger>>
    BY <1>3 DEF Checked, EmitDone, Unforeseen, EmitThrows, BeginCycle, PassAt
  <2> QED
    BY <2>1, <2>2, CalmStage
<1>4. CASE Refused(v) \/ \E kind \in Kind : LinearFails(v, kind)
  <2>1. PICK outcome, kind : outcome \in Outcome /\ PollEnds(v, outcome, kind) /\ UNCHANGED <<source, owed, ledger>>
    BY <1>4 DEF Refused, LinearFails, Outcome
  <2>2. Poll(v).stage # "none"
    BY <1>4 DEF Refused, LinearFails, PassAt
  <2> DEFINE p == [Poll(v) EXCEPT !.stage = "record", !.outcome = outcome, !.kind = kind,
                                  !.admitted = FALSE]
  <2>3. /\ DOMAIN p = PollFields /\ p.stage = "record" /\ p.outcome = outcome
        /\ p.source = Poll(v).source /\ p.age = Poll(v).age
    BY <1>0 DEF PollFields
  <2>4. PassOn(v, p)
    BY <2>1 DEF PollEnds
  <2> HIDE DEF p
  <2> QED
    BY <2>1, <2>2, <2>3, <2>4, CalmPoll
<1>5. CASE ReadPage(v)
  <2> DEFINE page == Page(Poll(v).source, Poll(v).cursor)
             more == Len(page) < Cardinality(Beyond(Poll(v).source, Poll(v).cursor))
             admitted == SelectSeq(page, LAMBDA t : t \in open)
             stage == IF more /\ Poll(v).pages + 1 < MaxPages THEN "read" ELSE "known"
             p == [Poll(v) EXCEPT !.pages = @ + 1, !.stage = stage,
                     !.cursor = IF page = << >> THEN @ ELSE updated[page[Len(page)]],
                     !.list = @ \o admitted, !.admitted = @ \/ admitted # << >>]
  <2>1. PassOn(v, p) /\ UNCHANGED <<source, owed, ledger>> /\ Poll(v).stage # "none"
    BY <1>5 DEF ReadPage, PassAt
  <2>2. stage # "none"
    OBVIOUS
  <2> HIDE DEF page, more, admitted, stage
  <2>3. /\ DOMAIN p = PollFields /\ p.stage = stage /\ p.outcome = Poll(v).outcome
        /\ p.source = Poll(v).source /\ p.age = Poll(v).age
    BY <1>0 DEF PollFields
  <2> HIDE DEF p
  <2> QED
    BY <1>0, <2>1, <2>2, <2>3, CalmPoll
<1>6. CASE ReadKnown(v)
  <2> DEFINE p == [Poll(v) EXCEPT !.stage = "emit", !.list = Taking(Poll(v).list)]
  <2>1. PassOn(v, p) /\ UNCHANGED <<source, owed, ledger>> /\ Poll(v).stage # "none"
    BY <1>6 DEF ReadKnown, PassAt
  <2>3. /\ DOMAIN p = PollFields /\ p.stage = "emit" /\ p.outcome = Poll(v).outcome
        /\ p.source = Poll(v).source /\ p.age = Poll(v).age
    BY <1>0 DEF PollFields
  <2> HIDE DEF p
  <2> QED
    BY <1>0, <2>1, <2>3, CalmPoll
<1>7. CASE LinkCycle(v) \/ FailEmission(v) \/ ClaimTicket(v)
  <2>1. PassOn(v, Dropped(v, "emit")) \/ Goto(v, "start")
    BY <1>7 DEF LinkCycle, FailEmission, ClaimTicket
  <2>2. Poll(v).stage # "none" /\ UNCHANGED <<source, owed, ledger>>
    BY <1>7 DEF LinkCycle, FailEmission, ClaimTicket, PassAt
  <2> DEFINE p == [Poll(v) EXCEPT !.stage = "emit", !.list = Tail(@)]
  <2>3. /\ DOMAIN p = PollFields /\ p.stage = "emit" /\ p.outcome = Poll(v).outcome
        /\ p.source = Poll(v).source /\ p.age = Poll(v).age
    BY <1>0 DEF PollFields
  <2>4. Dropped(v, "emit") = p
    BY DEF Dropped
  <2> HIDE DEF p
  <2> QED
    BY <1>0, <2>1, <2>2, <2>3, <2>4, CalmPoll, CalmStage
<1> QED
  BY <1>1, <1>2, <1>3, <1>4, <1>5, <1>6, <1>7

-----------------------------------------------------------------------------
(* A poll ends.                                                            *)

Ends(v) ==
  /\ PassInv' /\ Poll(v)'.stage = "none"
  /\ \A w \in Plane \ {v} : Poll(w)' = Poll(w) /\ loop'[w] = loop[w]

\* A pass that holds no poll any more.
LEMMA PassEnds ==
  ASSUME HealthInv, NEW v \in Plane, NEW q, loop' = [loop EXCEPT ![v] = q],
         DOMAIN q = PassFields, q.poll = NoPoll, q.age \in Nat
  PROVE  Ends(v)
<1>1. LoopShape
  BY DEF HealthInv, PassInv
<1>2. /\ LoopShape' /\ Poll(v)' = NoPoll
      /\ \A w \in Plane \ {v} : Poll(w)' = Poll(w)
  BY <1>1, NoPassShape, PassMoves
<1>3. loop'[v] = q /\ \A w \in Plane \ {v} : loop'[w] = loop[w]
  BY <1>1 DEF LoopShape
<1>4. NoPoll.stage = "none" /\ NoPoll.age = 0 /\ NoPoll.outcome \in Outcome
  BY NoPassShape, NoPassFields DEF Outcome
<1>5. ASSUME NEW w \in Plane
      PROVE  /\ loop'[w].age \in Nat /\ Poll(w)'.age \in Nat /\ Poll(w)'.outcome \in Outcome
             /\ Poll(w)'.stage # "none" =>
                  /\ loop'[w].busy /\ Poll(w)'.source \in Source
                  /\ Poll(w)'.age <= loop'[w].age
  <2>1. CASE w = v
    BY <2>1, <1>2, <1>3, <1>4
  <2>2. CASE w # v
    BY <2>2, <1>2, <1>3 DEF HealthInv, PassInv
  <2> QED
    BY <2>1, <2>2
<1>6. PassInv'
  BY <1>2, <1>5 DEF PassInv
<1> QED
  BY <1>2, <1>3, <1>4, <1>6 DEF Ends

\* A poll that ends within its pass.
LEMMA PollEnding ==
  ASSUME HealthInv, NEW v \in Plane, PassOn(v, NoPoll)
  PROVE  Ends(v)
<1> DEFINE q == [loop[v] EXCEPT !.poll = NoPoll]
<1>1. loop' = [loop EXCEPT ![v] = q]
  BY DEF PassOn
<1>2. DOMAIN q = PassFields /\ q.poll = NoPoll /\ q.age = loop[v].age
  BY DEF HealthInv, PassInv, LoopShape, PassFields
<1>3. loop[v].age \in Nat
  BY DEF HealthInv, PassInv
<1> HIDE DEF q
<1> QED
  BY <1>1, <1>2, <1>3, PassEnds

\* One poll less is under way, and the others are as they were.
LEMMA EndedPolls ==
  ASSUME NEW v \in Plane, Ends(v)
  PROVE  /\ \A s : Polling(s)' = Polling(s) \ {v}
         /\ \A s : s # Poll(v).source => Polling(s)' = Polling(s)
         /\ \A s : \A w \in Polling(s)' : loop'[w].age = loop[w].age
BY DEF Ends, Polling

\* A poll that ends leaves its source one poll less.
LEMMA OnePollLess ==
  ASSUME HealthInv, NEW v \in Plane, Poll(v).stage # "none", Ends(v), NEW s, s = Poll(v).source
  PROVE  /\ s \in Source /\ IsFiniteSet(Polling(s)')
         /\ Cardinality(Polling(s)) \in Nat /\ Cardinality(Polling(s)') \in Nat
         /\ Cardinality(Polling(s)) = Cardinality(Polling(s)') + 1
<1>1. s \in Source /\ v \in Polling(s)
  BY DEF HealthInv, PassInv, Polling
<1>2. IsFiniteSet(Polling(s))
  BY <1>1 DEF HealthInv, Told
<1>3. Polling(s)' = Polling(s) \ {v}
  BY EndedPolls
<1>4. IsFiniteSet(Polling(s) \ {v}) /\ Cardinality(Polling(s) \ {v}) = Cardinality(Polling(s)) - 1
  BY <1>1, <1>2, FS_RemoveElement
<1>5. Cardinality(Polling(s)) \in Nat /\ Cardinality(Polling(s) \ {v}) \in Nat
  BY <1>2, <1>4, FS_CardinalityType
<1> QED
  BY <1>1, <1>3, <1>4, <1>5

\* Without a row, what it owes is owed for good.
LEMMA UnrecordedKeeps ==
  ASSUME HealthInv, NEW v \in Plane, Poll(v).stage # "none", Ends(v),
         UNCHANGED <<source, owed, ledger>>
  PROVE  HealthInv'
<1>1. PassInv'
  BY DEF Ends
<1>2. RowInv'
  BY DEF HealthInv, RowInv, SourceShape
<1>3. ASSUME NEW s \in Source, s # Poll(v).source PROVE Told(s)'
  <2>1. Polling(s)' = Polling(s) /\ \A w \in Polling(s) : loop'[w].age = loop[w].age
    BY <1>3, EndedPolls
  <2>2. Told(s)
    BY DEF HealthInv
  <2> QED
    BY <2>1, <2>2, SameTold
<1>4. ASSUME NEW s \in Source, s = Poll(v).source PROVE Told(s)'
  <2>1. /\ IsFiniteSet(Polling(s)')
        /\ Cardinality(Polling(s)) \in Nat /\ Cardinality(Polling(s)') \in Nat
        /\ Cardinality(Polling(s)) = Cardinality(Polling(s)') + 1
    BY <1>4, OnePollLess
  <2>2. Told(s) /\ owed[s] \in Nat
    BY DEF HealthInv, RowInv
  <2>3. Cardinality(Polling(s)) <= owed[s]
    BY <2>2 DEF Told
  <2> DEFINE c == Cardinality(Polling(s))
             d == Cardinality(Polling(s)')
             o == owed[s]
  <2>4. c \in Nat /\ d \in Nat /\ o \in Nat /\ c = d + 1 /\ c <= o
    BY <2>1, <2>2, <2>3
  <2> HIDE DEF c, d, o
  <2>5. d < o /\ d <= o
    BY <2>4
  <2>6. Cardinality(Polling(s))' < owed'[s] /\ Cardinality(Polling(s))' <= owed'[s]
    BY <2>5 DEF d, o
  <2>7. Polling(s)' # {} => Polling(s) # {}
    BY EndedPolls
  <2>8. Answered(s)'
    BY <2>6 DEF Answered
  <2> QED
    BY <2>1, <2>2, <2>6, <2>7, <2>8 DEF Told
<1> QED
  BY <1>1, <1>2, <1>3, <1>4 DEF HealthInv

\* What a row does to what the health page reads of its source.
LEMMA RowWritten ==
  ASSUME RowInv, NEW s \in Source, NEW outcome \in Outcome, NEW kind, NEW a \in Nat, NEW admitted,
         InsertRow(s, outcome, kind, a, admitted)
  PROVE  /\ DOMAIN ledger' = Source /\ \A u \in Source \ {s} : ledger'[u] = ledger[u]
         /\ DOMAIN ledger'[s].last = LastFields
         /\ ledger'[s].last.outcome \in Outcome /\ ledger'[s].last.age \in Nat
         /\ ledger'[s].last.age <= a /\ ledger'[s].ok.age \in Nat
         /\ ledger[s].last.outcome # "none" => ledger'[s].last.age <= ledger[s].last.age
         /\ (ledger[s].last.outcome = "ok" => ledger[s].ok.ever /\ ledger[s].ok.age <= ledger[s].last.age)
             => (ledger'[s].last.outcome = "ok" =>
                   ledger'[s].ok.ever /\ ledger'[s].ok.age <= ledger'[s].last.age)
<1> DEFINE row == ledger[s]
           new == [outcome |-> outcome, kind |-> kind, age |-> a]
           last == IF row.last.outcome = "none" \/ a <= row.last.age THEN new ELSE row.last
           ok == IF outcome = "ok" THEN Newest(row.ok, a) ELSE row.ok
           after == [last |-> last, ok |-> ok, first |-> Oldest(row.first, a),
                     admitted |-> IF admitted THEN Newest(row.admitted, a) ELSE row.admitted]
<1>1. ledger' = [ledger EXCEPT ![s] = after]
  BY DEF InsertRow
<1>2. after.last = last /\ after.ok = ok
  OBVIOUS
<1>3. DOMAIN new = LastFields /\ new.outcome = outcome /\ new.age = a
  BY DEF LastFields
<1>4. Seen(a).ever = TRUE /\ Seen(a).age = a
  BY DEF Seen
<1>5. DOMAIN ledger = Source /\ DOMAIN row.last = LastFields
      /\ row.last.outcome \in Outcome \cup {"none"} /\ row.last.age \in Nat /\ row.ok.age \in Nat
  BY DEF RowInv
<1> HIDE DEF after, new, last, ok
<1>6. /\ DOMAIN ledger' = Source /\ \A u \in Source \ {s} : ledger'[u] = ledger[u]
      /\ ledger'[s].last = last /\ ledger'[s].ok = ok
  BY <1>1, <1>2, <1>5
<1>7. CASE row.last.outcome = "none" \/ a <= row.last.age
  <2>1. last = new
    BY <1>7 DEF last
  <2>2. outcome = "ok" => ok.ever /\ ok.age <= a /\ ok.age \in Nat
    <3> SUFFICES ASSUME outcome = "ok" PROVE ok.ever /\ ok.age <= a /\ ok.age \in Nat
      OBVIOUS
    <3>1. ok = IF row.ok.ever /\ row.ok.age < a THEN row.ok ELSE Seen(a)
      BY DEF ok, Newest
    <3>2. CASE row.ok.ever /\ row.ok.age < a
      BY <3>1, <3>2, <1>5
    <3>3. CASE ~(row.ok.ever /\ row.ok.age < a)
      BY <3>1, <3>3, <1>4
    <3> QED
      BY <3>2, <3>3
  <2>3. outcome # "ok" => ok = row.ok
    BY DEF ok
  <2>4. ok.age \in Nat
    BY <2>2, <2>3, <1>5
  <2>5. a <= a /\ (row.last.outcome # "none" => a <= row.last.age)
    BY <1>7
  <2> HIDE DEF row
  <2> QED
    BY <1>3, <1>6, <2>1, <2>2, <2>4, <2>5 DEF row
<1>8. CASE ~(row.last.outcome = "none" \/ a <= row.last.age)
  <2>1. last = row.last
    BY <1>8 DEF last
  <2>2. row.last.outcome \in Outcome /\ row.last.age < a
    BY <1>5, <1>8
  <2>3. ok.age \in Nat
    <3>1. CASE outcome = "ok"
      <4>1. ok = IF row.ok.ever /\ row.ok.age < a THEN row.ok ELSE Seen(a)
        BY <3>1 DEF ok, Newest
      <4> QED
        BY <4>1, <1>4, <1>5
    <3>2. CASE outcome # "ok"
      BY <3>2, <1>5 DEF ok
    <3> QED
      BY <3>1, <3>2
  <2>4. row.ok.ever /\ row.ok.age <= row.last.age => ok = row.ok
    <3> SUFFICES ASSUME row.ok.ever, row.ok.age <= row.last.age PROVE ok = row.ok
      OBVIOUS
    <3>1. row.ok.age < a
      BY <2>2, <1>5
    <3> QED
      BY <3>1 DEF ok, Newest
  <2>5. row.last.age <= row.last.age /\ row.last.age <= a
    BY <1>5, <2>2
  <2> HIDE DEF row
  <2> QED
    BY <1>5, <1>6, <2>1, <2>2, <2>3, <2>4, <2>5 DEF row
<1> QED
  BY <1>7, <1>8

\* A poll that ends with its row keeps the invariant.
LEMMA RecordedKeeps ==
  ASSUME HealthInv, NEW v \in Plane, Poll(v).stage # "none", Ends(v),
         NEW outcome \in Outcome, NEW kind, NEW a \in Nat, NEW admitted, a <= loop[v].age,
         InsertRow(Poll(v).source, outcome, kind, a, admitted),
         owed' = [owed EXCEPT ![Poll(v).source] = @ - 1], UNCHANGED source
  PROVE  HealthInv'
<1>0. PICK s : s = Poll(v).source
  OBVIOUS
<1> DEFINE c == Cardinality(Polling(s))
           d == Cardinality(Polling(s)')
           o == owed[s]
<1>1. s \in Source /\ IsFiniteSet(Polling(s)') /\ c \in Nat /\ d \in Nat /\ c = d + 1
  BY <1>0, OnePollLess
<1>2. Told(s) /\ o \in Nat /\ RowInv
  BY <1>1 DEF HealthInv, RowInv
<1>3. c <= o
  BY <1>2 DEF Told
<1>4. o - 1 \in Nat /\ d <= o - 1 /\ (c < o => d < o - 1)
  <2> HIDE DEF c, d, o
  <2> QED
    BY <1>1, <1>2, <1>3
<1>5. /\ owed' \in [Source -> Nat] /\ owed'[s] = o - 1
      /\ \A u \in Source \ {s} : owed'[u] = owed[u]
  <2>1. owed \in [Source -> Nat] /\ owed' = [owed EXCEPT ![s] = o - 1]
    BY <1>0, <1>2 DEF RowInv
  <2> HIDE DEF o
  <2> QED
    BY <1>1, <1>4, <2>1
<1>6. /\ DOMAIN ledger' = Source /\ \A u \in Source \ {s} : ledger'[u] = ledger[u]
      /\ DOMAIN ledger'[s].last = LastFields
      /\ ledger'[s].last.outcome \in Outcome /\ ledger'[s].last.age \in Nat
      /\ ledger'[s].last.age <= a /\ ledger'[s].ok.age \in Nat
      /\ ledger[s].last.outcome # "none" => ledger'[s].last.age <= ledger[s].last.age
      /\ (ledger[s].last.outcome = "ok" => ledger[s].ok.ever /\ ledger[s].ok.age <= ledger[s].last.age)
             => (ledger'[s].last.outcome = "ok" =>
                   ledger'[s].ok.ever /\ ledger'[s].ok.age <= ledger'[s].last.age)
  BY <1>0, <1>1, <1>2, RowWritten
<1>7. PassInv'
  BY DEF Ends
<1> HIDE DEF c, d, o
<1>8. RowInv'
  <2>1. SourceShape'
    BY <1>2 DEF RowInv, SourceShape
  <2>2. ASSUME NEW u \in Source
        PROVE  /\ DOMAIN ledger'[u].last = LastFields
               /\ ledger'[u].last.outcome \in Outcome \cup {"none"} /\ ledger'[u].last.age \in Nat
               /\ ledger'[u].ok.age \in Nat
    <3>1. CASE u = s
      BY <3>1, <1>6
    <3>2. CASE u # s
      BY <3>2, <1>2, <1>6 DEF RowInv
    <3> QED
      BY <3>1, <3>2
  <2> QED
    BY <2>1, <2>2, <1>5, <1>6 DEF RowInv
<1>9. ASSUME NEW u \in Source, u # s PROVE Told(u)'
  <2>1. Polling(u)' = Polling(u) /\ \A w \in Polling(u) : loop'[w].age = loop[w].age
    BY <1>0, <1>9, EndedPolls
  <2>2. Told(u) /\ owed'[u] = owed[u] /\ ledger'[u] = ledger[u]
    BY <1>5, <1>6, <1>9 DEF HealthInv
  <2> QED
    BY <2>1, <2>2, SameTold
<1>10. v \in Polling(s) /\ source[s].ever
  <2>1. v \in Polling(s)
    BY <1>0 DEF Polling
  <2> QED
    BY <1>2, <2>1 DEF Told
<1>11. Answered(s)'
  <2>1. Answered(s)
    BY <1>2, <1>10 DEF Told
  <2>2. source'[s].age = source[s].age /\ source[s].age \in Nat /\ loop[v].age \in Nat
    BY <1>1, <1>2 DEF RowInv, SourceShape, HealthInv, PassInv
  <2>3. ledger'[s].last.outcome # "none"
    BY <1>6 DEF Outcome
  <2>4. CASE ledger[s].last.outcome # "none" /\ ledger[s].last.age <= source[s].age
    <3>1. ledger[s].last.age \in Nat
      BY <1>1, <1>2 DEF RowInv
    <3>2. ledger'[s].last.age <= source'[s].age
      BY <1>6, <2>2, <2>4, <3>1
    <3> QED
      BY <2>3, <3>2 DEF Answered
  <2>5. CASE \E w \in Polling(s) : loop[w].age <= source[s].age
    <3>1. PICK w \in Polling(s) : loop[w].age <= source[s].age
      BY <2>5
    <3>2. CASE w = v
      <4>1. ledger'[s].last.age <= source'[s].age
        BY <1>6, <2>2, <3>1, <3>2
      <4> QED
        BY <2>3, <4>1 DEF Answered
    <3>3. CASE w # v
      <4>1. w \in Polling(s)' /\ loop'[w].age = loop[w].age
        BY <3>1, <3>3, EndedPolls
      <4>2. loop'[w].age <= source'[s].age
        BY <4>1, <3>1, <2>2
      <4> QED
        BY <4>1, <4>2 DEF Answered
    <3> QED
      BY <3>2, <3>3
  <2>6. CASE Cardinality(Polling(s)) < owed[s]
    <3>1. d < o - 1
      BY <2>6, <1>4 DEF c, o
    <3>2. Cardinality(Polling(s))' < owed'[s]
      BY <3>1, <1>5 DEF d
    <3> QED
      BY <3>2 DEF Answered
  <2> QED
    BY <2>1, <2>4, <2>5, <2>6 DEF Answered
<1>12. Told(s)'
  <2>1. Cardinality(Polling(s))' <= owed'[s]
    BY <1>4, <1>5 DEF d
  <2>2. source'[s].ever
    BY <1>10
  <2>3. ledger'[s].last.outcome # "none"
    BY <1>6 DEF Outcome
  <2>4. ledger[s].last.outcome = "ok" => ledger[s].ok.ever /\ ledger[s].ok.age <= ledger[s].last.age
    BY <1>2 DEF Told
  <2>5. ledger'[s].last.outcome = "ok" =>
                   ledger'[s].ok.ever /\ ledger'[s].ok.age <= ledger'[s].last.age
    BY <1>6, <2>4
  <2> QED
    BY <1>1, <1>11, <2>1, <2>2, <2>3, <2>5 DEF Told
<1> QED
  BY <1>7, <1>8, <1>9, <1>12 DEF HealthInv

\* The steps that end a poll, with a row and without.
LEMMA EndingSteps ==
  ASSUME HealthInv, NEW v \in Plane,
         Record(v) \/ CatchRecord(v) \/ CatchSwallows(v) \/ PollCrash(v)
  PROVE  HealthInv'
<1>1. /\ loop[v].age \in Nat /\ Poll(v).age \in Nat /\ Poll(v).outcome \in Outcome
      /\ Poll(v).stage # "none" => Poll(v).age <= loop[v].age
  BY DEF HealthInv, PassInv
<1>2. CASE Record(v)
  <2> DEFINE p == Poll(v)
  <2>1. /\ p.stage # "none" /\ PassOn(v, NoPoll) /\ UNCHANGED source
        /\ owed' = [owed EXCEPT ![p.source] = @ - 1]
        /\ InsertRow(p.source, p.outcome, p.kind, p.age, p.admitted)
    BY <1>2 DEF Record, PassAt
  <2>2. Ends(v)
    BY <2>1, PollEnding
  <2>3. p.age <= loop[v].age /\ p.age \in Nat /\ p.outcome \in Outcome
    BY <1>1, <2>1
  <2> QED
    BY <2>1, <2>2, <2>3, RecordedKeeps
<1>3. CASE CatchRecord(v)
  <2>1. /\ Poll(v).stage # "none" /\ PassOn(v, NoPoll) /\ UNCHANGED source
        /\ owed' = [owed EXCEPT ![Poll(v).source] = @ - 1]
        /\ InsertRow(Poll(v).source, "failed", "none", loop[v].age, FALSE)
    BY <1>3 DEF CatchRecord, PassAt
  <2>2. Ends(v)
    BY <2>1, PollEnding
  <2>3. loop[v].age <= loop[v].age /\ "failed" \in Outcome
    BY <1>1 DEF Outcome
  <2> QED
    BY <1>1, <2>1, <2>2, <2>3, RecordedKeeps
<1>4. CASE CatchSwallows(v)
  <2>1. Poll(v).stage # "none" /\ PassOn(v, NoPoll) /\ UNCHANGED <<source, owed, ledger>>
    BY <1>4 DEF CatchSwallows, PassAt
  <2>2. Ends(v)
    BY <2>1, PollEnding
  <2> QED
    BY <2>1, <2>2, UnrecordedKeeps
<1>5. CASE PollCrash(v)
  <2>1. loop' = [loop EXCEPT ![v] = NoPass] /\ UNCHANGED <<source, owed, ledger>>
    BY <1>5 DEF PollCrash
  <2>2. NoPass.age \in Nat
    BY NoPassFields
  <2>3. CASE Poll(v).stage # "none"
    <3>1. Ends(v)
      BY <2>1, <2>2, NoPassShape, PassEnds
    <3> QED
      BY <2>1, <2>3, <3>1, UnrecordedKeeps
  <2>4. CASE Poll(v).stage = "none"
    <3>1. /\ DOMAIN NoPass = PassFields /\ DOMAIN NoPass.poll = PollFields
          /\ NoPass.poll.age \in Nat /\ NoPass.poll.outcome \in Outcome /\ NoPass.poll.stage = "none"
      BY NoPassShape, NoPassFields DEF Outcome
    <3>2. Calm
      BY <2>1, <2>2, <2>4, <3>1, CalmPass
    <3> QED
      BY <3>2, CalmKeeps
  <2> QED
    BY <2>3, <2>4
<1> QED
  BY <1>2, <1>3, <1>4, <1>5

-----------------------------------------------------------------------------
(* A poll is claimed, and time passes.                                     *)

\* A claim moves lastPolledAt, and is owed a row no older than that.
LEMMA ClaimPollKeeps ==
  ASSUME HealthInv, NEW v \in Plane, NEW s \in Source, ClaimPoll(v, s)
  PROVE  HealthInv'
<1>0. LoopShape /\ Poll(v).stage = "none" /\ loop[v].busy /\ loop[v].age \in Nat
  BY DEF ClaimPoll, PassAt, HealthInv, PassInv
<1>1. CASE s \notin loop[v].unchanged
  <2> DEFINE q == [loop[v] EXCEPT !.todo = @ \ {s}]
  <2>1. loop' = [loop EXCEPT ![v] = q] /\ UNCHANGED <<source, owed, ledger>>
    BY <1>1 DEF ClaimPoll
  <2>2. /\ DOMAIN q = PassFields /\ q.poll = Poll(v) /\ q.age = loop[v].age
        /\ DOMAIN Poll(v) = PollFields
    BY <1>0 DEF LoopShape, PassFields, Poll
  <2>3. Poll(v).age \in Nat /\ Poll(v).outcome \in Outcome
    BY DEF HealthInv, PassInv
  <2> HIDE DEF q
  <2>4. Calm
    BY <1>0, <2>1, <2>2, <2>3, CalmPass
  <2> QED
    BY <2>4, CalmKeeps
<1>2. CASE s \in loop[v].unchanged
  <2> DEFINE p == [NoPoll EXCEPT !.stage = "check", !.source = s]
             q == [loop[v] EXCEPT !.todo = @ \ {s}, !.poll = p]
             r(w) == [loop[w] EXCEPT !.unchanged = @ \ {s}]
             n == [enabled |-> source[s].enabled, ever |-> TRUE, age |-> loop[v].age]
  <2>1. /\ DOMAIN p = PollFields /\ p.stage = "check" /\ p.source = s
        /\ p.age = 0 /\ p.outcome = "ok"
    BY NoPassShape, NoPassFields DEF PollFields
  <2>2. /\ loop' = [w \in Plane |-> IF w = v THEN q ELSE r(w)]
        /\ source' = [source EXCEPT ![s] = n]
        /\ owed' = [owed EXCEPT ![s] = owed[s] + 1] /\ UNCHANGED ledger
    BY <1>2 DEF ClaimPoll
  <2> HIDE DEF p
  <2>3. /\ DOMAIN q = PassFields /\ q.poll = p /\ q.busy = loop[v].busy /\ q.age = loop[v].age
    BY <1>0 DEF LoopShape, PassFields
  <2>4. ASSUME NEW w \in Plane
        PROVE  /\ DOMAIN r(w) = PassFields /\ r(w).poll = loop[w].poll
               /\ r(w).busy = loop[w].busy /\ r(w).age = loop[w].age
    BY <1>0 DEF LoopShape, PassFields
  <2>5. DOMAIN n = RowFields /\ n.ever = TRUE /\ n.age = loop[v].age
    BY DEF RowFields
  <2> HIDE DEF q, r, n
  <2>6. Poll(v)' = p /\ loop'[v] = q
    BY <2>2, <2>3 DEF Poll
  <2>7. \A w \in Plane \ {v} : Poll(w)' = Poll(w) /\ loop'[w] = r(w)
    BY <2>2, <2>4 DEF Poll
  <2>8. LoopShape'
    BY <1>0, <2>1, <2>2, <2>3, <2>4 DEF LoopShape
  <2>9. PassInv'
    <3>1. ASSUME NEW w \in Plane
          PROVE  /\ loop'[w].age \in Nat /\ Poll(w)'.age \in Nat /\ Poll(w)'.outcome \in Outcome
                 /\ Poll(w)'.stage # "none" =>
                      /\ loop'[w].busy /\ Poll(w)'.source \in Source
                      /\ Poll(w)'.age <= loop'[w].age
      <4>1. CASE w = v
        <5>1. 0 <= loop[v].age
          BY <1>0
        <5>2. loop'[v].age \in Nat /\ loop'[v].busy
          BY <1>0, <2>3, <2>6
        <5>3. Poll(v)'.age = 0 /\ Poll(v)'.outcome \in Outcome /\ Poll(v)'.source = s
          BY <2>1, <2>6 DEF Outcome
        <5>4. Poll(v)'.age <= loop'[v].age
          BY <5>1, <5>3, <2>3, <2>6
        <5> QED
          BY <4>1, <5>2, <5>3, <5>4
      <4>2. CASE w # v
        BY <4>2, <2>4, <2>7 DEF HealthInv, PassInv
      <4> QED
        BY <4>1, <4>2
    <3> QED
      BY <2>8, <3>1 DEF PassInv
  <2>10. /\ SourceShape' /\ source'[s] = n /\ \A u \in Source \ {s} : source'[u] = source[u]
    BY <1>0, <2>2, <2>5 DEF HealthInv, RowInv, SourceShape
  <2>11. /\ owed' \in [Source -> Nat] /\ owed'[s] = owed[s] + 1
         /\ \A u \in Source \ {s} : owed'[u] = owed[u]
    <3>1. owed \in [Source -> Nat]
      BY DEF HealthInv, RowInv
    <3> QED
      BY <2>2, <3>1
  <2>12. RowInv'
    BY <2>2, <2>10, <2>11 DEF HealthInv, RowInv
  <2>13. /\ Polling(s)' = Polling(s) \cup {v} /\ v \notin Polling(s)
         /\ \A u : u # s => Polling(u)' = Polling(u)
         /\ \A u : v \notin Polling(u)
    BY <1>0, <2>1, <2>6, <2>7 DEF Polling
  <2>14. ASSUME NEW u \in Source, u # s PROVE Told(u)'
    <3>1. Polling(u)' = Polling(u) /\ \A w \in Polling(u) : loop'[w].age = loop[w].age
      <4>1. \A w \in Polling(u) : w \in Plane \ {v}
        BY <2>13 DEF Polling
      <4> QED
        BY <2>4, <2>7, <2>13, <2>14, <4>1
    <3>2. Told(u) /\ owed'[u] = owed[u] /\ ledger'[u] = ledger[u] /\ source'[u] = source[u]
      BY <2>2, <2>10, <2>11, <2>14 DEF HealthInv
    <3> QED
      BY <3>1, <3>2, SameTold
  <2>15. Told(s)'
    <3>1. Told(s) /\ owed[s] \in Nat
      BY DEF HealthInv, RowInv
    <3>2. /\ IsFiniteSet(Polling(s) \cup {v})
          /\ Cardinality(Polling(s) \cup {v}) = Cardinality(Polling(s)) + 1
          /\ Cardinality(Polling(s)) \in Nat /\ Cardinality(Polling(s)) <= owed[s]
      BY <2>13, <3>1, FS_AddElement, FS_CardinalityType DEF Told
    <3> DEFINE c == Cardinality(Polling(s))
               o == owed[s]
    <3>3. c + 1 <= o + 1
      <4>1. c \in Nat /\ o \in Nat /\ c <= o
        BY <3>1, <3>2
      <4> HIDE DEF c, o
      <4> QED
        BY <4>1
    <3>4. IsFiniteSet(Polling(s)') /\ Cardinality(Polling(s)') <= owed'[s]
      BY <3>2, <3>3, <2>11, <2>13
    <3>5. source'[s].ever /\ source'[s].age = loop[v].age /\ loop'[v].age = loop[v].age
      BY <2>3, <2>5, <2>6, <2>10
    <3>6. v \in Polling(s)' /\ loop'[v].age <= source'[s].age
      BY <1>0, <2>13, <3>5
    <3>7. Answered(s)'
      BY <3>6 DEF Answered
    <3> QED
      BY <2>2, <3>1, <3>4, <3>5, <3>7 DEF Told
  <2> QED
    BY <2>9, <2>12, <2>14, <2>15 DEF HealthInv
<1> QED
  BY <1>1, <1>2

\* A minute keeps the order of ages.
LEMMA OlderKeepsOrder ==
  ASSUME NEW a \in Nat, NEW b \in Nat
  PROVE  Older(a) \in Nat /\ (a <= b => Older(a) <= Older(b))
BY SourcesAssumption DEF Older

\* A minute keeps the invariant.
LEMMA MinuteKeeps == ASSUME HealthInv, MinutePasses PROVE HealthInv'
<1>0. LoopShape /\ PassInv /\ RowInv
  BY DEF HealthInv, PassInv, RowInv
<1> DEFINE q(v) == [loop[v] EXCEPT !.age = Older(@),
                      !.poll.age = IF loop[v].poll.stage = "none" THEN 0 ELSE Older(@)]
           row(s) == [last |-> [ledger[s].last EXCEPT !.age = Older(@)],
                      ok |-> OlderInstant(ledger[s].ok), first |-> OlderInstant(ledger[s].first),
                      admitted |-> OlderInstant(ledger[s].admitted)]
           line(s) == [source[s] EXCEPT !.age = Older(@)]
<1>1. /\ loop' = [v \in Plane |-> IF loop[v].busy THEN q(v) ELSE loop[v]]
      /\ source' = [s \in Source |-> line(s)] /\ ledger' = [s \in Source |-> row(s)]
      /\ UNCHANGED owed
  BY DEF MinutePasses
<1>2. ASSUME NEW v \in Plane
      PROVE  /\ DOMAIN q(v) = PassFields /\ DOMAIN q(v).poll = PollFields
             /\ q(v).busy = loop[v].busy /\ q(v).age = Older(loop[v].age)
             /\ q(v).poll.stage = loop[v].poll.stage /\ q(v).poll.source = loop[v].poll.source
             /\ q(v).poll.outcome = loop[v].poll.outcome
             /\ q(v).poll.age = IF loop[v].poll.stage = "none" THEN 0 ELSE Older(loop[v].poll.age)
  <2> DEFINE a == IF loop[v].poll.stage = "none" THEN 0 ELSE Older(loop[v].poll.age)
             p == [loop[v].poll EXCEPT !.age = a]
  <2>1. /\ DOMAIN p = PollFields /\ p.stage = loop[v].poll.stage /\ p.age = a
        /\ p.source = loop[v].poll.source /\ p.outcome = loop[v].poll.outcome
    BY <1>0 DEF LoopShape, PollFields
  <2>2. q(v) = [loop[v] EXCEPT !.age = Older(@), !.poll = p]
    OBVIOUS
  <2> HIDE DEF p, q
  <2>3. /\ DOMAIN q(v) = PassFields /\ q(v).poll = p /\ q(v).busy = loop[v].busy
        /\ q(v).age = Older(loop[v].age)
    BY <1>0, <2>2 DEF LoopShape, PassFields
  <2> QED
    BY <2>1, <2>3
<1>3. ASSUME NEW s \in Source
      PROVE  /\ DOMAIN row(s).last = LastFields
             /\ row(s).last.outcome = ledger[s].last.outcome
             /\ row(s).last.age = Older(ledger[s].last.age)
             /\ row(s).ok = OlderInstant(ledger[s].ok)
             /\ row(s).first = OlderInstant(ledger[s].first)
  BY <1>0 DEF RowInv, LastFields
<1>4. ASSUME NEW s \in Source
      PROVE  /\ DOMAIN line(s) = RowFields /\ line(s).ever = source[s].ever
             /\ line(s).age = Older(source[s].age)
  BY <1>0 DEF RowInv, SourceShape, RowFields
<1> HIDE DEF q, row, line
<1>5. ASSUME NEW v \in Plane
      PROVE  /\ DOMAIN loop'[v] = PassFields /\ DOMAIN Poll(v)' = PollFields
             /\ Poll(v)'.stage = Poll(v).stage /\ Poll(v)'.source = Poll(v).source
             /\ Poll(v)'.outcome = Poll(v).outcome /\ loop'[v].busy = loop[v].busy
             /\ loop'[v].age \in {loop[v].age, Older(loop[v].age)}
             /\ Poll(v)'.age \in {Poll(v).age, 0, Older(Poll(v).age)}
             /\ Poll(v).stage # "none" =>
                  loop'[v].age = Older(loop[v].age) /\ Poll(v)'.age = Older(Poll(v).age)
  <2>1. CASE loop[v].busy
    <3>1. loop'[v] = q(v)
      BY <1>1, <2>1
    <3> QED
      BY <3>1, <1>2 DEF Poll
  <2>2. CASE ~loop[v].busy
    <3>1. loop'[v] = loop[v] /\ Poll(v).stage = "none"
      BY <1>0, <1>1, <2>2 DEF PassInv
    <3> QED
      BY <3>1, <1>0 DEF Poll, LoopShape
  <2> QED
    BY <2>1, <2>2
<1>6. PassInv'
  <2>1. LoopShape'
    BY <1>1, <1>5 DEF LoopShape, Poll
  <2>2. ASSUME NEW w \in Plane
        PROVE  /\ loop'[w].age \in Nat /\ Poll(w)'.age \in Nat /\ Poll(w)'.outcome \in Outcome
               /\ Poll(w)'.stage # "none" =>
                    /\ loop'[w].busy /\ Poll(w)'.source \in Source
                    /\ Poll(w)'.age <= loop'[w].age
    <3>1. /\ loop[w].age \in Nat /\ Poll(w).age \in Nat /\ Poll(w).outcome \in Outcome
          /\ Poll(w).stage # "none" =>
               loop[w].busy /\ Poll(w).source \in Source /\ Poll(w).age <= loop[w].age
      BY <1>0 DEF PassInv
    <3>2. Older(loop[w].age) \in Nat /\ Older(Poll(w).age) \in Nat
          /\ (Poll(w).age <= loop[w].age => Older(Poll(w).age) <= Older(loop[w].age))
      BY <3>1, OlderKeepsOrder
    <3>3. loop'[w].age \in Nat /\ Poll(w)'.age \in Nat
      BY <1>5, <3>1, <3>2
    <3> QED
      BY <1>5, <3>1, <3>2, <3>3
  <2> QED
    BY <2>1, <2>2 DEF PassInv
<1>7. \A s : Polling(s)' = Polling(s)
  BY <1>5 DEF Polling
<1>8. ASSUME NEW s \in Source
      PROVE  /\ DOMAIN ledger'[s].last = LastFields
             /\ ledger'[s].last.outcome = ledger[s].last.outcome
             /\ ledger'[s].last.age = Older(ledger[s].last.age)
             /\ ledger'[s].ok = OlderInstant(ledger[s].ok)
             /\ ledger'[s].first = OlderInstant(ledger[s].first)
             /\ source'[s].ever = source[s].ever /\ source'[s].age = Older(source[s].age)
             /\ DOMAIN source'[s] = RowFields
  BY <1>1, <1>3, <1>4
<1>9. ASSUME NEW i
      PROVE  /\ i.ever => OlderInstant(i).ever /\ OlderInstant(i).age = Older(i.age)
             /\ ~i.ever => OlderInstant(i) = i
  BY DEF OlderInstant, Seen
<1>10. ASSUME NEW s \in Source
       PROVE  /\ source[s].age \in Nat /\ ledger[s].last.age \in Nat /\ ledger[s].ok.age \in Nat
              /\ ledger'[s].ok.age \in Nat
  <2>1. source[s].age \in Nat /\ ledger[s].last.age \in Nat /\ ledger[s].ok.age \in Nat
    BY <1>0 DEF RowInv, SourceShape
  <2>2. Older(ledger[s].ok.age) \in Nat
    BY <2>1, OlderKeepsOrder
  <2>3. ledger'[s].ok.age \in {ledger[s].ok.age, Older(ledger[s].ok.age)}
    BY <1>8, <1>9
  <2> QED
    BY <2>1, <2>2, <2>3
<1>11. RowInv'
  <2>1. SourceShape'
    <3>1. DOMAIN source' = Source
      BY <1>1
    <3>2. \A s \in Source : Older(source[s].age) \in Nat
      BY <1>10, OlderKeepsOrder
    <3> QED
      BY <1>8, <3>1, <3>2 DEF SourceShape
  <2>2. DOMAIN ledger' = Source /\ owed' \in [Source -> Nat]
    BY <1>0, <1>1 DEF RowInv
  <2>3. \A s \in Source : ledger'[s].last.age \in Nat
    BY <1>8, <1>10, OlderKeepsOrder
  <2>4. \A s \in Source : ledger'[s].last.outcome \in Outcome \cup {"none"}
    BY <1>0, <1>8 DEF RowInv
  <2> QED
    BY <1>8, <1>10, <2>1, <2>2, <2>3, <2>4 DEF RowInv
<1>12. ASSUME NEW s \in Source PROVE Told(s)'
  <2>1. Told(s)
    BY DEF HealthInv
  <2>2. Answered(s) => Answered(s)'
    <3>1. CASE ledger[s].last.outcome # "none" /\ ledger[s].last.age <= source[s].age
      <4>1. Older(ledger[s].last.age) <= Older(source[s].age)
        BY <1>10, <3>1, OlderKeepsOrder
      <4> QED
        BY <1>8, <3>1, <4>1 DEF Answered
    <3>2. CASE \E v \in Polling(s) : loop[v].age <= source[s].age
      <4>1. PICK v \in Polling(s) : loop[v].age <= source[s].age
        BY <3>2
      <4>2. v \in Plane /\ Poll(v).stage # "none"
        BY <4>1 DEF Polling
      <4>3. loop'[v].age = Older(loop[v].age) /\ loop[v].age \in Nat
        BY <1>0, <1>5, <4>2 DEF PassInv
      <4>4. Older(loop[v].age) <= Older(source[s].age)
        BY <1>10, <4>1, <4>3, OlderKeepsOrder
      <4>5. v \in Polling(s)' /\ loop'[v].age <= source'[s].age
        BY <1>7, <1>8, <4>1, <4>3, <4>4
      <4> QED
        BY <4>5 DEF Answered
    <3>3. CASE Cardinality(Polling(s)) < owed[s]
      BY <1>1, <1>7, <3>3 DEF Answered
    <3> QED
      BY <3>1, <3>2, <3>3 DEF Answered
  <2>3. ledger'[s].last.outcome = "ok" => ledger'[s].ok.ever /\ ledger'[s].ok.age <= ledger'[s].last.age
    <3> SUFFICES ASSUME ledger'[s].last.outcome = "ok"
                 PROVE  ledger'[s].ok.ever /\ ledger'[s].ok.age <= ledger'[s].last.age
      OBVIOUS
    <3>1. ledger[s].ok.ever /\ ledger[s].ok.age <= ledger[s].last.age
      BY <1>8, <2>1 DEF Told
    <3>2. Older(ledger[s].ok.age) <= Older(ledger[s].last.age)
      BY <1>10, <3>1, OlderKeepsOrder
    <3> QED
      BY <1>8, <1>9, <3>1, <3>2
  <2>4. ledger'[s].first.ever => ledger[s].first.ever
    BY <1>8, <1>9
  <2> QED
    BY <1>1, <1>7, <1>8, <2>1, <2>2, <2>3, <2>4 DEF Told
<1> QED
  BY <1>6, <1>11, <1>12 DEF HealthInv

\* Edits of tickets and of the definition.
LEMMA HealthAround ==
  ASSUME HealthInv,
         \/ \E t \in Ticket : EditTicket(t)
         \/ \E s \in Source : ToggleSource(s)
         \/ UNCHANGED sourcesVars
  PROVE  HealthInv'
<1>0. HealthInv /\ LoopShape
  BY DEF HealthInv, PassInv
<1>1. UNCHANGED <<loop, owed, ledger>>
  BY DEF EditTicket, ToggleSource, sourcesVars
<1>2. /\ SourceShape'
      /\ \A s \in Source : source'[s].ever = source[s].ever /\ source'[s].age = source[s].age
  <2>1. SourceShape
    BY DEF HealthInv, RowInv
  <2>2. CASE UNCHANGED source
    BY <2>1, <2>2 DEF SourceShape
  <2>3. ASSUME NEW s \in Source, ToggleSource(s)
        PROVE  /\ SourceShape'
               /\ \A u \in Source : source'[u].ever = source[u].ever /\ source'[u].age = source[u].age
    <3> DEFINE n == [source[s] EXCEPT !.enabled = ~@]
    <3>1. source' = [source EXCEPT ![s] = n]
      BY <2>3 DEF ToggleSource
    <3>2. DOMAIN n = RowFields /\ n.ever = source[s].ever /\ n.age = source[s].age
      BY <2>1 DEF SourceShape, RowFields
    <3> HIDE DEF n
    <3> QED
      BY <2>1, <3>1, <3>2 DEF SourceShape
  <2> QED
    BY <2>2, <2>3 DEF EditTicket, sourcesVars
<1>3. LoopShape' /\ \A v \in Plane : Poll(v)' = Poll(v) /\ loop'[v] = loop[v]
  BY <1>0, <1>1 DEF LoopShape, Poll
<1>4. Calm
  BY <1>0, <1>1, <1>2, <1>3 DEF Calm, HealthInv, PassInv
<1> QED
  BY <1>4, CalmKeeps

\* Every step keeps the invariant.
LEMMA HealthStep == ASSUME HealthInv, [SourcesNext]_sourcesVars PROVE HealthInv'
<1>1. Calm => HealthInv'
  BY CalmKeeps
<1> QED
  BY <1>1, CalmSteps, EndingSteps, ClaimPollKeeps, MinuteKeeps, HealthAround
     DEF SourcesNext, PassStep, PassFault

\* What the invariant is for.
LEMMA HealthIsTold == ASSUME HealthInv PROVE TroubleIsTold
<1> SUFFICES ASSUME NEW s \in Source, source[s].enabled, owed[s] = 0,
                    IF ledger[s].first.ever THEN SinceAnswer(s) > 3 * PollMinutes
                    ELSE source[s].age > 3 * PollMinutes
             PROVE  Troubled(s)
  BY DEF TroubleIsTold
<1> DEFINE late == OverdueAfter
           age == source[s].age
           last == ledger[s].last
           three == 3 * PollMinutes
<1>1. late \in Nat /\ three \in Nat /\ late <= three
  BY SourcesAssumption DEF OverdueAfter
<1>2. Told(s) /\ age \in Nat /\ last.age \in Nat /\ last.outcome \in Outcome \cup {"none"}
      /\ ledger[s].ok.age \in Nat
  BY DEF HealthInv, RowInv, SourceShape
<1>3. CASE age > late
  <2>1. HealthOf(s) = "overdue"
    BY <1>3 DEF HealthOf
  <2> QED
    BY <2>1 DEF Troubled
<1>4. CASE ~(age > late)
  <2>1. ledger[s].first.ever /\ SinceAnswer(s) > three
    BY <1>1, <1>2, <1>4
  <2>2. last.outcome # "none"
    BY <1>2, <2>1 DEF Told
  <2>3. last.outcome # "ok"
    <3> SUFFICES ASSUME last.outcome = "ok" PROVE FALSE
      OBVIOUS
    <3>1. ledger[s].ok.ever /\ ledger[s].ok.age <= last.age /\ Answered(s)
      BY <1>2, <2>2 DEF Told
    <3>2. Cardinality(Polling(s)) = 0 /\ IsFiniteSet(Polling(s))
      BY <1>2, FS_CardinalityType DEF Told
    <3>3. Polling(s) = {}
      BY <3>2, FS_EmptySet
    <3>4. last.age <= age
      BY <3>1, <3>2, <3>3 DEF Answered
    <3>5. SinceAnswer(s) = ledger[s].ok.age
      BY <3>1 DEF SinceAnswer
    <3> QED
      BY <1>1, <1>2, <1>4, <2>1, <3>1, <3>4, <3>5
  <2>4. HealthOf(s) = IF last.outcome = "refused" THEN "refused" ELSE "failing"
    BY <1>2, <1>4, <2>2, <2>3 DEF HealthOf, Outcome
  <2> QED
    BY <2>1, <2>4 DEF Troubled
<1> QED
  BY <1>3, <1>4

\* A live source that has gone three cadences without an answer is named, for any
\* number of control planes and sources and any order of their polls and rows
\* (source-health.ts, healthOf and troubledSources).
THEOREM TroubleNamed == SourcesSpec => []TroubleIsTold
<1> QED
  BY HealthInitially, HealthStep, HealthIsTold, PTL DEF SourcesSpec

-----------------------------------------------------------------------------
(* The stored grant renews (linear-grant.ts, linear-connect.ts, oauth.ts). *)

-----------------------------------------------------------------------------
(* The invariant.                                                          *)

\* What Linear knows of a token.
Tokens == 1 .. Len(issued)
Heir(t) == issued[t].next
Aged(t) == issued[t].aged
Lapsed(t) == issued[t].lapsed
Revoked(t) == issued[t].revoked
Gone(t) == Revoked(t) \/ t \in lost

\* Who leads a renewal.
Renewing(p) == poll[p].stage \in {"app", "call", "store"}

\* Who is about to store what it was given.
Storing(f) == flow[f].stage = "store"

\* What a poll or the store may still renew, or record.
InUse(t) ==
  \/ t = store.grant
  \/ \E p \in Polls : \/ poll[p].stage # "idle" /\ poll[p].grant = t
                      \/ poll[p].stage = "store" /\ poll[p].got = t

\* Only what its fields are called matters of a token.
TokenFields == {"client", "type", "next", "aged", "lapsed", "revoked"}

\* The tokens are a sequence of such records.
IssuedShape ==
  /\ \E S : issued \in Seq(S)
  /\ \A t \in Tokens : DOMAIN issued[t] = TokenFields

StoreFields == {"app", "grant", "key"}

\* The same of polls, flows and the store.
RenewalFields == {"stage", "grant", "app", "got"}
FlowFields == {"stage", "app", "got"}

\* Who may hold a token.
HolderShape ==
  /\ DOMAIN store = StoreFields /\ DOMAIN poll = Polls /\ DOMAIN flow = Flow
  /\ \A p \in Polls : DOMAIN poll[p] = RenewalFields
  /\ \A f \in Flow : DOMAIN flow[f] = FlowFields

\* Tokens that are held were issued.
Known ==
  /\ store.grant = NoToken \/ store.grant \in Tokens
  /\ \A p \in Polls : poll[p].stage # "idle" => poll[p].grant \in Tokens
  /\ \A t \in Tokens : Heir(t) # NoToken => Heir(t) \in Tokens \ {t}
  /\ \A f \in Flow : Storing(f) => flow[f].got \in Tokens

\* A replay window only ran out on a token that was revoked or whose heir was lost.
Lapsing == \A t \in Tokens : Lapsed(t) => Gone(t)

\* One renewal at a time, of a token that ran out; what it brought is unspent.
OneRenewal ==
  \A p \in Polls : Renewing(p) =>
    /\ inFlight = p /\ Aged(poll[p].grant)
    /\ poll[p].stage = "store" => poll[p].got \in Tokens /\ Heir(poll[p].got) = NoToken

\* The heir of what is in use is fresh: nobody renews it.
Heirs ==
  \A t \in Tokens : InUse(t) /\ Heir(t) # NoToken =>
    Heir(Heir(t)) = NoToken /\ ~Aged(Heir(t))

\* What a flow is about to store is in nobody else's hands.
Handed ==
  \A f \in Flow : Storing(f) =>
    /\ ~InUse(flow[f].got) /\ Heir(flow[f].got) = NoToken
    /\ \A t \in Tokens : Heir(t) # flow[f].got
    /\ \A g \in Flow : Storing(g) /\ flow[g].got = flow[f].got => g = f

\* A stored grant that was renewed is about to be replaced by its heir.
Recording ==
  store.grant # NoToken /\ Heir(store.grant) # NoToken =>
    \/ Gone(store.grant)
    \/ \E p \in Polls : poll[p].stage = "store" /\ poll[p].grant = store.grant

\* The inductive invariant of the tokens, and with the shapes.
TokenInv == Known /\ Lapsing /\ OneRenewal /\ Heirs /\ Handed /\ Recording
ConnectionInv == IssuedShape /\ HolderShape /\ TokenInv

\* A machine never connected, and one connected before, satisfy the invariant.
LEMMA ConnectionInitially == LinearInit => ConnectionInv
<1> SUFFICES ASSUME LinearInit PROVE ConnectionInv
  OBVIOUS
<1>1. /\ DOMAIN poll = Polls /\ \A p \in Polls : poll[p] = NoPolling
      /\ DOMAIN flow = Flow /\ \A f \in Flow : flow[f] = NoFlow
  BY DEF LinearInit
<1>2. /\ DOMAIN NoPolling = RenewalFields /\ NoPolling.stage = "idle"
      /\ DOMAIN NoFlow = FlowFields /\ NoFlow.stage = "idle"
  BY DEF NoPolling, NoFlow, RenewalFields, FlowFields
<1>3. DOMAIN store = StoreFields
  BY DEF LinearInit, StoreFields
<1>4. HolderShape
  BY <1>1, <1>2, <1>3 DEF HolderShape
<1>5. /\ \A p \in Polls : poll[p].stage = "idle"
      /\ \A f \in Flow : flow[f].stage = "idle"
  BY <1>1, <1>2
<1>6. /\ IssuedShape /\ (store.grant = NoToken \/ store.grant \in Tokens)
      /\ \A t \in Tokens : Heir(t) = NoToken /\ ~Lapsed(t)
  <2>1. CASE issued = << >> /\ store = [app |-> None, grant |-> NoToken, key |-> FALSE]
    <3>1. issued \in Seq({}) /\ Len(issued) = 0 /\ store.grant = NoToken
      BY <2>1
    <3>2. Tokens = {}
      BY <3>1 DEF Tokens
    <3> QED
      BY <3>1, <3>2 DEF IssuedShape
  <2>2. ASSUME NEW a \in App, NEW type \in {"app", "code"}, issued = <<Fresh(a, type)>>,
               store = [app |-> a, grant |-> 1, key |-> FALSE]
        PROVE  /\ IssuedShape /\ (store.grant = NoToken \/ store.grant \in Tokens)
               /\ \A t \in Tokens : Heir(t) = NoToken /\ ~Lapsed(t)
    <3> DEFINE r == Fresh(a, type)
    <3>1. DOMAIN r = TokenFields /\ r.next = NoToken /\ r.lapsed = FALSE
      BY DEF Fresh, TokenFields
    <3> HIDE DEF r
    <3>2. issued \in Seq({r}) /\ Len(issued) = 1 /\ issued[1] = r
      BY <2>2 DEF r
    <3>3. Tokens = {1} /\ store.grant = 1
      BY <2>2, <3>2 DEF Tokens
    <3> QED
      BY <3>1, <3>2, <3>3 DEF IssuedShape, Heir, Lapsed
  <2> QED
    BY <2>1, <2>2 DEF LinearInit
<1>7. Known /\ Lapsing
  BY <1>5, <1>6 DEF Known, Lapsing, Storing
<1>8. OneRenewal /\ Heirs /\ Handed
  BY <1>5, <1>6 DEF OneRenewal, Heirs, Handed, Renewing, Storing
<1>9. Recording
  BY <1>6 DEF Recording
<1> QED
  BY <1>4, <1>6, <1>7, <1>8, <1>9 DEF ConnectionInv, TokenInv

-----------------------------------------------------------------------------
(* What Linear does to the tokens.                                         *)

\* The tokens stay, and what was theirs; they may be revoked.
SameTokens ==
  /\ IssuedShape' /\ Tokens' = Tokens
  /\ \A t \in Tokens : /\ Heir(t)' = Heir(t) /\ Aged(t)' = Aged(t) /\ Lapsed(t)' = Lapsed(t)
                       /\ Revoked(t) => Revoked(t)'

\* One more token, n, perhaps the heir of g.
Grown(g, n) ==
  /\ IssuedShape' /\ Tokens' = Tokens \cup {n} /\ n \notin Tokens
  /\ n # NoToken /\ NoToken \notin Tokens
  /\ Heir(n)' = NoToken /\ ~Aged(n)' /\ ~Lapsed(n)'
  /\ \A t \in Tokens : /\ Aged(t)' = Aged(t) /\ Lapsed(t)' = Lapsed(t) /\ Revoked(t)' = Revoked(t)
                       /\ Heir(t)' = Heir(t) \/ (t = g /\ Heir(t)' = n)

\* The absence of a token is not a token.
LEMMA NoTokenIsNone == ASSUME IssuedShape PROVE NoToken \notin Tokens /\ Len(issued) \in Nat
BY DEF IssuedShape, Tokens, NoToken

\* When Linear does nothing, the tokens stay what they were.
LEMMA Untouched == ASSUME IssuedShape, UNCHANGED issued PROVE SameTokens
BY DEF IssuedShape, SameTokens, Tokens, Heir, Aged, Lapsed, Revoked

\* Changing one token leaves the others alone.
LEMMA FlagFields ==
  ASSUME IssuedShape, NEW t \in Tokens, NEW r, DOMAIN r = TokenFields,
         issued' = [issued EXCEPT ![t] = r]
  PROVE  /\ IssuedShape' /\ Tokens' = Tokens /\ issued'[t] = r
         /\ \A u \in Tokens \ {t} : issued'[u] = issued[u]
<1>1. PICK S : issued \in Seq(S)
  BY DEF IssuedShape
<1>2. DOMAIN issued = Tokens
  BY <1>1 DEF Tokens
<1>3. issued'[t] = r /\ \A u \in Tokens \ {t} : issued'[u] = issued[u]
  BY <1>2
<1>4. issued \in Seq(S \cup {r}) /\ t \in 1 .. Len(issued)
  BY <1>1 DEF Tokens
<1>5. issued' \in Seq(S \cup {r}) /\ Len(issued') = Len(issued)
  BY <1>4, ExceptSeq
<1>6. Tokens' = Tokens
  BY <1>5 DEF Tokens
<1>7. IssuedShape'
  BY <1>3, <1>5, <1>6 DEF IssuedShape
<1> QED
  BY <1>3, <1>6, <1>7

\* Issuing adds one token behind the others.
LEMMA AppendFields ==
  ASSUME IssuedShape, NEW r, DOMAIN r = TokenFields, issued' = Append(issued, r),
         NEW n, n = Len(issued) + 1
  PROVE  /\ IssuedShape' /\ Tokens' = Tokens \cup {n} /\ n \notin Tokens
         /\ n # NoToken /\ NoToken \notin Tokens
         /\ issued'[n] = r /\ \A t \in Tokens : issued'[t] = issued[t]
<1>1. PICK S : issued \in Seq(S)
  BY DEF IssuedShape
<1>2. issued \in Seq(S \cup {r}) /\ Len(issued) \in Nat
  BY <1>1
<1>3. /\ issued' \in Seq(S \cup {r}) /\ Len(issued') = n
      /\ issued'[n] = r /\ \A i \in 1 .. Len(issued) : issued'[i] = issued[i]
  BY <1>2, AppendProperties
<1>4. Tokens' = Tokens \cup {n} /\ n \notin Tokens /\ n # NoToken /\ NoToken \notin Tokens
  BY <1>2, <1>3 DEF Tokens, NoToken
<1>5. issued'[n] = r /\ \A t \in Tokens : issued'[t] = issued[t]
  BY <1>3 DEF Tokens
<1>6. \A t \in Tokens' : DOMAIN issued'[t] = TokenFields
  BY <1>4, <1>5 DEF IssuedShape
<1>7. IssuedShape'
  BY <1>3, <1>6 DEF IssuedShape
<1> QED
  BY <1>4, <1>5, <1>7

\* A fresh token has no heir, and is neither aged nor lapsed.
LEMMA FreshFields ==
  ASSUME NEW a, NEW type
  PROVE  /\ DOMAIN Fresh(a, type) = TokenFields /\ Fresh(a, type).next = NoToken
         /\ Fresh(a, type).aged = FALSE /\ Fresh(a, type).lapsed = FALSE
BY DEF Fresh, TokenFields

\* A token issued for an application is nobody's heir.
LEMMA Issuing ==
  ASSUME IssuedShape, NEW a, NEW type, Issue(a, type), NEW g, NEW n, n = Len(issued) + 1
  PROVE  Grown(g, n)
<1> DEFINE r == Fresh(a, type)
<1>1. DOMAIN r = TokenFields /\ r.next = NoToken /\ r.aged = FALSE /\ r.lapsed = FALSE
  BY FreshFields
<1>2. issued' = Append(issued, r)
  BY DEF Issue
<1> HIDE DEF r
<1>3. /\ IssuedShape' /\ Tokens' = Tokens \cup {n} /\ n \notin Tokens
      /\ n # NoToken /\ NoToken \notin Tokens
      /\ issued'[n] = r /\ \A t \in Tokens : issued'[t] = issued[t]
  BY <1>1, <1>2, AppendFields
<1>4. Heir(n)' = NoToken /\ ~Aged(n)' /\ ~Lapsed(n)'
  BY <1>1, <1>3 DEF Heir, Aged, Lapsed
<1>5. \A t \in Tokens : /\ Aged(t)' = Aged(t) /\ Lapsed(t)' = Lapsed(t) /\ Revoked(t)' = Revoked(t)
                        /\ Heir(t)' = Heir(t)
  BY <1>3 DEF Heir, Aged, Lapsed, Revoked
<1> QED
  BY <1>3, <1>4, <1>5 DEF Grown

\* A renewal by refresh token makes the new token the heir of the one it spent.
LEMMA Spending ==
  ASSUME IssuedShape, NEW a, NEW g \in Tokens, issued[g].type # "app",
         Heir(g) = NoToken, Renews(g, a), NEW n, n = Len(issued) + 1
  PROVE  Grown(g, n)
<1> DEFINE r == Fresh(a, "code")
           more == Append(issued, r)
           h == [issued[g] EXCEPT !.next = n]
<1>1. DOMAIN r = TokenFields /\ r.next = NoToken /\ r.aged = FALSE /\ r.lapsed = FALSE
  BY FreshFields
<1>2. issued' = [more EXCEPT ![g].next = n]
  BY DEF Renews, Heir, NewToken
<1>3. PICK S : issued \in Seq(S)
  BY DEF IssuedShape
<1> HIDE DEF r
<1>4. issued \in Seq(S \cup {r, h}) /\ Len(issued) \in Nat
  BY <1>3
<1>5. /\ more \in Seq(S \cup {r, h}) /\ Len(more) = n
      /\ more[n] = r /\ \A i \in 1 .. Len(issued) : more[i] = issued[i]
  BY <1>4, AppendProperties
<1>6. more[g] = issued[g]
  BY <1>5 DEF Tokens
<1>7. issued' = [more EXCEPT ![g] = h]
  BY <1>2, <1>6
<1>8. /\ DOMAIN h = TokenFields /\ h.next = n /\ h.aged = Aged(g) /\ h.lapsed = Lapsed(g)
      /\ h.revoked = Revoked(g)
  BY DEF IssuedShape, TokenFields, Aged, Lapsed, Revoked
<1> HIDE DEF more, h
<1>9. g \in 1 .. Len(more)
  BY <1>4, <1>5 DEF Tokens
<1>10. issued' \in Seq(S \cup {r, h}) /\ Len(issued') = n
  BY <1>5, <1>7, <1>9, ExceptSeq
<1>11. Tokens' = Tokens \cup {n} /\ n \notin Tokens /\ n # NoToken /\ NoToken \notin Tokens
  BY <1>4, <1>10 DEF Tokens, NoToken
<1>12. /\ issued'[g] = h /\ issued'[n] = r
       /\ \A t \in Tokens \ {g} : issued'[t] = issued[t]
  <2>1. DOMAIN more = Tokens \cup {n}
    BY <1>4, <1>5 DEF Tokens
  <2>2. \A t \in Tokens \cup {n} : t # g => issued'[t] = more[t]
    BY <1>7, <2>1
  <2>3. issued'[g] = h
    BY <1>7, <2>1
  <2>4. \A t \in Tokens : more[t] = issued[t]
    BY <1>5 DEF Tokens
  <2>5. n # g
    BY <1>11
  <2> QED
    BY <1>5, <2>2, <2>3, <2>4, <2>5
<1>13. \A t \in Tokens' : DOMAIN issued'[t] = TokenFields
  BY <1>1, <1>8, <1>11, <1>12 DEF IssuedShape
<1>14. IssuedShape'
  BY <1>10, <1>13 DEF IssuedShape
<1>15. Heir(n)' = NoToken /\ ~Aged(n)' /\ ~Lapsed(n)'
  BY <1>1, <1>12 DEF Heir, Aged, Lapsed
<1>16. Heir(g)' = n /\ Aged(g)' = Aged(g) /\ Lapsed(g)' = Lapsed(g) /\ Revoked(g)' = Revoked(g)
  BY <1>8, <1>12 DEF Heir, Aged, Lapsed, Revoked
<1>17. \A t \in Tokens \ {g} :
          Heir(t)' = Heir(t) /\ Aged(t)' = Aged(t) /\ Lapsed(t)' = Lapsed(t) /\ Revoked(t)' = Revoked(t)
  BY <1>12 DEF Heir, Aged, Lapsed, Revoked
<1> QED
  BY <1>11, <1>14, <1>15, <1>16, <1>17 DEF Grown

-----------------------------------------------------------------------------
(* What a step may do to the invariant.                                    *)

\* Nothing new is renewed or held, except for an unspent token that is stored.
FewerUses ==
  /\ SameTokens /\ lost \subseteq lost'
  /\ \/ store'.grant = store.grant \/ store'.grant = NoToken
     \/ /\ store'.grant \in Tokens /\ Heir(store'.grant) = NoToken
        /\ \A f \in Flow : Storing(f)' => flow'[f].got # store'.grant
  /\ \A p \in Polls :
       /\ poll'[p].stage # "idle" => poll'[p].grant \in Tokens /\ InUse(poll'[p].grant)
       /\ poll'[p].stage = "store" =>
            poll[p].stage = "store" /\ poll'[p].grant = poll[p].grant /\ poll'[p].got = poll[p].got
       /\ Renewing(p)' => inFlight' = p /\ Aged(poll'[p].grant)
       /\ poll[p].stage = "store" /\ poll[p].grant = store.grant /\ poll'[p].stage # "store"
            => Heir(store.grant) = NoToken \/ store'.grant # store.grant \/ store.grant \in lost'
  /\ \A f \in Flow : Storing(f)' => Storing(f) /\ flow'[f].got = flow[f].got

\* A step that takes nothing new into use keeps the invariant.
LEMMA FewerUsesKeep ==
  ASSUME IssuedShape, TokenInv, FewerUses
  PROVE  TokenInv'
<1> USE DEF TokenInv
<1>0. NoToken \notin Tokens
  BY NoTokenIsNone
<1>1. /\ IssuedShape' /\ Tokens' = Tokens
      /\ \A t \in Tokens : /\ Heir(t)' = Heir(t) /\ Aged(t)' = Aged(t) /\ Lapsed(t)' = Lapsed(t)
                           /\ Revoked(t) => Revoked(t)'
  BY DEF FewerUses, SameTokens
<1>2. \A t \in Tokens : Gone(t) => Gone(t)'
  BY <1>1 DEF Gone, FewerUses
<1>3. ASSUME NEW t \in Tokens, InUse(t)'
      PROVE  \/ InUse(t)
             \/ Heir(t) = NoToken /\ \A f \in Flow : Storing(f)' => flow'[f].got # t
  <2>1. CASE t = store'.grant
    <3>1. CASE store'.grant = store.grant
      BY <2>1, <3>1 DEF InUse
    <3>2. CASE store'.grant # store.grant
      BY <1>0, <2>1, <3>2 DEF FewerUses
    <3> QED
      BY <3>1, <3>2
  <2>2. ASSUME NEW p \in Polls, poll'[p].stage # "idle", poll'[p].grant = t
        PROVE  InUse(t)
    BY <2>2 DEF FewerUses
  <2>3. ASSUME NEW p \in Polls, poll'[p].stage = "store", poll'[p].got = t
        PROVE  InUse(t)
    BY <2>3 DEF FewerUses, InUse
  <2> QED
    BY <1>3, <2>1, <2>2, <2>3 DEF InUse
<1>4. Known'
  <2>1. store'.grant = NoToken \/ store'.grant \in Tokens
    BY DEF FewerUses, Known
  <2>2. \A p \in Polls : poll'[p].stage # "idle" => poll'[p].grant \in Tokens
    BY DEF FewerUses
  <2>3. \A f \in Flow : Storing(f)' => flow'[f].got \in Tokens
    BY DEF FewerUses, Known
  <2>4. \A t \in Tokens : Heir(t)' # NoToken => Heir(t)' \in Tokens \ {t}
    BY <1>1 DEF Known
  <2> QED
    BY <1>1, <2>1, <2>2, <2>3, <2>4 DEF Known
<1>5. Lapsing'
  BY <1>1, <1>2 DEF Lapsing
<1>6. OneRenewal'
  <2> SUFFICES ASSUME NEW p \in Polls, Renewing(p)'
               PROVE  /\ inFlight' = p /\ Aged(poll[p].grant)'
                      /\ poll'[p].stage = "store" =>
                           poll'[p].got \in Tokens' /\ Heir(poll[p].got)' = NoToken
    BY DEF OneRenewal
  <2>1. inFlight' = p /\ Aged(poll'[p].grant) /\ poll'[p].grant \in Tokens
    BY DEF FewerUses, Renewing
  <2>2. PICK t \in Tokens : t = poll'[p].grant
    BY <2>1
  <2>3. Aged(t)'
    BY <1>1, <2>1, <2>2
  <2>4. ASSUME poll'[p].stage = "store"
        PROVE  poll'[p].got \in Tokens /\ Heir(poll[p].got)' = NoToken
    <3>1. poll[p].stage = "store" /\ poll'[p].got = poll[p].got
      BY <2>4 DEF FewerUses
    <3>2. poll[p].got \in Tokens /\ Heir(poll[p].got) = NoToken
      BY <3>1 DEF OneRenewal, Renewing
    <3>3. PICK u \in Tokens : u = poll[p].got
      BY <3>2
    <3>4. Heir(u)' = NoToken /\ poll'[p].got = u
      BY <1>1, <3>1, <3>2, <3>3
    <3> QED
      BY <3>4 DEF Heir
  <2> QED
    BY <1>1, <2>1, <2>2, <2>3, <2>4 DEF Aged
<1>7. Heirs'
  <2> SUFFICES ASSUME NEW t \in Tokens, InUse(t)', Heir(t)' # NoToken
               PROVE  Heir(Heir(t))' = NoToken /\ ~Aged(Heir(t))'
    BY <1>1 DEF Heirs
  <2>1. Heir(t)' = Heir(t) /\ Heir(t) # NoToken
    BY <1>1
  <2>2. InUse(t)
    BY <1>3, <2>1
  <2>3. Heir(t) \in Tokens /\ Heir(Heir(t)) = NoToken /\ ~Aged(Heir(t))
    BY <2>1, <2>2 DEF Heirs, Known
  <2>4. PICK u \in Tokens : u = Heir(t)
    BY <2>3
  <2>5. Heir(u)' = NoToken /\ ~Aged(u)' /\ Heir(t)' = u
    BY <1>1, <2>1, <2>3, <2>4
  <2> QED
    BY <2>5 DEF Heir, Aged
<1>8. Handed'
  <2> SUFFICES ASSUME NEW f \in Flow, Storing(f)'
               PROVE  /\ ~InUse(flow[f].got)' /\ Heir(flow[f].got)' = NoToken
                      /\ \A t \in Tokens' : Heir(t)' # flow'[f].got
                      /\ \A g \in Flow : Storing(g)' /\ flow'[g].got = flow'[f].got => g = f
    BY DEF Handed
  <2>1. Storing(f) /\ flow'[f].got = flow[f].got /\ flow[f].got \in Tokens
    BY DEF FewerUses, Known
  <2>2. PICK u \in Tokens : u = flow[f].got
    BY <2>1
  <2>3. /\ ~InUse(u) /\ Heir(u) = NoToken /\ \A t \in Tokens : Heir(t) # u
        /\ \A g \in Flow : Storing(g) /\ flow[g].got = u => g = f
    BY <2>1, <2>2 DEF Handed
  <2>4. ~InUse(u)'
    BY <1>3, <2>1, <2>2, <2>3
  <2>5. flow'[f].got = u /\ Heir(u)' = NoToken /\ \A t \in Tokens' : Heir(t)' # u
    BY <1>1, <2>1, <2>2, <2>3
  <2>6. \A g \in Flow : Storing(g)' /\ flow'[g].got = u => g = f
    BY <2>3 DEF FewerUses
  <2> QED
    BY <2>4, <2>5, <2>6 DEF InUse, Heir
<1>9. Recording'
  <2> SUFFICES ASSUME store'.grant # NoToken, Heir(store.grant)' # NoToken
               PROVE  \/ Gone(store.grant)'
                      \/ \E p \in Polls : poll'[p].stage = "store" /\ poll'[p].grant = store'.grant
    BY DEF Recording
  <2>1. PICK t \in Tokens : t = store'.grant
    BY <1>1, <1>4 DEF Known
  <2>2. Heir(t)' # NoToken
    BY <2>1 DEF Heir
  <2>3. Heir(t) # NoToken
    BY <1>1, <2>2
  <2>4. store.grant = t
    BY <2>1, <2>3 DEF FewerUses
  <2>5. CASE Gone(t)
    <3>1. Gone(t)'
      BY <1>2, <2>5
    <3> QED
      BY <2>1, <3>1 DEF Gone, Revoked
  <2>6. CASE ~Gone(t)
    <3>1. PICK p \in Polls : poll[p].stage = "store" /\ poll[p].grant = t
      BY <1>0, <2>3, <2>4, <2>6 DEF Recording
    <3>2. CASE poll'[p].stage = "store"
      BY <2>1, <3>1, <3>2 DEF FewerUses
    <3>3. CASE poll'[p].stage # "store"
      <4>1. t \in lost'
        BY <2>1, <2>3, <2>4, <3>1, <3>3 DEF FewerUses
      <4> QED
        BY <2>1, <4>1 DEF Gone
    <3> QED
      BY <3>2, <3>3
  <2> QED
    BY <2>5, <2>6
<1> QED
  BY <1>4, <1>5, <1>6, <1>7, <1>8, <1>9

\* Linear answers the renewal the poll p leads, or the answer is lost: u is what
\* was issued, or issued before.
LinearAnswers(p, u) ==
  /\ poll[p].stage = "call" /\ lost \subseteq lost'
  /\ store' = store /\ flow' = flow
  /\ \A q \in Polls \ {p} : poll'[q] = poll[q] \/ poll'[q].stage = "idle"
  /\ \/ /\ inFlight' = inFlight /\ poll'[p].stage = "store"
        /\ poll'[p].grant = poll[p].grant /\ poll'[p].got = u
     \/ poll'[p].stage = "idle" /\ poll[p].grant \in lost'

\* The poll that asks Linear is the one in flight, and no other is about to record.
LEMMA LeaderIsAlone ==
  ASSUME TokenInv, NEW p \in Polls, poll[p].stage = "call"
  PROVE  /\ inFlight = p /\ poll[p].grant \in Tokens /\ Aged(poll[p].grant)
         /\ InUse(poll[p].grant)
         /\ \A q \in Polls : Renewing(q) => q = p
         /\ \A q \in Polls : poll[q].stage # "store"
<1>1. Renewing(p)
  BY DEF Renewing
<1>2. \A q \in Polls : Renewing(q) => inFlight = q
  BY DEF TokenInv, OneRenewal
<1>3. \A q \in Polls : Renewing(q) => q = p
  BY <1>1, <1>2
<1>4. \A q \in Polls : poll[q].stage = "store" => Renewing(q)
  BY DEF Renewing
<1>5. Aged(poll[p].grant) /\ inFlight = p
  BY <1>1 DEF TokenInv, OneRenewal
<1>6. poll[p].grant \in Tokens /\ InUse(poll[p].grant)
  BY DEF TokenInv, Known, InUse
<1> QED
  BY <1>3, <1>4, <1>5, <1>6

\* An answer of Linear, kept or lost, keeps the invariant.
LEMMA AnsweredKeeps ==
  ASSUME IssuedShape, TokenInv, NEW p \in Polls, NEW u, LinearAnswers(p, u),
         NEW g, g = poll[p].grant,
         Grown(g, u) \/ (SameTokens /\ u \in Tokens /\ u = Heir(g))
  PROVE  TokenInv'
<1> USE DEF TokenInv
<1>0. NoToken \notin Tokens
  BY NoTokenIsNone
<1>1. /\ inFlight = p /\ g \in Tokens /\ Aged(g) /\ InUse(g)
      /\ \A q \in Polls : Renewing(q) => q = p
      /\ \A q \in Polls : poll[q].stage # "store"
  BY LeaderIsAlone DEF LinearAnswers
<1>2. /\ Tokens' = Tokens \cup {u} /\ u # NoToken
      /\ \A t \in Tokens : /\ Aged(t)' = Aged(t) /\ Lapsed(t)' = Lapsed(t)
                           /\ Revoked(t) => Revoked(t)'
                           /\ Heir(t)' = Heir(t) \/ (t = g /\ Heir(t)' = u)
  BY <1>0 DEF Grown, SameTokens
<1>3. /\ Heir(u)' = NoToken /\ ~Aged(u)' /\ u # g
      /\ u \notin Tokens => ~Lapsed(u)'
  <2>1. CASE Grown(g, u)
    BY <1>1, <2>1 DEF Grown
  <2>2. CASE SameTokens /\ u \in Tokens /\ u = Heir(g)
    <3>1. Heir(u) = NoToken /\ ~Aged(u)
      BY <1>0, <1>1, <2>2 DEF Heirs
    <3>2. Heir(u)' = Heir(u) /\ Aged(u)' = Aged(u)
      BY <2>2 DEF SameTokens
    <3> QED
      BY <1>1, <2>2, <3>1, <3>2
  <2> QED
    BY <2>1, <2>2
<1>4. \A t \in Tokens : Gone(t) => Gone(t)'
  BY <1>2 DEF Gone, LinearAnswers
<1>5. \A t \in Tokens \ {u} : InUse(t)' => InUse(t)
  BY DEF InUse, LinearAnswers
<1>6. \A f \in Flow : Storing(f)' => Storing(f) /\ flow'[f].got = flow[f].got /\ flow[f].got # u
  <2>1. ASSUME NEW f \in Flow, Storing(f)
        PROVE  flow[f].got # u
    <3>1. flow[f].got \in Tokens /\ \A t \in Tokens : Heir(t) # flow[f].got
      BY <2>1 DEF Known, Handed
    <3> QED
      BY <1>1, <3>1 DEF Grown
  <2> QED
    BY <2>1 DEF Storing, LinearAnswers
<1>7. Known'
  <2>1. store'.grant = NoToken \/ store'.grant \in Tokens
    BY DEF LinearAnswers, Known
  <2>2. \A q \in Polls : poll'[q].stage # "idle" => poll'[q].grant \in Tokens
    BY <1>1 DEF LinearAnswers, Known
  <2>3. \A f \in Flow : Storing(f)' => flow'[f].got \in Tokens
    BY DEF Known, LinearAnswers, Storing
  <2>4. \A t \in Tokens' : Heir(t)' # NoToken => Heir(t)' \in Tokens' \ {t}
    BY <1>2, <1>3 DEF Known
  <2> QED
    BY <1>2, <2>1, <2>2, <2>3, <2>4 DEF Known
<1>8. Lapsing'
  BY <1>2, <1>3, <1>4 DEF Lapsing
<1>9. OneRenewal'
  <2> SUFFICES ASSUME NEW q \in Polls, Renewing(q)'
               PROVE  /\ inFlight' = q /\ Aged(poll[q].grant)'
                      /\ poll'[q].stage = "store" =>
                           poll'[q].got \in Tokens' /\ Heir(poll[q].got)' = NoToken
    BY DEF OneRenewal
  <2>1. q = p
    BY <1>1 DEF LinearAnswers, Renewing
  <2>2. inFlight' = p /\ poll'[p].stage = "store" /\ poll'[p].grant = g /\ poll'[p].got = u
    BY <1>1, <2>1 DEF LinearAnswers, Renewing
  <2>3. Aged(g)'
    BY <1>1, <1>2
  <2> QED
    BY <1>2, <1>3, <2>1, <2>2, <2>3 DEF Aged, Heir
<1>10. Heirs'
  <2> SUFFICES ASSUME NEW t \in Tokens', InUse(t)', Heir(t)' # NoToken
               PROVE  Heir(Heir(t))' = NoToken /\ ~Aged(Heir(t))'
    BY DEF Heirs
  <2>1. t \in Tokens /\ t # u
    BY <1>2, <1>3
  <2>2. InUse(t)
    BY <1>5, <2>1
  <2>3. CASE Heir(t)' = u
    BY <1>3, <2>3 DEF Heir, Aged
  <2>4. CASE Heir(t)' # u
    <3>1. Heir(t)' = Heir(t)
      BY <1>2, <2>1, <2>4
    <3>2. Heir(t) \in Tokens /\ Heir(Heir(t)) = NoToken /\ ~Aged(Heir(t))
      BY <2>1, <2>2, <3>1 DEF Heirs, Known
    <3>3. PICK w \in Tokens : w = Heir(t)
      BY <3>2
    <3>4. w # g
      BY <1>1, <3>2, <3>3
    <3>5. Heir(w)' = NoToken /\ ~Aged(w)' /\ Heir(t)' = w
      BY <1>2, <3>1, <3>2, <3>3, <3>4
    <3> QED
      BY <3>5 DEF Heir, Aged
  <2> QED
    BY <2>3, <2>4
<1>11. Handed'
  <2> SUFFICES ASSUME NEW f \in Flow, Storing(f)'
               PROVE  /\ ~InUse(flow[f].got)' /\ Heir(flow[f].got)' = NoToken
                      /\ \A t \in Tokens' : Heir(t)' # flow'[f].got
                      /\ \A h \in Flow : Storing(h)' /\ flow'[h].got = flow'[f].got => h = f
    BY DEF Handed
  <2>1. Storing(f) /\ flow'[f].got = flow[f].got /\ flow[f].got \in Tokens /\ flow[f].got # u
    BY <1>6 DEF Known
  <2>2. PICK w \in Tokens : w = flow[f].got
    BY <2>1
  <2>3. /\ ~InUse(w) /\ Heir(w) = NoToken /\ \A t \in Tokens : Heir(t) # w
        /\ \A h \in Flow : Storing(h) /\ flow[h].got = w => h = f
    BY <2>1, <2>2 DEF Handed
  <2>4. ~InUse(w)'
    BY <1>5, <2>1, <2>2, <2>3
  <2>5. w # g /\ w # u /\ w # NoToken
    BY <1>0, <1>1, <2>1, <2>2, <2>3
  <2>6. flow'[f].got = w /\ Heir(w)' = NoToken
    BY <1>2, <2>1, <2>2, <2>3, <2>5
  <2>7. \A t \in Tokens' : Heir(t)' # w
    BY <1>2, <1>3, <2>3, <2>5
  <2>8. \A h \in Flow : Storing(h)' /\ flow'[h].got = w => h = f
    BY <1>6, <2>3
  <2> QED
    BY <2>4, <2>6, <2>7, <2>8 DEF InUse, Heir
<1>12. Recording'
  <2> SUFFICES ASSUME store'.grant # NoToken, Heir(store.grant)' # NoToken
               PROVE  \/ Gone(store.grant)'
                      \/ \E q \in Polls : poll'[q].stage = "store" /\ poll'[q].grant = store'.grant
    BY DEF Recording
  <2>1. PICK t \in Tokens : t = store.grant /\ t = store'.grant
    BY DEF Known, LinearAnswers
  <2>2. CASE t = g
    <3>1. CASE poll'[p].stage = "store" /\ poll'[p].grant = g
      BY <2>1, <2>2, <3>1
    <3>2. CASE g \in lost'
      BY <2>1, <2>2, <3>2 DEF Gone
    <3> QED
      BY <3>1, <3>2 DEF LinearAnswers
  <2>3. CASE t # g
    <3>1. Heir(t)' = Heir(t) /\ Heir(t)' # NoToken
      BY <1>2, <2>1, <2>3 DEF Heir
    <3>2. Gone(t)
      BY <1>0, <1>1, <2>1, <3>1 DEF Recording
    <3>3. Gone(t)'
      BY <1>4, <3>2
    <3> QED
      BY <2>1, <3>3 DEF Gone, Revoked
  <2> QED
    BY <2>2, <2>3
<1> QED
  BY <1>7, <1>8, <1>9, <1>10, <1>11, <1>12

\* A flow is given a fresh token.
LEMMA GivenKeeps ==
  ASSUME IssuedShape, TokenInv, NEW f \in Flow, NEW n, Grown(NoToken, n),
         UNCHANGED <<store, poll, inFlight, lost>>,
         flow'[f].got = n, \A g \in Flow \ {f} : flow'[g] = flow[g]
  PROVE  TokenInv'
<1> USE DEF TokenInv
<1>2. /\ Tokens' = Tokens \cup {n} /\ n # NoToken /\ n \notin Tokens /\ NoToken \notin Tokens
      /\ Heir(n)' = NoToken /\ ~Lapsed(n)'
      /\ \A t \in Tokens : /\ Aged(t)' = Aged(t) /\ Lapsed(t)' = Lapsed(t) /\ Revoked(t)' = Revoked(t)
                           /\ Heir(t)' = Heir(t)
  BY DEF Grown
<1>3. ~InUse(n)
  <2>1. \A p \in Polls : poll[p].stage = "store" => poll[p].got \in Tokens
    BY DEF OneRenewal, Renewing
  <2> QED
    BY <1>2, <2>1 DEF InUse, Known
<1>4. \A t : InUse(t)' <=> InUse(t)
  BY DEF InUse
<1>5. \A t \in Tokens : Gone(t)' <=> Gone(t)
  BY <1>2 DEF Gone
<1>6. Known'
  <2>1. store'.grant = NoToken \/ store'.grant \in Tokens
    BY DEF Known
  <2>2. \A q \in Polls : poll'[q].stage # "idle" => poll'[q].grant \in Tokens
    BY DEF Known
  <2>3. \A g \in Flow : Storing(g)' => flow'[g].got \in Tokens \cup {n}
    BY DEF Known, Storing
  <2>4. \A t \in Tokens' : Heir(t)' # NoToken => Heir(t)' \in Tokens' \ {t}
    BY <1>2 DEF Known
  <2> QED
    BY <1>2, <2>1, <2>2, <2>3, <2>4 DEF Known
<1>7. Lapsing'
  BY <1>2, <1>5 DEF Lapsing
<1>8. OneRenewal'
  <2> SUFFICES ASSUME NEW q \in Polls, Renewing(q)'
               PROVE  /\ inFlight' = q /\ Aged(poll[q].grant)'
                      /\ poll'[q].stage = "store" =>
                           poll'[q].got \in Tokens' /\ Heir(poll[q].got)' = NoToken
    BY DEF OneRenewal
  <2>1. Renewing(q) /\ poll' = poll /\ inFlight' = inFlight
    BY DEF Renewing
  <2>2. /\ inFlight = q /\ Aged(poll[q].grant) /\ poll[q].grant \in Tokens
        /\ poll[q].stage = "store" => poll[q].got \in Tokens /\ Heir(poll[q].got) = NoToken
    BY <2>1 DEF OneRenewal, Known, Renewing
  <2>3. PICK t \in Tokens : t = poll[q].grant
    BY <2>2
  <2>4. Aged(t)' /\ \A w \in Tokens : Heir(w)' = Heir(w)
    BY <1>2, <2>2, <2>3
  <2>5. ASSUME poll[q].stage = "store"
        PROVE  poll[q].got \in Tokens' /\ Heir(poll[q].got)' = NoToken
    <3>1. PICK w \in Tokens : w = poll[q].got
      BY <2>2, <2>5
    <3>2. Heir(w)' = NoToken
      BY <2>2, <2>4, <2>5, <3>1
    <3> QED
      BY <1>2, <2>1, <3>1, <3>2 DEF Heir
  <2> QED
    BY <2>1, <2>2, <2>3, <2>4, <2>5 DEF Aged
<1>9. Heirs'
  <2> SUFFICES ASSUME NEW t \in Tokens', InUse(t)', Heir(t)' # NoToken
               PROVE  Heir(Heir(t))' = NoToken /\ ~Aged(Heir(t))'
    BY DEF Heirs
  <2>1. t \in Tokens /\ InUse(t) /\ Heir(t)' = Heir(t)
    BY <1>2, <1>4
  <2>2. PICK w \in Tokens : w = Heir(t)
    BY <2>1 DEF Known
  <2>3. Heir(w) = NoToken /\ ~Aged(w)
    BY <2>1, <2>2 DEF Heirs
  <2>4. Heir(w)' = NoToken /\ ~Aged(w)' /\ Heir(t)' = w
    BY <1>2, <2>1, <2>2, <2>3
  <2> QED
    BY <2>4 DEF Heir, Aged
<1>10. Handed'
  <2> SUFFICES ASSUME NEW h \in Flow, Storing(h)'
               PROVE  /\ ~InUse(flow[h].got)' /\ Heir(flow[h].got)' = NoToken
                      /\ \A t \in Tokens' : Heir(t)' # flow'[h].got
                      /\ \A g \in Flow : Storing(g)' /\ flow'[g].got = flow'[h].got => g = h
    BY DEF Handed
  <2>1. \A g \in Flow \ {f} : Storing(g)' => /\ Storing(g) /\ flow'[g].got = flow[g].got
                                             /\ flow[g].got \in Tokens
    BY DEF Storing, Known
  <2>2. \A t \in Tokens' : Heir(t)' # n
    BY <1>2 DEF Known
  <2>3. CASE h = f
    <3>1. \A g \in Flow : Storing(g)' /\ flow'[g].got = n => g = f
      BY <1>2, <2>1
    <3>2. ~InUse(n)'
      BY <1>3, <1>4
    <3> QED
      BY <1>2, <2>2, <2>3, <3>1, <3>2 DEF InUse, Heir
  <2>4. CASE h # f
    <3>1. PICK w \in Tokens : w = flow[h].got /\ w = flow'[h].got
      BY <2>1, <2>4
    <3>2. /\ ~InUse(w) /\ Heir(w) = NoToken /\ \A t \in Tokens : Heir(t) # w
          /\ \A g \in Flow : Storing(g) /\ flow[g].got = w => g = h
      BY <2>1, <2>4, <3>1 DEF Handed
    <3>3. ~InUse(w)' /\ Heir(w)' = NoToken /\ \A t \in Tokens' : Heir(t)' # w
      BY <1>2, <1>4, <3>1, <3>2
    <3>4. \A g \in Flow : Storing(g)' /\ flow'[g].got = w => g = h
      BY <1>2, <2>1, <3>1, <3>2
    <3> QED
      BY <3>1, <3>3, <3>4 DEF InUse, Heir
  <2> QED
    BY <2>3, <2>4
<1>11. Recording'
  <2> SUFFICES ASSUME store'.grant # NoToken, Heir(store.grant)' # NoToken
               PROVE  \/ Gone(store.grant)'
                      \/ \E q \in Polls : poll'[q].stage = "store" /\ poll'[q].grant = store'.grant
    BY DEF Recording
  <2>1. PICK t \in Tokens : t = store.grant /\ t = store'.grant
    BY DEF Known
  <2>2. Heir(t) # NoToken
    BY <1>2, <2>1 DEF Heir
  <2>3. Gone(t) \/ \E q \in Polls : poll[q].stage = "store" /\ poll[q].grant = t
    BY <1>2, <2>1, <2>2 DEF Recording
  <2>4. Gone(t) => Gone(t)'
    BY <1>5
  <2> QED
    BY <2>1, <2>3, <2>4 DEF Gone, Revoked
<1> QED
  BY <1>6, <1>7, <1>8, <1>9, <1>10, <1>11

\* Time passes for the stored token, under no poll.
LEMMA FlaggedKeeps ==
  ASSUME IssuedShape, TokenInv, Quiet, NEW t \in Tokens, t = store.grant,
         UNCHANGED <<store, poll, inFlight, flow, lost>>, IssuedShape', Tokens' = Tokens,
         \A u \in Tokens : /\ Heir(u)' = Heir(u) /\ Revoked(u)' = Revoked(u)
                           /\ u # t => Aged(u)' = Aged(u) /\ Lapsed(u)' = Lapsed(u),
         Lapsed(t)' = Lapsed(t) \/ Heir(t) # NoToken
  PROVE  TokenInv'
<1> USE DEF TokenInv
<1>0. \A p \in Polls : poll[p].stage = "idle"
  BY DEF Quiet
<1>1. \A u : InUse(u)' => u = t
  BY <1>0 DEF InUse
<1>2. \A u \in Tokens : Gone(u)' <=> Gone(u)
  BY DEF Gone
<1>3. NoToken \notin Tokens
  BY NoTokenIsNone
<1>4. Known' /\ OneRenewal'
  BY <1>0 DEF Known, OneRenewal, Renewing, Storing
<1>5. Lapsing'
  <2>1. Heir(t) # NoToken => Gone(t)
    BY <1>0, <1>3 DEF Recording
  <2> QED
    BY <1>2, <2>1 DEF Lapsing
<1>6. Heirs'
  <2> SUFFICES ASSUME NEW u \in Tokens, InUse(u)', Heir(u)' # NoToken
               PROVE  Heir(Heir(u))' = NoToken /\ ~Aged(Heir(u))'
    BY DEF Heirs
  <2>1. u = t /\ InUse(t) /\ Heir(t) # NoToken /\ Heir(t)' = Heir(t)
    BY <1>1 DEF InUse
  <2>2. PICK w \in Tokens \ {t} : w = Heir(t)
    BY <2>1 DEF Known
  <2>3. Heir(w) = NoToken /\ ~Aged(w)
    BY <2>1, <2>2 DEF Heirs
  <2>4. Heir(w)' = NoToken /\ ~Aged(w)' /\ Heir(u)' = w
    BY <2>1, <2>2, <2>3
  <2> QED
    BY <2>4 DEF Heir, Aged
<1>7. Handed'
  <2> SUFFICES ASSUME NEW f \in Flow, Storing(f)'
               PROVE  /\ ~InUse(flow[f].got)' /\ Heir(flow[f].got)' = NoToken
                      /\ \A u \in Tokens' : Heir(u)' # flow'[f].got
                      /\ \A g \in Flow : Storing(g)' /\ flow'[g].got = flow'[f].got => g = f
    BY DEF Handed
  <2>1. Storing(f) /\ flow'[f].got = flow[f].got /\ flow[f].got \in Tokens
    BY DEF Storing, Known
  <2>2. PICK w \in Tokens : w = flow[f].got
    BY <2>1
  <2>3. /\ ~InUse(w) /\ Heir(w) = NoToken /\ \A u \in Tokens : Heir(u) # w
        /\ \A g \in Flow : Storing(g) /\ flow[g].got = w => g = f
    BY <2>1, <2>2 DEF Handed
  <2>4. ~InUse(w)' /\ Heir(w)' = NoToken /\ \A u \in Tokens' : Heir(u)' # w
    BY <2>3 DEF InUse
  <2>5. \A g \in Flow : Storing(g)' /\ flow'[g].got = w => g = f
    BY <2>3 DEF Storing
  <2> QED
    BY <2>1, <2>2, <2>4, <2>5 DEF InUse, Heir
<1>8. Recording'
  <2> SUFFICES ASSUME Heir(store.grant)' # NoToken PROVE Gone(store.grant)'
    BY DEF Recording
  <2>1. Heir(t)' # NoToken
    BY DEF Heir
  <2>2. Gone(t)
    BY <1>0, <1>3, <2>1 DEF Recording
  <2>3. Gone(t)'
    BY <1>2, <2>2
  <2> QED
    BY <2>3 DEF Gone, Revoked
<1> QED
  BY <1>4, <1>5, <1>6, <1>7, <1>8

-----------------------------------------------------------------------------
(* Polls.                                                                  *)

\* The polls of HolderShape, the flows, and the store.
PollsShape == DOMAIN poll = Polls /\ \A p \in Polls : DOMAIN poll[p] = RenewalFields
FlowsShape == DOMAIN flow = Flow /\ \A f \in Flow : DOMAIN flow[f] = FlowFields

\* Setting one poll leaves the others alone.
LEMMA PollSet ==
  ASSUME PollsShape, NEW p \in Polls, NEW r, DOMAIN r = RenewalFields, poll' = [poll EXCEPT ![p] = r]
  PROVE  PollsShape' /\ poll'[p] = r /\ \A q \in Polls \ {p} : poll'[q] = poll[q]
BY DEF PollsShape

\* The fields of an idle poll and an idle flow.
LEMMA IdleShape ==
  /\ DOMAIN NoPolling = RenewalFields /\ NoPolling.stage = "idle"
  /\ DOMAIN NoFlow = FlowFields /\ NoFlow.stage = "idle"
BY DEF NoPolling, NoFlow, RenewalFields, FlowFields

\* Ending some polls leaves the others alone.
LEMMA PollsStop ==
  ASSUME PollsShape, NEW ps, poll' = PollsEnd(ps)
  PROVE  /\ PollsShape'
         /\ \A q \in Polls : /\ q \in ps => poll'[q].stage = "idle"
                             /\ q \notin ps => poll'[q] = poll[q]
BY IdleShape DEF PollsShape, PollsEnd

\* A poll moves, short of a record; those that wait for it may be answered.
LEMMA RenewalMoves ==
  ASSUME ConnectionInv, NEW p \in Polls, UNCHANGED <<store, issued, flow>>, lost \subseteq lost',
         \A q \in Polls \ {p} :
           poll'[q] = poll[q] \/ (poll[q].stage = "wait" /\ poll'[q].stage = "idle"),
         poll[p].stage # "store",
         \/ poll'[p].stage = "idle"
         \/ /\ poll'[p].stage # "store" /\ poll'[p].grant \in Tokens /\ InUse(poll'[p].grant)
            /\ Renewing(p)' => inFlight' = p /\ Aged(poll'[p].grant),
         \A q \in Polls \ {p} : Renewing(q) => inFlight' = inFlight
  PROVE  TokenInv'
<1>1. IssuedShape /\ TokenInv /\ SameTokens
  BY Untouched DEF ConnectionInv
<1>2. \A q \in Polls \ {p} : Renewing(q)' => Renewing(q) /\ poll'[q] = poll[q]
  BY DEF Renewing
<1>3. ASSUME NEW q \in Polls
      PROVE  /\ poll'[q].stage # "idle" => poll'[q].grant \in Tokens /\ InUse(poll'[q].grant)
             /\ poll'[q].stage = "store" =>
                  poll[q].stage = "store" /\ poll'[q].grant = poll[q].grant /\ poll'[q].got = poll[q].got
             /\ Renewing(q)' => inFlight' = q /\ Aged(poll'[q].grant)
             /\ poll[q].stage = "store" /\ poll[q].grant = store.grant /\ poll'[q].stage # "store"
                  => Heir(store.grant) = NoToken \/ store'.grant # store.grant \/ store.grant \in lost'
  <2>1. CASE q = p
    BY <2>1 DEF Renewing
  <2>2. CASE q # p
    <3>1. poll'[q].stage # "idle" => poll'[q].grant \in Tokens /\ InUse(poll'[q].grant)
      BY <1>1, <2>2 DEF TokenInv, Known, InUse
    <3>2. Renewing(q)' => inFlight' = q /\ Aged(poll'[q].grant)
      BY <1>1, <1>2, <2>2 DEF TokenInv, OneRenewal
    <3> QED
      BY <2>2, <3>1, <3>2
  <2> QED
    BY <2>1, <2>2
<1>4. \A f \in Flow : Storing(f)' => Storing(f) /\ flow'[f].got = flow[f].got
  BY DEF Storing
<1>5. FewerUses
  BY <1>1, <1>3, <1>4 DEF FewerUses
<1> QED
  BY <1>1, <1>5, FewerUsesKeep

\* The renewal a poll leads settles.
LEMMA Settling ==
  ASSUME ConnectionInv, NEW p \in Polls, Renewing(p), Settle(p)
  PROVE  /\ PollsShape' /\ poll'[p].stage = "idle" /\ inFlight' = None
         /\ \A q \in Polls \ {p} :
              poll'[q] = poll[q] \/ (poll[q].stage = "wait" /\ poll'[q].stage = "idle")
         /\ \A q \in Polls : Renewing(q) => q = p
<1>1. PollsShape
  BY DEF ConnectionInv, HolderShape, PollsShape
<1>2. \A q \in Polls : Renewing(q) => q = p
  BY DEF ConnectionInv, TokenInv, OneRenewal
<1>3. poll' = PollsEnd(Waiting \cup {p}) /\ inFlight' = None
  BY DEF Settle
<1>4. \A q \in Waiting : poll[q].stage = "wait"
  BY DEF Waiting
<1>5. /\ PollsShape'
      /\ \A q \in Polls : /\ q \in Waiting \cup {p} => poll'[q].stage = "idle"
                          /\ q \notin Waiting \cup {p} => poll'[q] = poll[q]
  BY <1>1, <1>3, PollsStop
<1> QED
  BY <1>2, <1>3, <1>4, <1>5

\* The steps of a poll up to its request.
LEMMA PollStepKeeps ==
  ASSUME ConnectionInv, NEW p \in Polls,
         ReadCredential(p) \/ UseValid(p) \/ JoinRenewal(p) \/ LeadRenewal(p) \/ ReadApp(p)
  PROVE  PollsShape' /\ TokenInv'
<1>0. PollsShape /\ TokenInv
  BY DEF ConnectionInv, HolderShape, PollsShape
<1>1. UNCHANGED <<store, issued, flow>> /\ lost \subseteq lost'
  BY DEF ReadCredential, UseValid, JoinRenewal, LeadRenewal, ReadApp
<1>2. CASE ReadCredential(p)
  <2> DEFINE r == [NoPolling EXCEPT !.stage = "held", !.grant = store.grant]
  <2>1. DOMAIN r = RenewalFields /\ r.stage = "held" /\ r.grant = store.grant
    BY IdleShape DEF RenewalFields
  <2>2. poll' = [poll EXCEPT ![p] = r] /\ poll[p].stage = "idle" /\ inFlight' = inFlight
        /\ HasGrant
    BY <1>2 DEF ReadCredential, Credential
  <2>3. store.grant \in Tokens /\ InUse(store.grant)
    BY <1>0, <2>2 DEF TokenInv, Known, HasGrant, InUse
  <2> HIDE DEF r
  <2>4. PollsShape' /\ poll'[p] = r /\ \A q \in Polls \ {p} : poll'[q] = poll[q]
    BY <1>0, <2>1, <2>2, PollSet
  <2>5. ~Renewing(p)'
    BY <2>1, <2>4 DEF Renewing
  <2> QED
    BY <1>1, <2>1, <2>2, <2>3, <2>4, <2>5, RenewalMoves
<1>3. CASE UseValid(p)
  <2>1. poll' = PollsEnd({p}) /\ poll[p].stage = "held" /\ inFlight' = inFlight
    BY <1>3 DEF UseValid
  <2>2. /\ PollsShape' /\ poll'[p].stage = "idle"
        /\ \A q \in Polls \ {p} : poll'[q] = poll[q]
    BY <1>0, <2>1, PollsStop
  <2> QED
    BY <1>1, <2>1, <2>2, RenewalMoves
<1>4. ASSUME NEW stage, poll' = [poll EXCEPT ![p].stage = stage]
      PROVE  /\ PollsShape' /\ poll'[p].stage = stage /\ poll'[p].grant = poll[p].grant
             /\ \A q \in Polls \ {p} : poll'[q] = poll[q]
  <2> DEFINE r == [poll[p] EXCEPT !.stage = stage]
  <2>1. DOMAIN r = RenewalFields /\ r.stage = stage /\ r.grant = poll[p].grant
    BY <1>0 DEF PollsShape, RenewalFields
  <2>2. poll' = [poll EXCEPT ![p] = r]
    BY <1>4
  <2> HIDE DEF r
  <2> QED
    BY <1>0, <2>1, <2>2, PollSet
<1>5. ASSUME poll[p].stage # "idle"
      PROVE  poll[p].grant \in Tokens /\ InUse(poll[p].grant)
  BY <1>0, <1>5 DEF TokenInv, Known, InUse
<1>6. CASE JoinRenewal(p)
  <2>1. /\ poll' = [poll EXCEPT ![p].stage = "wait"] /\ poll[p].stage = "held"
        /\ inFlight' = inFlight
    BY <1>6 DEF JoinRenewal
  <2>2. /\ PollsShape' /\ poll'[p].stage = "wait" /\ poll'[p].grant = poll[p].grant
        /\ \A q \in Polls \ {p} : poll'[q] = poll[q]
    BY <1>4, <2>1
  <2>3. ~Renewing(p)'
    BY <2>2 DEF Renewing
  <2> QED
    BY <1>1, <1>5, <2>1, <2>2, <2>3, RenewalMoves
<1>7. CASE LeadRenewal(p)
  <2>1. /\ poll' = [poll EXCEPT ![p].stage = "app"] /\ poll[p].stage = "held"
        /\ inFlight' = p /\ inFlight = None /\ Aged(poll[p].grant)
    BY <1>7 DEF LeadRenewal, Aged
  <2>2. /\ PollsShape' /\ poll'[p].stage = "app" /\ poll'[p].grant = poll[p].grant
        /\ \A q \in Polls \ {p} : poll'[q] = poll[q]
    BY <1>4, <2>1
  <2>3. \A q \in Polls : ~Renewing(q)
    BY <1>0, <2>1, LinearAssumption DEF TokenInv, OneRenewal
  <2> QED
    BY <1>1, <1>5, <2>1, <2>2, <2>3, RenewalMoves
<1>8. CASE ReadApp(p)
  <2>0. poll[p].stage = "app" /\ Renewing(p)
    BY <1>8 DEF ReadApp, Renewing
  <2>1. CASE ~Registered
    <3>1. Settle(p)
      BY <1>8, <2>1 DEF ReadApp
    <3>2. /\ PollsShape' /\ poll'[p].stage = "idle" /\ inFlight' = None
          /\ \A q \in Polls \ {p} :
               poll'[q] = poll[q] \/ (poll[q].stage = "wait" /\ poll'[q].stage = "idle")
          /\ \A q \in Polls : Renewing(q) => q = p
      BY <2>0, <3>1, Settling
    <3> QED
      BY <1>1, <2>0, <3>2, RenewalMoves
  <2>2. CASE Registered
    <3> DEFINE r == [poll[p] EXCEPT !.stage = "call", !.app = store.app]
    <3>1. DOMAIN r = RenewalFields /\ r.stage = "call" /\ r.grant = poll[p].grant
      BY <1>0 DEF PollsShape, RenewalFields
    <3>2. poll' = [poll EXCEPT ![p] = r] /\ inFlight' = inFlight
      BY <1>8, <2>2 DEF ReadApp
    <3> HIDE DEF r
    <3>3. PollsShape' /\ poll'[p] = r /\ \A q \in Polls \ {p} : poll'[q] = poll[q]
      BY <1>0, <3>1, <3>2, PollSet
    <3>4. inFlight = p /\ Aged(poll[p].grant)
      BY <1>0, <2>0 DEF TokenInv, OneRenewal
    <3> QED
      BY <1>1, <1>5, <2>0, <3>1, <3>2, <3>3, <3>4, RenewalMoves
  <2> QED
    BY <2>1, <2>2
<1> QED
  BY <1>2, <1>3, <1>6, <1>7, <1>8

\* What a renewal brings.
LEMMA RenewalBrings ==
  ASSUME IssuedShape, NEW g \in Tokens, NEW a, Renews(g, a), NEW u, u = Renewal(g, a)
  PROVE  Grown(g, u) \/ (SameTokens /\ u = Heir(g) /\ u # NoToken)
<1>1. CASE issued[g].type = "app"
  <2>1. Issue(a, "app") /\ u = Len(issued) + 1
    BY <1>1 DEF Renews, Renewal, NewToken
  <2> QED
    BY <2>1, Issuing
<1>2. CASE issued[g].type # "app" /\ Heir(g) = NoToken
  <2>1. u = Len(issued) + 1
    BY <1>2 DEF Renewal, NewToken, Heir
  <2> QED
    BY <1>2, <2>1, Spending
<1>3. CASE issued[g].type # "app" /\ Heir(g) # NoToken
  <2>1. UNCHANGED issued /\ u = Heir(g)
    BY <1>3 DEF Renews, Renewal, Heir
  <2> QED
    BY <1>3, <2>1, Untouched
<1> QED
  BY <1>1, <1>2, <1>3

\* The request, answered or lost.
LEMMA CallKeeps ==
  ASSUME ConnectionInv, NEW p \in Polls, CallLinear(p) \/ CallFails(p)
  PROVE  IssuedShape' /\ PollsShape' /\ TokenInv'
<1> DEFINE a == poll[p].app
<1>0. PICK g : g = poll[p].grant
  OBVIOUS
<1>1. /\ IssuedShape /\ TokenInv /\ PollsShape /\ poll[p].stage = "call" /\ Renewing(p)
      /\ UNCHANGED <<store, flow>>
  BY DEF ConnectionInv, HolderShape, PollsShape, CallLinear, CallFails, Renewing
<1>2. /\ inFlight = p /\ g \in Tokens /\ \A q \in Polls : Renewing(q) => q = p
  BY <1>0, <1>1, LeaderIsAlone
<1>3. \A t \in Tokens : Heir(t) # NoToken => Heir(t) \in Tokens
  BY <1>1 DEF TokenInv, Known
<1>4. Settle(p) =>
        /\ PollsShape' /\ poll'[p].stage = "idle"
        /\ \A q \in Polls \ {p} :
             poll'[q] = poll[q] \/ (poll[q].stage = "wait" /\ poll'[q].stage = "idle")
  BY <1>1, Settling
<1>5. ASSUME NEW u, u = Renewal(g, a), Renews(g, a), LinearAnswers(p, u)
      PROVE  IssuedShape' /\ TokenInv'
  <2>1. Grown(g, u) \/ (SameTokens /\ u = Heir(g) /\ u # NoToken)
    BY <1>1, <1>2, <1>5, RenewalBrings
  <2>2. IssuedShape'
    BY <2>1 DEF Grown, SameTokens
  <2>3. Grown(g, u) \/ (SameTokens /\ u \in Tokens /\ u = Heir(g))
    BY <1>2, <1>3, <2>1
  <2> QED
    BY <1>0, <1>1, <1>5, <2>2, <2>3, AnsweredKeeps
<1>6. ASSUME Settle(p), UNCHANGED issued, lost \subseteq lost'
      PROVE  IssuedShape' /\ PollsShape' /\ TokenInv'
  <2>1. IssuedShape'
    BY <1>1, <1>6, Untouched DEF SameTokens
  <2>2. TokenInv'
    BY <1>1, <1>2, <1>4, <1>6, RenewalMoves
  <2> QED
    BY <1>4, <1>6, <2>1, <2>2
<1>7. CASE CallLinear(p)
  <2>1. CASE Settle(p) /\ UNCHANGED issued
    BY <1>6, <1>7, <2>1 DEF CallLinear
  <2>2. CASE ~(Settle(p) /\ UNCHANGED issued)
    <3>0. PICK u : u = Renewal(g, a)
      OBVIOUS
    <3> DEFINE r == [poll[p] EXCEPT !.stage = "store", !.got = u]
    <3>1. /\ Renews(g, a) /\ inFlight' = inFlight /\ lost' = lost
          /\ poll' = [poll EXCEPT ![p] = r]
      BY <1>0, <1>7, <2>2, <3>0 DEF CallLinear
    <3>2. DOMAIN r = RenewalFields /\ r.stage = "store" /\ r.grant = g /\ r.got = u
      BY <1>0, <1>1 DEF PollsShape, RenewalFields
    <3> HIDE DEF r
    <3>3. PollsShape' /\ poll'[p] = r /\ \A q \in Polls \ {p} : poll'[q] = poll[q]
      BY <1>1, <3>1, <3>2, PollSet
    <3>4. LinearAnswers(p, u)
      BY <1>0, <1>1, <3>1, <3>2, <3>3 DEF LinearAnswers
    <3> QED
      BY <1>5, <3>0, <3>1, <3>3, <3>4
  <2> QED
    BY <2>1, <2>2
<1>8. CASE CallFails(p)
  <2>1. Settle(p)
    BY <1>8 DEF CallFails
  <2>2. CASE UNCHANGED <<issued, lost>>
    BY <1>6, <2>1, <2>2
  <2>3. CASE ~UNCHANGED <<issued, lost>>
    <3>0. PICK u : u = Renewal(g, a)
      OBVIOUS
    <3>1. Renews(g, a) /\ lost' = lost \cup {g}
      BY <1>0, <1>8, <2>3 DEF CallFails
    <3>2. LinearAnswers(p, u)
      BY <1>0, <1>1, <1>4, <2>1, <3>1 DEF LinearAnswers
    <3> QED
      BY <1>4, <1>5, <2>1, <3>0, <3>1, <3>2
  <2> QED
    BY <2>2, <2>3
<1> QED
  BY <1>7, <1>8

\* The write of what was renewed, done, refused or failed.
LEMMA StoreKeeps ==
  ASSUME ConnectionInv, NEW p \in Polls, StoreRenewal(p) \/ StoreFails(p)
  PROVE  PollsShape' /\ DOMAIN store' = StoreFields /\ TokenInv'
<1>0. IssuedShape /\ TokenInv /\ PollsShape /\ DOMAIN store = StoreFields
  BY DEF ConnectionInv, HolderShape, PollsShape
<1>1. /\ poll[p].stage = "store" /\ Renewing(p) /\ Settle(p) /\ UNCHANGED <<issued, flow>>
      /\ \/ lost' = lost \cup {poll[p].grant} /\ UNCHANGED store
         \/ lost' = lost /\ store' = [store EXCEPT !.grant = poll[p].got]
  BY DEF StoreRenewal, StoreFails, Renewing, StoreOAuthGrant
<1>2. /\ PollsShape' /\ poll'[p].stage = "idle"
      /\ \A q \in Polls \ {p} :
           poll'[q] = poll[q] \/ (poll[q].stage = "wait" /\ poll'[q].stage = "idle")
      /\ \A q \in Polls : Renewing(q) => q = p
  BY <1>1, Settling
<1>3. SameTokens /\ lost \subseteq lost'
  BY <1>0, <1>1, Untouched
<1>4. \A f \in Flow : Storing(f)' => Storing(f) /\ flow'[f].got = flow[f].got
  BY <1>1 DEF Storing
<1>5. /\ DOMAIN store' = StoreFields
      /\ store'.grant = poll[p].got \/ (store'.grant = store.grant /\ poll[p].grant \in lost')
  BY <1>0, <1>1 DEF StoreFields
<1>6. /\ poll[p].got \in Tokens /\ Heir(poll[p].got) = NoToken /\ InUse(poll[p].got)
      /\ \A f \in Flow : Storing(f) => flow[f].got # poll[p].got
  <2>1. poll[p].got \in Tokens /\ Heir(poll[p].got) = NoToken
    BY <1>0, <1>1 DEF TokenInv, OneRenewal
  <2>2. InUse(poll[p].got)
    BY <1>1 DEF InUse
  <2>3. \A f \in Flow : Storing(f) => ~InUse(flow[f].got)
    BY <1>0 DEF TokenInv, Handed
  <2> QED
    BY <2>1, <2>2, <2>3
<1>7. ASSUME NEW q \in Polls
      PROVE  /\ poll'[q].stage # "idle" => poll'[q].grant \in Tokens /\ InUse(poll'[q].grant)
             /\ poll'[q].stage # "store" /\ ~Renewing(q)'
             /\ poll[q].stage = "store" /\ poll[q].grant = store.grant /\ poll'[q].stage # "store"
                  => Heir(store.grant) = NoToken \/ store'.grant # store.grant \/ store.grant \in lost'
  <2>1. CASE q = p
    BY <1>2, <1>5, <1>6, <2>1 DEF Renewing
  <2>2. CASE q # p
    <3>1. ~Renewing(q) /\ poll[q].stage # "store"
      BY <1>2, <2>2 DEF Renewing
    <3>2. poll'[q].stage # "store" /\ ~Renewing(q)'
      BY <1>2, <2>2, <3>1 DEF Renewing
    <3>3. poll'[q].stage # "idle" => poll'[q].grant \in Tokens /\ InUse(poll'[q].grant)
      BY <1>0, <1>2, <2>2 DEF TokenInv, Known, InUse
    <3> QED
      BY <3>1, <3>2, <3>3
  <2> QED
    BY <2>1, <2>2
<1>8. \/ store'.grant = store.grant
      \/ /\ store'.grant \in Tokens /\ Heir(store'.grant) = NoToken
         /\ \A f \in Flow : Storing(f)' => flow'[f].got # store'.grant
  BY <1>4, <1>5, <1>6
<1>9. FewerUses
  BY <1>3, <1>4, <1>7, <1>8 DEF FewerUses
<1> QED
  BY <1>0, <1>2, <1>5, <1>9, FewerUsesKeep

-----------------------------------------------------------------------------
(* Flows.                                                                  *)

StoreShape == DOMAIN store = StoreFields

\* Setting one flow leaves the others alone.
LEMMA FlowSet ==
  ASSUME FlowsShape, NEW f \in Flow, NEW r, DOMAIN r = FlowFields, flow' = [flow EXCEPT ![f] = r]
  PROVE  FlowsShape' /\ flow'[f] = r /\ \A g \in Flow \ {f} : flow'[g] = flow[g]
BY DEF FlowsShape

\* A flow moves, and is not given a token.
FlowMoved(f) ==
  /\ FlowsShape' /\ ~Storing(f)'
  /\ \A g \in Flow \ {f} : flow'[g] = flow[g]

\* What a flow writes of itself, unless it is given a token.
LEMMA FlowMoves ==
  ASSUME FlowsShape, NEW f \in Flow
  PROVE  /\ EndFlow(f) => FlowMoved(f)
         /\ \A stage : stage # "store" /\ FlowTo(f, stage) => FlowMoved(f)
         /\ \A stage, a, t : stage # "store" /\ Hold(f, stage, a, t) => FlowMoved(f)
         /\ UNCHANGED flow /\ ~Storing(f) => FlowMoved(f)
<1>1. ASSUME EndFlow(f) PROVE FlowMoved(f)
  BY <1>1, IdleShape, FlowSet DEF EndFlow, FlowMoved, Storing
<1>2. ASSUME NEW stage, stage # "store", FlowTo(f, stage) PROVE FlowMoved(f)
  <2> DEFINE r == [flow[f] EXCEPT !.stage = stage]
  <2>1. DOMAIN r = FlowFields /\ r.stage = stage
    BY DEF FlowsShape, FlowFields
  <2>2. flow' = [flow EXCEPT ![f] = r]
    BY <1>2 DEF FlowTo
  <2> HIDE DEF r
  <2> QED
    BY <1>2, <2>1, <2>2, FlowSet DEF FlowMoved, Storing
<1>3. ASSUME NEW stage, stage # "store", NEW a, NEW t, Hold(f, stage, a, t)
      PROVE  FlowMoved(f)
  <2> DEFINE r == [stage |-> stage, app |-> a, got |-> t]
  <2>1. DOMAIN r = FlowFields /\ r.stage = stage
    BY DEF FlowFields
  <2>2. flow' = [flow EXCEPT ![f] = r]
    BY <1>3 DEF Hold
  <2> HIDE DEF r
  <2> QED
    BY <1>3, <2>1, <2>2, FlowSet DEF FlowMoved, Storing
<1>4. ASSUME UNCHANGED flow, ~Storing(f) PROVE FlowMoved(f)
  BY <1>4 DEF FlowMoved, FlowsShape, Storing
<1> QED
  BY <1>1, <1>2, <1>3, <1>4

\* The grant stays or goes.
Kept == StoreShape' /\ (store'.grant = store.grant \/ store'.grant = NoToken)

\* Writes of the application, the key or nothing keep or clear the grant.
LEMMA StoreKept ==
  ASSUME StoreShape
  PROVE  /\ UNCHANGED store => Kept
         /\ \A a : SetOAuthApp(a) => Kept
         /\ ClearOAuthGrant \/ ClearOAuthApp \/ SetProjectSecret \/ ClearProjectSecret => Kept
<1>1. UNCHANGED store => Kept
  BY DEF Kept, StoreShape
<1>2. ASSUME NEW a, SetOAuthApp(a) PROVE Kept
  <2> DEFINE g == IF store.app = a THEN store.grant ELSE NoToken
  <2>1. store' = [store EXCEPT !.app = a, !.grant = g]
    BY <1>2 DEF SetOAuthApp
  <2>2. g = store.grant \/ g = NoToken
    OBVIOUS
  <2> HIDE DEF g
  <2>3. DOMAIN store' = StoreFields /\ store'.grant = g
    BY <2>1 DEF StoreShape, StoreFields
  <2> QED
    BY <2>2, <2>3 DEF Kept, StoreShape
<1>3. ASSUME ClearOAuthGrant \/ ClearOAuthApp \/ SetProjectSecret \/ ClearProjectSecret PROVE Kept
  BY <1>3 DEF Kept, StoreShape, StoreFields, ClearOAuthGrant, ClearOAuthApp, SetProjectSecret, ClearProjectSecret
<1> QED
  BY <1>1, <1>2, <1>3

\* A flow that is given nothing keeps the invariant, also when it stores its token.
LEMMA FlowKeeps ==
  ASSUME IssuedShape, TokenInv, NEW f \in Flow, FlowMoved(f), SameTokens,
         UNCHANGED <<poll, inFlight, lost>>,
         \/ Kept
         \/ Storing(f) /\ store'.grant = flow[f].got
  PROVE  TokenInv'
<1>1. \A g \in Flow : Storing(g)' => g # f /\ Storing(g) /\ flow'[g].got = flow[g].got
  BY DEF FlowMoved, Storing
<1>2. \/ store'.grant = store.grant \/ store'.grant = NoToken
      \/ /\ store'.grant \in Tokens /\ Heir(store'.grant) = NoToken
         /\ \A g \in Flow : Storing(g)' => flow'[g].got # store'.grant
  <2>1. CASE Kept
    BY <2>1 DEF Kept
  <2>2. CASE Storing(f) /\ store'.grant = flow[f].got
    <3>1. flow[f].got \in Tokens /\ Heir(flow[f].got) = NoToken
      BY <2>2 DEF TokenInv, Known, Handed
    <3>2. \A g \in Flow : Storing(g) /\ flow[g].got = flow[f].got => g = f
      BY <2>2 DEF TokenInv, Handed
    <3> QED
      BY <1>1, <2>2, <3>1, <3>2
  <2> QED
    BY <2>1, <2>2
<1>3. ASSUME NEW q \in Polls
      PROVE  /\ poll'[q].stage # "idle" => poll'[q].grant \in Tokens /\ InUse(poll'[q].grant)
             /\ poll'[q].stage = "store" =>
                  poll[q].stage = "store" /\ poll'[q].grant = poll[q].grant /\ poll'[q].got = poll[q].got
             /\ Renewing(q)' => inFlight' = q /\ Aged(poll'[q].grant)
             /\ poll[q].stage = "store" /\ poll[q].grant = store.grant /\ poll'[q].stage # "store"
                  => Heir(store.grant) = NoToken \/ store'.grant # store.grant \/ store.grant \in lost'
  <2>1. poll[q].stage # "idle" => poll[q].grant \in Tokens /\ InUse(poll[q].grant)
    BY DEF TokenInv, Known, InUse
  <2>2. Renewing(q) => inFlight = q /\ Aged(poll[q].grant)
    BY DEF TokenInv, OneRenewal
  <2> QED
    BY <2>1, <2>2 DEF Renewing
<1>4. FewerUses
  BY <1>1, <1>2, <1>3 DEF FewerUses
<1> QED
  BY <1>4, FewerUsesKeep

\* The steps of the flows at which no token is issued.
LEMMA QuietFlows ==
  ASSUME ConnectionInv, NEW f \in Flow,
         \/ KeyStep(f) \/ DisconnectStep(f)
         \/ RegisterApp(f) \/ Callback(f) \/ StoreConnection(f) \/ RetireKey(f)
         \/ FlowFails(f) \/ StartConsent(f)
         \/ \E a \in App : PutApp(f, a) \/ ConnectCommand(f, a) \/ ConnectRequest(f, a) \/ ConsentCommand(f, a)
  PROVE  ConnectionInv'
<1>0. IssuedShape /\ TokenInv /\ PollsShape /\ FlowsShape /\ StoreShape
  BY DEF ConnectionInv, HolderShape, PollsShape, FlowsShape, StoreShape
<1>1. SUFFICES /\ FlowMoved(f) /\ SameTokens /\ UNCHANGED <<poll, inFlight, lost>>
               /\ Kept \/ (StoreShape' /\ Storing(f) /\ store'.grant = flow[f].got)
  <2>1. ASSUME FlowMoved(f) /\ SameTokens /\ UNCHANGED <<poll, inFlight, lost>>,
               Kept \/ (StoreShape' /\ Storing(f) /\ store'.grant = flow[f].got)
        PROVE  ConnectionInv'
    <3>1. TokenInv'
      BY <1>0, <2>1, FlowKeeps
    <3>2. IssuedShape' /\ FlowsShape' /\ StoreShape' /\ PollsShape'
      BY <1>0, <2>1 DEF SameTokens, FlowMoved, Kept, PollsShape
    <3> QED
      BY <3>1, <3>2 DEF ConnectionInv, HolderShape, PollsShape, FlowsShape, StoreShape
  <2> QED
    BY <2>1
<1>2. UNCHANGED issued => SameTokens
  BY <1>0, Untouched
<1>3. /\ UNCHANGED store => Kept
      /\ \A a : SetOAuthApp(a) => Kept
      /\ ClearOAuthGrant \/ ClearOAuthApp \/ SetProjectSecret \/ ClearProjectSecret => Kept
  BY <1>0, StoreKept
<1>4. ASSUME NEW stage, flow[f].stage = stage, stage # "store", UNCHANGED flow PROVE FlowMoved(f)
  BY <1>0, <1>4, FlowMoves DEF Storing
<1>5. CASE KeyStep(f)
  BY <1>0, <1>2, <1>3, <1>4, <1>5, FlowMoves
     DEF KeyStep, AskForKey, StoreKey, PutSecret, DeleteSecret, FlowAt
<1>6. CASE \E keep \in BOOLEAN : BeginDisconnect(f, keep)
  <2>1. PICK keep \in BOOLEAN : BeginDisconnect(f, keep)
    BY <1>6
  <2> DEFINE stage == IF HasGrant THEN "revoke" ELSE IF keep THEN "drop" ELSE "forget"
             a == IF keep THEN store.app ELSE None
  <2>2. Hold(f, stage, a, store.grant) /\ UNCHANGED <<store, issued, poll, inFlight, lost>>
    BY <2>1 DEF BeginDisconnect
  <2>3. stage # "store"
    OBVIOUS
  <2> HIDE DEF stage, a
  <2> QED
    BY <1>0, <1>2, <1>3, <2>2, <2>3, FlowMoves
<1>7. CASE Revoke(f)
  <2> DEFINE stage == IF flow[f].app # None THEN "drop" ELSE "forget"
             t == flow[f].got
  <2>1. /\ RevokeToken(t) \/ UNCHANGED issued
        /\ FlowTo(f, stage) /\ UNCHANGED <<store, poll, inFlight, lost>>
    BY <1>7 DEF Revoke
  <2>2. stage # "store"
    OBVIOUS
  <2> HIDE DEF stage
  <2>3. FlowMoved(f)
    BY <1>0, <2>1, <2>2, FlowMoves
  <2>4. ASSUME RevokeToken(t) PROVE SameTokens
    <3>0. PICK u : u = t
      OBVIOUS
    <3>1. CASE u \in Tokens
      <4> DEFINE r == [issued[u] EXCEPT !.revoked = TRUE]
      <4>1. issued' = [issued EXCEPT ![u] = r]
        BY <2>4, <3>0 DEF RevokeToken
      <4>2. /\ DOMAIN r = TokenFields /\ r.next = Heir(u) /\ r.aged = Aged(u) /\ r.lapsed = Lapsed(u)
            /\ r.revoked
        BY <1>0, <3>1 DEF IssuedShape, TokenFields, Heir, Aged, Lapsed
      <4> HIDE DEF r
      <4>3. /\ IssuedShape' /\ Tokens' = Tokens /\ issued'[u] = r
            /\ \A w \in Tokens \ {u} : issued'[w] = issued[w]
        BY <1>0, <3>1, <4>1, <4>2, FlagFields
      <4>4. Heir(u)' = Heir(u) /\ Aged(u)' = Aged(u) /\ Lapsed(u)' = Lapsed(u) /\ Revoked(u)'
        BY <4>2, <4>3 DEF Heir, Aged, Lapsed, Revoked
      <4>5. \A w \in Tokens \ {u} :
              Heir(w)' = Heir(w) /\ Aged(w)' = Aged(w) /\ Lapsed(w)' = Lapsed(w) /\ Revoked(w)' = Revoked(w)
        BY <4>3 DEF Heir, Aged, Lapsed, Revoked
      <4> QED
        BY <4>3, <4>4, <4>5 DEF SameTokens
    <3>2. CASE u \notin Tokens
      <4>1. DOMAIN issued = Tokens /\ \E S : issued \in Seq(S)
        BY <1>0 DEF IssuedShape, Tokens
      <4>2. UNCHANGED issued
        BY <2>4, <3>0, <3>2, <4>1 DEF RevokeToken
      <4> QED
        BY <1>2, <4>2
    <3> QED
      BY <3>1, <3>2
  <2> QED
    BY <1>2, <1>3, <2>1, <2>3, <2>4
<1>8. CASE Forget(f)
  BY <1>0, <1>2, <1>3, <1>8, FlowMoves DEF Forget
<1>9. CASE StoreConnection(f)
  <2>1. CASE EndFlow(f) /\ UNCHANGED store
    BY <1>0, <1>2, <1>3, <1>9, <2>1, FlowMoves DEF StoreConnection
  <2>2. CASE ~(EndFlow(f) /\ UNCHANGED store)
    <3>1. /\ Storing(f) /\ store' = [store EXCEPT !.grant = flow[f].got] /\ FlowTo(f, "retire")
          /\ UNCHANGED <<issued, poll, inFlight, lost>>
      BY <1>9, <2>2 DEF StoreConnection, StoreOAuthGrant, Storing, FlowAt
    <3>2. StoreShape' /\ store'.grant = flow[f].got
      BY <1>0, <3>1 DEF StoreShape, StoreFields
    <3> QED
      BY <1>0, <1>2, <3>1, <3>2, FlowMoves
  <2> QED
    BY <2>1, <2>2
<1>10. CASE RegisterApp(f) \/ RetireKey(f) \/ FlowFails(f) \/ Callback(f) \/ StartConsent(f)
  BY <1>0, <1>2, <1>3, <1>10, FlowMoves DEF RegisterApp, RetireKey, FlowFails, Callback, StartConsent
<1>11. ASSUME NEW a \in App,
              PutApp(f, a) \/ ConnectCommand(f, a) \/ ConnectRequest(f, a) \/ ConsentCommand(f, a)
       PROVE  /\ FlowMoved(f) /\ SameTokens /\ UNCHANGED <<poll, inFlight, lost>>
              /\ Kept
  BY <1>0, <1>2, <1>3, <1>4, <1>11, FlowMoves
     DEF PutApp, ConnectCommand, ConnectRequest, ConsentCommand, FlowAt
<1> QED
  BY <1>5, <1>6, <1>7, <1>8, <1>9, <1>10, <1>11 DEF DisconnectStep

\* The two at which one is.
LEMMA GivenFlows ==
  ASSUME ConnectionInv, NEW f \in Flow, MintAppToken(f) \/ ExchangeCode(f)
  PROVE  ConnectionInv'
<1>0. IssuedShape /\ TokenInv /\ PollsShape /\ FlowsShape /\ StoreShape
  BY DEF ConnectionInv, HolderShape, PollsShape, FlowsShape, StoreShape
<1>1. PICK n : n = Len(issued) + 1
  OBVIOUS
<1> DEFINE r == [stage |-> "store", app |-> flow[f].app, got |-> n]
<1>2. PICK type : Issue(flow[f].app, type)
  BY DEF MintAppToken, ExchangeCode
<1>3. flow' = [flow EXCEPT ![f] = r] /\ UNCHANGED <<store, poll, inFlight, lost>>
  BY <1>1 DEF MintAppToken, ExchangeCode, Hold, NewToken
<1>4. DOMAIN r = FlowFields /\ r.got = n
  BY DEF FlowFields
<1> HIDE DEF r
<1>5. FlowsShape' /\ flow'[f] = r /\ \A g \in Flow \ {f} : flow'[g] = flow[g]
  BY <1>0, <1>3, <1>4, FlowSet
<1>6. Grown(NoToken, n)
  BY <1>0, <1>1, <1>2, Issuing
<1>7. TokenInv'
  BY <1>0, <1>3, <1>4, <1>5, <1>6, GivenKeeps
<1>8. IssuedShape' /\ PollsShape' /\ StoreShape'
  BY <1>0, <1>3, <1>6 DEF Grown, PollsShape, StoreShape
<1> QED
  BY <1>5, <1>7, <1>8 DEF ConnectionInv, HolderShape, PollsShape, FlowsShape, StoreShape

-----------------------------------------------------------------------------
(* Restarts and time.                                                      *)

\* After a restart nothing is in use but the stored grant, and what was to be
\* recorded is lost.
LEMMA RestartKeeps == ASSUME ConnectionInv, LinearRestart PROVE ConnectionInv'
<1>0. IssuedShape /\ TokenInv /\ StoreShape
  BY DEF ConnectionInv, HolderShape, StoreShape
<1>1. /\ poll' = [p \in Polls |-> NoPolling] /\ flow' = [f \in Flow |-> NoFlow]
      /\ lost' = lost \cup {poll[p].grant : p \in {q \in Polls : poll[q].stage = "store"}}
      /\ UNCHANGED <<store, issued>>
  BY DEF LinearRestart
<1>2. /\ PollsShape' /\ \A p \in Polls : poll'[p].stage = "idle"
      /\ FlowsShape' /\ \A f \in Flow : flow'[f].stage = "idle"
  BY <1>1, IdleShape DEF PollsShape, FlowsShape
<1>3. SameTokens
  BY <1>0, <1>1, Untouched
<1>4. \A p \in Polls : poll[p].stage = "store" => poll[p].grant \in lost'
  BY <1>1
<1>5. FewerUses
  BY <1>1, <1>2, <1>3, <1>4 DEF FewerUses, Renewing, Storing
<1>6. TokenInv'
  BY <1>0, <1>5, FewerUsesKeep
<1>7. IssuedShape' /\ StoreShape'
  BY <1>0, <1>1, <1>3 DEF SameTokens, StoreShape
<1> QED
  BY <1>2, <1>6, <1>7 DEF ConnectionInv, HolderShape, PollsShape, FlowsShape, StoreShape

\* Ageing and lapsing of the stored grant.
LEMMA TimeKeeps ==
  ASSUME ConnectionInv, NEW t \in Tokens, AccessTokenAges(t) \/ ReplayLapses(t)
  PROVE  ConnectionInv'
<1>0. IssuedShape /\ TokenInv /\ HolderShape
  BY DEF ConnectionInv
<1>1. PICK r : /\ issued' = [issued EXCEPT ![t] = r]
               /\ r = [issued[t] EXCEPT !.aged = TRUE]
                  \/ (r = [issued[t] EXCEPT !.lapsed = TRUE] /\ Heir(t) # NoToken)
  <2>1. CASE AccessTokenAges(t)
    BY <2>1 DEF AccessTokenAges
  <2>2. CASE ReplayLapses(t)
    BY <2>2 DEF ReplayLapses, Heir
  <2> QED
    BY <2>1, <2>2
<1>2. Quiet /\ t = store.grant /\ UNCHANGED <<store, poll, inFlight, flow, lost>>
  BY DEF AccessTokenAges, ReplayLapses
<1>3. /\ DOMAIN r = TokenFields /\ r.next = Heir(t) /\ r.revoked = Revoked(t)
      /\ r.lapsed = Lapsed(t) \/ Heir(t) # NoToken
  BY <1>0, <1>1 DEF IssuedShape, TokenFields, Heir, Lapsed, Revoked
<1>4. /\ IssuedShape' /\ Tokens' = Tokens /\ issued'[t] = r
      /\ \A u \in Tokens \ {t} : issued'[u] = issued[u]
  BY <1>0, <1>1, <1>3, FlagFields
<1>5. Heir(t)' = Heir(t) /\ Revoked(t)' = Revoked(t) /\ (Lapsed(t)' = Lapsed(t) \/ Heir(t) # NoToken)
  BY <1>3, <1>4 DEF Heir, Revoked, Lapsed
<1>6. \A u \in Tokens \ {t} :
         Heir(u)' = Heir(u) /\ Aged(u)' = Aged(u) /\ Lapsed(u)' = Lapsed(u) /\ Revoked(u)' = Revoked(u)
  BY <1>4 DEF Heir, Aged, Lapsed, Revoked
<1>7. TokenInv'
  BY <1>0, <1>2, <1>4, <1>5, <1>6, FlaggedKeeps
<1>8. HolderShape'
  BY <1>0, <1>2 DEF HolderShape
<1> QED
  BY <1>4, <1>7, <1>8 DEF ConnectionInv

\* Every step keeps the invariant.
LEMMA ConnectionStep == ASSUME ConnectionInv, [LinearNext]_linearVars PROVE ConnectionInv'
<1>0. IssuedShape /\ TokenInv /\ HolderShape
  BY DEF ConnectionInv
<1>1. ASSUME NEW p \in Polls, PollingStep(p) \/ CallFails(p) \/ StoreFails(p)
      PROVE  ConnectionInv'
  <2>1. FlowsShape' /\ UNCHANGED flow
    BY <1>0, <1>1 DEF FlowsShape, HolderShape, PollingStep, CallFails, StoreFails, ReadCredential, UseValid,
         JoinRenewal, LeadRenewal, ReadApp, CallLinear, StoreRenewal
  <2>2. CASE StoreRenewal(p) \/ StoreFails(p)
    <3>1. IssuedShape'
      BY <1>0, <2>2, Untouched DEF StoreRenewal, StoreFails, SameTokens
    <3> QED
      BY <2>1, <2>2, <3>1, StoreKeeps DEF ConnectionInv, HolderShape, PollsShape, FlowsShape
  <2>3. CASE CallLinear(p) \/ CallFails(p)
    <3>1. StoreShape'
      BY <1>0, <2>3 DEF CallLinear, CallFails, StoreShape, HolderShape
    <3> QED
      BY <2>1, <2>3, <3>1, CallKeeps DEF ConnectionInv, HolderShape, PollsShape, FlowsShape, StoreShape
  <2>4. CASE ReadCredential(p) \/ UseValid(p) \/ JoinRenewal(p) \/ LeadRenewal(p) \/ ReadApp(p)
    <3>1. UNCHANGED <<store, issued>>
      BY <2>4 DEF ReadCredential, UseValid, JoinRenewal, LeadRenewal, ReadApp
    <3>2. StoreShape' /\ IssuedShape'
      BY <1>0, <3>1, Untouched DEF StoreShape, HolderShape, SameTokens
    <3> QED
      BY <2>1, <2>4, <3>2, PollStepKeeps DEF ConnectionInv, HolderShape, PollsShape, FlowsShape, StoreShape
  <2> QED
    BY <1>1, <2>2, <2>3, <2>4 DEF PollingStep
<1>2. ASSUME NEW f \in Flow, KeyStep(f) \/ ConnectStep(f) \/ DisconnectStep(f)
      PROVE  ConnectionInv'
  BY <1>2, QuietFlows, GivenFlows DEF ConnectStep
<1>3. ASSUME NEW t \in 1 .. Len(issued), AccessTokenAges(t) \/ ReplayLapses(t)
      PROVE  ConnectionInv'
  BY <1>3, TimeKeeps DEF Tokens
<1>4. CASE UNCHANGED linearVars
  BY <1>0, <1>4 DEF linearVars, ConnectionInv, IssuedShape, HolderShape, TokenInv, Known, Lapsing,
     OneRenewal, Heirs, Handed, Recording, Tokens, Heir, Aged, Lapsed, Revoked, Gone, Renewing, Storing, InUse
<1> QED
  BY <1>1, <1>2, <1>3, <1>4, RestartKeeps DEF LinearNext

\* The invariant gives the property.
LEMMA StoredRenews == ASSUME ConnectionInv PROVE StoredGrantRenews
<1> DEFINE t == store.grant
<1> SUFFICES ASSUME HasGrant, issued[t].client = store.app, ~Honoured(t, store.app)
             PROVE  Strandable(t)
  BY DEF StoredGrantRenews
<1>1. t \in Tokens
  BY DEF ConnectionInv, TokenInv, Known, HasGrant
<1>2. Revoked(t) \/ Lapsed(t)
  BY DEF Honoured, Revoked, Lapsed
<1>3. Lapsed(t) => Revoked(t) \/ t \in lost
  BY <1>1 DEF ConnectionInv, TokenInv, Lapsing, Gone
<1> QED
  BY <1>2, <1>3 DEF Strandable, Revoked, Lapsed

\* The grant in the store can be renewed unless it was revoked, or an answer, a
\* write or a process was lost and its replay window ran out: for any number of
\* polls that overlap and any flows that connect and disconnect meanwhile
\* (linear-grant.ts, usableGrant and refreshOnce).
THEOREM GrantsRenew == LinearSpec => []StoredGrantRenews
<1> QED
  BY ConnectionInitially, ConnectionStep, StoredRenews, PTL DEF LinearSpec
=============================================================================
