---------------------------- MODULE CycleContract ----------------------------
(***************************************************************************)
(* What a cycle run promises whoever reads it, with none of the machinery: *)
(* no polls, no walks, no sweep, no network.  Nodes come to an end, with a *)
(* run or without one; a run is opened only behind dependencies that have  *)
(* ended and is decided once; when every node has ended the cycle run is   *)
(* graded, once, with a grade the decided runs bear out.  Foreman          *)
(* implements it (RefinesContract there).                                  *)
(***************************************************************************)
EXTENDS Naturals

CONSTANTS Node, Edge, Run, RunOutcomes, Grades

VARIABLES
  grade,      \* "none" before the trigger, "running", then the grade
  verdict,    \* per run: "absent", "open", then its outcome
  ended       \* nodes that have come to an end

vars == <<grade, verdict, ended>>

Succeeded(r) == verdict[r] \in {"approved", "dispatched"}

Begin ==
  /\ grade = "none"
  /\ grade' = "running"
  /\ \E refused \in SUBSET Node : ended' = refused
  /\ UNCHANGED verdict

Open(r) ==
  /\ verdict[r] = "absent"
  /\ \A e \in Edge : e.to = r[1] => e.from \in ended
  /\ verdict' = [verdict EXCEPT ![r] = "open"]
  /\ UNCHANGED <<grade, ended>>

Decide(r, o) ==
  /\ verdict[r] = "open"
  /\ verdict' = [verdict EXCEPT ![r] = o]
  /\ ended' = ended \cup {r[1]}
  /\ UNCHANGED grade

EndWithoutRun(n) ==
  /\ ended' = ended \cup {n}
  /\ UNCHANGED <<grade, verdict>>

Earned(g) ==
  /\ ended = Node
  /\ g = "complete" => \A n \in Node : \E r \in Run : r[1] = n /\ Succeeded(r)
  /\ g = "declined" => \E r \in Run : verdict[r] = "declined"

Grade(g) ==
  /\ grade = "running"
  /\ Earned(g)
  /\ grade' = g
  /\ UNCHANGED <<verdict, ended>>

Init ==
  /\ grade = "none"
  /\ verdict = [r \in Run |-> "absent"]
  /\ ended = {}

Next ==
  \/ Begin
  \/ \E r \in Run : Open(r) \/ \E o \in RunOutcomes : Decide(r, o)
  \/ \E n \in Node : EndWithoutRun(n)
  \/ \E g \in Grades : Grade(g)

Spec == Init /\ [][Next]_vars
=============================================================================
