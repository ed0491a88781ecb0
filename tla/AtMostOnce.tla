------------------------------ MODULE AtMostOnce ------------------------------
(***************************************************************************)
(* What the foreman's triggers promise of a piece of work - an occurrence  *)
(* of a schedule, a ticket of a source: it is claimed before it is acted   *)
(* on, claimed once, and starts at most one cycle run.  A claim that comes *)
(* to nothing, because the start threw or the process died, is not given   *)
(* back.                                                                   *)
(***************************************************************************)
EXTENDS Naturals

CONSTANT Work

VARIABLES
  claimed,   \* the work somebody won
  runs       \* runs[w]: cycle runs started for w

Init ==
  /\ claimed = {}
  /\ runs = [w \in Work |-> 0]

Claim(w) ==
  /\ w \notin claimed
  /\ claimed' = claimed \cup {w}
  /\ UNCHANGED runs

Run(w) ==
  /\ w \in claimed
  /\ runs[w] = 0
  /\ runs' = [runs EXCEPT ![w] = 1]
  /\ UNCHANGED claimed

Next == \E w \in Work : Claim(w) \/ Run(w)

Spec == Init /\ [][Next]_<<claimed, runs>>
=============================================================================
