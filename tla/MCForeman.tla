------------------------------ MODULE MCForeman ------------------------------
(***************************************************************************)
(* Instances of Foreman for TLC: the two graph shapes the code is written   *)
(* for, with the reports worth telling apart.                               *)
(***************************************************************************)
EXTENDS Foreman, TLC

CONSTANTS m1, m2, a, b, t

\* The triage fan-in that `workers: [...]` plus `then:` expands to.
FanInNode == {a, b, t}
FanInEdge ==
  {[from |-> a, to |-> t, onDepFailure |-> "degrade"],
   [from |-> b, to |-> t, onDepFailure |-> "degrade"]}

\* The ticket pipeline of ADR-0015, its first edge left at degrade: what
\* `workers: [scope], then: plan` expands to.
ChainNode == {"scope", "plan", "implement"}
ChainEdge ==
  {[from |-> "scope", to |-> "plan", onDepFailure |-> "degrade"],
   [from |-> "plan", to |-> "implement", onDepFailure |-> "block"]}

\* A reviewer and the triage behind it.
PairNode == {a, t}
PairEdge == {[from |-> a, to |-> t, onDepFailure |-> "degrade"]}

\* Two reviewers of one fan-in are interchangeable, and so are two machines.
Reviewers == Permutations({a, b})
Machines == Permutations({m1, m2})

NoEdge == {}

Rep(o, gate, found, change) ==
  [outcome |-> o, gateFailed |-> gate, found |-> found, change |-> change]

Approved == Rep("approved", FALSE, FALSE, FALSE)
Found == Rep("approved", FALSE, TRUE, FALSE)
Declined == Rep("declined", FALSE, FALSE, FALSE)
DeclinedRed == Rep("declined", TRUE, FALSE, FALSE)
Dispatched == Rep("dispatched", FALSE, FALSE, TRUE)
DispatchedRed == Rep("dispatched", TRUE, FALSE, TRUE)

OneReport == {Approved}
DeclinedOnly == {Declined}
ReviewReports == {Found, Declined}
ModifierReports == {Dispatched, DispatchedRed}
SomeReports == {Approved, Declined, DispatchedRed}

EveryNode == [m \in Runner |-> Node]

NoFailures == [n \in Node |-> 0]
OneFailure == [n \in Node |-> IF n = a THEN 1 ELSE 0]
=============================================================================
