---------------------------- MODULE RunnerProof -----------------------------
(***************************************************************************)
(* What a job reports, publishes and shows on its runner: patches are the  *)
(* agent's and judged, nothing is published that was not recorded, events  *)
(* reach the database. For every order, budget and number of runs.         *)
(***************************************************************************)
EXTENDS Rounds, Publish, RunEvents, SequenceTheorems, FiniteSetTheorems, TLAPS

-----------------------------------------------------------------------------
(* The rounds of one run (pipeline.ts, retry.ts).                          *)

\* What a gate's command leaves in the tree is a tree ...
LEMMA LooseUpdates ==
  ASSUME NEW t \in Trees, NEW b \in SUBSET Kinds, NEW l \in SUBSET Loose
  PROVE  /\ [t EXCEPT !.loose = l] \in Trees
         /\ [t EXCEPT !.loose = l].work = t.work
         /\ [t EXCEPT !.loose = l].suite = t.suite
         /\ [t EXCEPT !.loose = l].loose = l
         /\ [t EXCEPT !.loose = l, !.suite = b] \in Trees
         /\ [t EXCEPT !.loose = l, !.suite = b].work = t.work
         /\ [t EXCEPT !.loose = l, !.suite = b].suite = b
         /\ [t EXCEPT !.loose = l, !.suite = b].loose = l
BY DEF Trees

\* ... and so is what the agent makes of it.
LEMMA WorkUpdates ==
  ASSUME NEW t \in Trees, NEW n \in 0 .. MaxRounds, NEW b \in {"no", "rewritten", "oversize"}
  PROVE  /\ [t EXCEPT !.work = n, !.broken = b] \in Trees
         /\ [t EXCEPT !.work = n, !.broken = b].suite = t.suite
         /\ [t EXCEPT !.work = n, !.broken = b].loose = t.loose
BY DEF Trees

LEMMA ResetUpdates ==
  ASSUME NEW t \in Trees
  PROVE  /\ [t EXCEPT !.work = 0] \in Trees
         /\ [t EXCEPT !.work = 0].suite = t.suite
         /\ [t EXCEPT !.work = 0].loose = t.loose
         /\ [t EXCEPT !.work = 0, !.suite = {}] \in Trees
         /\ [t EXCEPT !.work = 0, !.suite = {}].suite = {}
         /\ [t EXCEPT !.work = 0, !.suite = {}].loose = t.loose
<1>1. 0 \in 0 .. MaxRounds
  BY RoundsAssumption
<1>2. {} \in SUBSET Kinds
  OBVIOUS
<1> QED
  BY <1>1, <1>2 DEF Trees

\* What is committed leaves the loose files for the patch; only ignored ones may stay.
LEMMA CommittedTree ==
  ASSUME NEW t \in Trees, NEW added \in Added(t)
  PROVE  /\ Committed(t, added) \in Trees
         /\ Committed(t, added).work = t.work
         /\ Committed(t, added).suite = t.suite \cup added
         /\ Committed(t, added).loose = t.loose \ added
         /\ added \subseteq t.loose /\ t.loose \ added \subseteq {"ignored"}
<1>1. added \subseteq t.loose /\ t.loose \ added \subseteq {"ignored"}
  BY DEF Added
<1>2. t.suite \cup added \in SUBSET Kinds /\ t.loose \ added \in SUBSET Loose
  BY <1>1 DEF Trees, Kinds
<1>3. PICK b, l : b = t.suite \cup added /\ l = t.loose \ added
  OBVIOUS
<1>4. b \in SUBSET Kinds /\ l \in SUBSET Loose
  BY <1>2, <1>3
<1>5. Committed(t, added) = [t EXCEPT !.suite = b, !.loose = l]
  BY <1>3, Zenon DEF Committed
<1>6. /\ [t EXCEPT !.suite = b, !.loose = l] \in Trees
      /\ [t EXCEPT !.suite = b, !.loose = l].suite = b
      /\ [t EXCEPT !.suite = b, !.loose = l].loose = l
      /\ [t EXCEPT !.suite = b, !.loose = l].work = t.work
  BY <1>4 DEF Trees
<1>7. /\ Committed(t, added) \in Trees
      /\ Committed(t, added).suite = b
      /\ Committed(t, added).loose = l
      /\ Committed(t, added).work = t.work
  BY <1>5, <1>6, Zenon
<1> QED
  BY <1>1, <1>3, <1>7

\* A measure that is set leaves the other two alone.
LEMMA SpentUpdates ==
  ASSUME NEW s \in Spendings, NEW m \in Measures
  PROVE  /\ [s EXCEPT !.tests = m] \in Spendings
         /\ [s EXCEPT !.tests = m].tests = m
         /\ [s EXCEPT !.tests = m].image = s.image
         /\ [s EXCEPT !.tests = m].review = s.review
         /\ [s EXCEPT !.review = m] \in Spendings
         /\ [s EXCEPT !.review = m].tests = s.tests
         /\ [s EXCEPT !.review = m].image = s.image
         /\ [s EXCEPT !.image = m] \in Spendings
         /\ [s EXCEPT !.image = m].image = m
         /\ [s EXCEPT !.image = m].tests = s.tests
         /\ [s EXCEPT !.image = m].review = s.review
BY DEF Spendings

\* What a gate reserves is a natural number.
LEMMA ReserveType ==
  ASSUME NEW v \in Spendings
  PROVE  /\ v.tests.took \in Nat /\ v.review.took \in Nat /\ v.image.took \in Nat
         /\ v.tests \in Measures /\ v.image \in Measures /\ v.review \in Measures
         /\ Share(v) \in Nat /\ Reserve(v) \in Nat
<1>1. v.tests \in Measures /\ v.image \in Measures /\ v.review \in Measures
  BY DEF Spendings
<1>2. \A m \in Measures : m.took \in Nat
  BY RoundsAssumption DEF Measures
<1>3. v.tests.took \in Nat /\ v.review.took \in Nat /\ v.image.took \in Nat
  BY <1>1, <1>2
<1> QED
  BY <1>1, <1>3 DEF Share, Reserve

\* What Took, NotRun and NothingSpent are.
LEMMA MeasureShapes ==
  /\ \A ran \in BOOLEAN, took \in 0 .. Timeout :
       /\ Took(ran, took) \in Measures
       /\ Took(ran, took).took = took
       /\ Took(ran, took).ran = ran
  /\ Unmeasured \in 0 .. Timeout
  /\ NotRun \in Measures /\ NothingSpent \in Spendings
<1>1. \A ran \in BOOLEAN, took \in 0 .. Timeout :
        /\ Took(ran, took) \in Measures
        /\ Took(ran, took).took = took
        /\ Took(ran, took).ran = ran
  BY DEF Took, Measures
<1>2. Unmeasured \in 0 .. Timeout
  BY RoundsAssumption DEF Unmeasured
<1>3. NotRun \in Measures
  BY <1>1, <1>2 DEF NotRun
<1> QED
  BY <1>1, <1>2, <1>3 DEF NothingSpent, Spendings

\* What a worker's definition and its project make of a job.
Orders ==
  [permissions : {"reviewer", "modifier"}, sandbox : {"container", "worktree"},
   downgradable : BOOLEAN, bootstrap : BOOLEAN, testCommand : BOOLEAN,
   defaults : BOOLEAN, expectation : BOOLEAN, review : BOOLEAN]

\* A modifier's gate: the two readings of the patch, the suite in one shape or the other, and
\* then what the worker and the project added.
LEMMA LensesShape ==
  ASSUME order \in Orders
  PROVE  /\ Lenses \in Seq(LensNames)
         /\ Modifier =>
              /\ Len(Lenses) >= 3
              /\ Lenses[1] = "commit-message" /\ Lenses[2] = "self-gating"
              /\ Lenses[3] = IF order.bootstrap THEN "project-image" ELSE "tests"
              /\ \A k \in 4 .. Len(Lenses) : Lenses[k] \in {"expectation", "review"}
              /\ ~order.expectation =>
                   Len(Lenses) =< 4 /\ \A k \in 4 .. Len(Lenses) : Lenses[k] = "review" /\ order.review
<1> DEFINE base ==
             IF Modifier
             THEN <<"commit-message", "self-gating",
                    IF order.bootstrap THEN "project-image" ELSE "tests">>
             ELSE IF order.defaults THEN <<"schema", "grounded">> ELSE <<>>
           own == IF order.expectation THEN <<"expectation">> ELSE <<>>
           look == IF order.review THEN <<"review">> ELSE <<>>
<1>1. /\ base \in Seq(LensNames) /\ Len(base) \in Nat
      /\ Modifier =>
           /\ Len(base) = 3 /\ base[1] = "commit-message" /\ base[2] = "self-gating"
           /\ base[3] = IF order.bootstrap THEN "project-image" ELSE "tests"
  <2>1. CASE Modifier
    <3> DEFINE third == IF order.bootstrap THEN "project-image" ELSE "tests"
    <3>1. third \in LensNames
      BY DEF LensNames
    <3> HIDE DEF third
    <3>2. <<"commit-message", "self-gating", third>> \in Seq(LensNames)
      BY <3>1 DEF LensNames
    <3>3. base = <<"commit-message", "self-gating", third>>
      BY <2>1 DEF third
    <3>4. Len(<<"commit-message", "self-gating", third>>) = 3
      OBVIOUS
    <3>5. base[1] = "commit-message" /\ base[2] = "self-gating" /\ base[3] = third
      BY <3>3
    <3> QED
      BY <3>2, <3>3, <3>4, <3>5 DEF third
  <2>2. CASE ~Modifier /\ order.defaults
    <3>1. base = <<"schema", "grounded">>
      BY <2>2
    <3>2. <<"schema", "grounded">> \in Seq(LensNames) /\ Len(<<"schema", "grounded">>) = 2
      BY DEF LensNames
    <3> QED
      BY <2>2, <3>1, <3>2
  <2>3. CASE ~Modifier /\ ~order.defaults
    <3>1. base = <<>>
      BY <2>3
    <3> QED
      BY <2>3, <3>1, EmptySeq
  <2> QED
    BY <2>1, <2>2, <2>3
<1>2. /\ own \in Seq(LensNames) /\ Len(own) \in 0 .. 1
      /\ \A k \in 1 .. Len(own) : own[k] = "expectation"
      /\ ~order.expectation => Len(own) = 0
  <2>1. CASE order.expectation
    <3>1. own = <<"expectation">>
      BY <2>1
    <3>2. <<"expectation">> \in Seq(LensNames) /\ Len(<<"expectation">>) = 1
            /\ <<"expectation">>[1] = "expectation"
      BY DEF LensNames
    <3> QED
      BY <2>1, <3>1, <3>2
  <2>2. CASE ~order.expectation
    <3>1. own = <<>>
      BY <2>2
    <3> QED
      BY <2>2, <3>1, EmptySeq
  <2> QED
    BY <2>1, <2>2
<1>3. /\ look \in Seq(LensNames) /\ Len(look) \in 0 .. 1
      /\ \A k \in 1 .. Len(look) : look[k] = "review" /\ order.review
  <2>1. CASE order.review
    <3>1. look = <<"review">>
      BY <2>1
    <3>2. <<"review">> \in Seq(LensNames) /\ Len(<<"review">>) = 1 /\ <<"review">>[1] = "review"
      BY DEF LensNames
    <3> QED
      BY <2>1, <3>1, <3>2
  <2>2. CASE ~order.review
    <3>1. look = <<>>
      BY <2>2
    <3> QED
      BY <3>1, EmptySeq
  <2> QED
    BY <2>1, <2>2
<1> HIDE DEF base, own, look
<1>4. /\ base \o own \in Seq(LensNames)
      /\ Len(base \o own) = Len(base) + Len(own)
      /\ \A k \in 1 .. Len(base) + Len(own) :
           (base \o own)[k] = IF k =< Len(base) THEN base[k] ELSE own[k - Len(base)]
  BY <1>1, <1>2, ConcatProperties
<1> DEFINE first == base \o own
<1>5. Lenses = first \o look
  BY DEF Lenses, base, own, look
<1> HIDE DEF first
<1>6. /\ first \in Seq(LensNames) /\ Len(first) = Len(base) + Len(own)
      /\ \A k \in 1 .. Len(first) :
           first[k] = IF k =< Len(base) THEN base[k] ELSE own[k - Len(base)]
  BY <1>4 DEF first
<1>7. /\ Lenses \in Seq(LensNames)
      /\ Len(Lenses) = Len(first) + Len(look)
      /\ \A k \in 1 .. Len(first) + Len(look) :
           Lenses[k] = IF k =< Len(first) THEN first[k] ELSE look[k - Len(first)]
  BY <1>3, <1>5, <1>6, ConcatProperties
<1> DEFINE nb == Len(base) no == Len(own) nl == Len(look) nf == Len(first) n == Len(Lenses)
<1>8. nb \in Nat /\ no \in 0 .. 1 /\ nl \in 0 .. 1 /\ nf = nb + no /\ n = nf + nl
  BY <1>1, <1>2, <1>3, <1>6, <1>7
<1>9. (Modifier => nb = 3) /\ (~order.expectation => no = 0)
  BY <1>1, <1>2, Zenon
<1>10. /\ \A k \in 1 .. nf : first[k] = IF k =< nb THEN base[k] ELSE own[k - nb]
       /\ \A k \in 1 .. nf + nl : Lenses[k] = IF k =< nf THEN first[k] ELSE look[k - nf]
       /\ \A k \in 1 .. no : own[k] = "expectation"
       /\ \A k \in 1 .. nl : look[k] = "review" /\ order.review
  BY <1>2, <1>3, <1>6, <1>7
<1> HIDE DEF nb, no, nl, nf, n
<1>11. ASSUME Modifier
       PROVE  /\ n >= 3
              /\ Lenses[1] = base[1] /\ Lenses[2] = base[2] /\ Lenses[3] = base[3]
  <2>1. nb = 3
    BY <1>9, <1>11, Zenon
  <2> QED
    BY <1>8, <1>10, <2>1
<1>12. ASSUME Modifier, NEW k \in 4 .. n
       PROVE  /\ Lenses[k] = "expectation" \/ (Lenses[k] = "review" /\ order.review)
              /\ no = 0 => Lenses[k] # "expectation"
  <2>1. nb = 3
    BY <1>9, <1>12, Zenon
  <2>2. CASE k =< nf
    <3>1. Lenses[k] = own[k - 3] /\ k - 3 \in 1 .. no /\ no # 0
      BY <1>8, <1>10, <2>1, <2>2
    <3> QED
      BY <1>10, <3>1
  <2>3. CASE ~(k =< nf)
    <3>1. Lenses[k] = look[k - nf] /\ k - nf \in 1 .. nl
      BY <1>8, <1>10, <2>1, <2>3
    <3> QED
      BY <1>10, <3>1
  <2> QED
    BY <2>2, <2>3
<1>13. ASSUME Modifier, ~order.expectation
       PROVE  n =< 4
  <2>1. nb = 3 /\ no = 0
    BY <1>9, <1>13, Zenon
  <2> QED
    BY <1>8, <2>1
<1>14. Lenses \in Seq(LensNames)
  BY <1>7
<1>15. Modifier => /\ base[1] = "commit-message" /\ base[2] = "self-gating"
                   /\ base[3] = IF order.bootstrap THEN "project-image" ELSE "tests"
  BY <1>1, Zenon
<1> QED
  BY <1>9, <1>11, <1>12, <1>13, <1>14, <1>15, Zenon DEF n

-----------------------------------------------------------------------------
\* What NoPatch and Patch are.
LEMMA PatchShapes ==
  /\ NoPatch \in Patches /\ NoPatch.work = 0 /\ NoPatch.suite = {}
  /\ \A n \in 0 .. MaxRounds, b \in SUBSET Kinds :
       Patch(n, b) \in Patches /\ Patch(n, b).work = n /\ Patch(n, b).suite = b
BY RoundsAssumption DEF NoPatch, Patch, Patches

\* The reports a runner sends, and what a round leaves for the next.
RoundReports ==
  [outcome : {"none", "refused", "error", "declined", "dispatched", "approved"},
   change : Patches, gates : Seq(Results), rounds : 1 .. MaxRounds]
GateVerdicts == [gates : Seq(Results), spent : Spendings]

\* A report of four fields of the right types is a report.
LEMMA ReportShape ==
  ASSUME NEW o \in {"none", "refused", "error", "declined", "dispatched", "approved"},
         NEW c \in Patches, NEW g \in Seq(Results), NEW n \in 1 .. MaxRounds
  PROVE  [outcome |-> o, change |-> c, gates |-> g, rounds |-> n] \in RoundReports
BY DEF RoundReports

\* An answer of a lens is well typed.
LEMMA AnswerKeepsTypes ==
  ASSUME RoundsTypeOK, NEW lens \in LensNames, NEW answer \in {"passed", "refused", "starved"},
         NEW measures \in Spendings, Answers(lens, answer, measures)
  PROVE  /\ results' \in Seq(Results) /\ spent' \in Spendings /\ verdict' \in GateVerdicts
         /\ phase' \in {"gate", "decide", phase}
<1>1. [lens |-> lens, answer |-> answer, judged |-> tree] \in Results
  BY DEF RoundsTypeOK, Results
<1>2. results' \in Seq(Results)
  BY <1>1, AppendProperties DEF Answers, RoundsTypeOK
<1>3. spent' = measures /\ (phase' = phase \/ phase' = "decide")
  BY DEF Answers
<1>4. verdict' = verdict \/ verdict' = [gates |-> results', spent |-> measures]
  BY DEF Answers
<1> QED
  BY <1>2, <1>3, <1>4 DEF RoundsTypeOK, GateVerdicts

\* What a reviewer may answer.
LEMMA ReviewShapes ==
  \A v \in ReviewVerdicts : v.ran \in BOOLEAN /\ v.answer \in {"passed", "refused"}
<1>1. \A a \in {"passed", "refused"} :
        [ran |-> TRUE, answer |-> a].ran = TRUE /\ [ran |-> TRUE, answer |-> a].answer = a
  OBVIOUS
<1>2. /\ [ran |-> FALSE, answer |-> "refused"].ran = FALSE
      /\ [ran |-> FALSE, answer |-> "refused"].answer = "refused"
  OBVIOUS
<1> QED
  BY <1>1, <1>2 DEF ReviewVerdicts

-----------------------------------------------------------------------------
\* The steps of a gate.
LensAction ==
  \/ PatchLens \/ DocumentLens \/ ExpectationLens \/ SuiteLens
  \/ ImageRefused \/ BuildImage \/ ImageSuite \/ ReviewLens

\* A lens answers, or an image is built for its suite.
AnswerStep ==
  \E lens \in LensNames, answer \in {"passed", "refused", "starved"}, measures \in Spendings :
    AtLens(lens) /\ Answers(lens, answer, measures)
BuildStep == UNCHANGED <<phase, tree, results, verdict>> /\ spent' \in Spendings

\* No lens touches anything but what is beside the work in the tree, the clock and its results;
\* and the two readings of a modifier's patch not even the tree.
LEMMA LensStep ==
  ASSUME RoundsTypeOK, LensAction
  PROVE  /\ phase = "gate" /\ UNCHANGED <<order, round, change, onDisk, pending, report>>
         /\ left' \in Int /\ left' =< Timeout /\ left' =< left
         /\ tree' \in Trees /\ tree'.work = tree.work
         /\ tree'.suite \subseteq tree.suite \cup {"committed"}
         /\ Modifier /\ Len(results) < 2 => tree' = tree
         /\ AnswerStep \/ BuildStep
<1>0. /\ order \in Orders /\ left \in Int /\ left =< Timeout /\ tree \in Trees
      /\ spent \in Spendings /\ Len(results) \in Nat
      /\ Timeout \in Nat /\ Longest \in Nat
  BY RoundsAssumption, LenProperties DEF RoundsTypeOK, Orders
<1>1. UNCHANGED <<order, round, change, onDisk, pending, report>> /\ phase = "gate"
  BY DEF LensAction, PatchLens, DocumentLens, ExpectationLens, SuiteLens, SuiteAnswer, ImageRefused,
         BuildImage, ImageSuite, ReviewLens, Reviewed, Answers, AtLens
<1>2. ASSUME NEW t \in Littered
      PROVE  /\ t \in Trees /\ t.work = tree.work
             /\ t.suite \subseteq tree.suite \cup {"committed"}
  <2>1. PICK mess \in Leavings :
          t = [tree EXCEPT !.loose = @ \cup (mess \cap Loose), !.suite = @ \cup (mess \ Loose)]
    BY <1>2 DEF Littered
  <2> DEFINE l == tree.loose \cup (mess \cap Loose)
             b == tree.suite \cup (mess \ Loose)
  <2>2. mess \subseteq Kinds /\ mess \ Loose \subseteq {"committed"}
    BY RoundsAssumption DEF Kinds
  <2>3. l \in SUBSET Loose /\ b \in SUBSET Kinds /\ b \subseteq tree.suite \cup {"committed"}
    BY <1>0, <2>2 DEF Trees
  <2>4. t = [tree EXCEPT !.loose = l, !.suite = b]
    BY <2>1
  <2> HIDE DEF l, b
  <2>5. /\ [tree EXCEPT !.loose = l, !.suite = b] \in Trees
        /\ [tree EXCEPT !.loose = l, !.suite = b].work = tree.work
        /\ [tree EXCEPT !.loose = l, !.suite = b].suite = b
    BY <1>0, <2>3 DEF Trees
  <2> QED
    BY <2>3, <2>4, <2>5
<1>3. \A took \in 1 .. left : took \in 0 .. Timeout
  BY <1>0
<1>4. ASSUME Modifier, NEW lens \in LensNames \ {"commit-message", "self-gating"}, AtLens(lens)
      PROVE  ~(Len(results) < 2)
  <2>1. Len(results) < 2 => Len(results) + 1 = 1 \/ Len(results) + 1 = 2
    BY <1>0
  <2>2. Lenses[1] = "commit-message" /\ Lenses[2] = "self-gating"
    BY <1>0, <1>4, LensesShape
  <2> QED
    BY <1>4, <2>1, <2>2 DEF AtLens, NextLens
<1>5. CASE PatchLens \/ DocumentLens
  <2>1. AnswerStep
    BY <1>0, <1>5 DEF PatchLens, DocumentLens, AnswerStep, LensNames
  <2> QED
    BY <1>0, <1>1, <1>5, <2>1 DEF PatchLens, DocumentLens
<1>6. CASE ExpectationLens
  <2>1. AnswerStep
    BY <1>0, <1>6 DEF ExpectationLens, AnswerStep, LensNames
  <2>2. left' \in Int /\ left' =< left
    BY <1>0, <1>6 DEF ExpectationLens
  <2>3. Modifier => ~(Len(results) < 2)
    BY <1>4, <1>6 DEF ExpectationLens, LensNames
  <2> QED
    BY <1>0, <1>1, <1>2, <1>6, <2>1, <2>2, <2>3 DEF ExpectationLens
<1>7. ASSUME NEW lens \in {"tests", "project-image"}, AtLens(lens), SuiteAnswer(lens)
      PROVE  /\ AnswerStep /\ left' \in Int /\ left' =< left
             /\ tree' = tree \/ tree' \in Littered
             /\ Modifier => ~(Len(results) < 2)
  <2>1. \/ UNCHANGED <<left, tree>>
        \/ (\E took \in 1 .. left : left' = left - took) /\ tree' \in Littered
    BY <1>7, Zenon DEF SuiteAnswer
  <2>2. left' \in Int /\ left' =< left
    BY <1>0, <2>1
  <2>3. \/ Answers(lens, "starved", [spent EXCEPT !.tests = NotRun])
        \/ \E took \in 1 .. left, answer \in {"passed", "refused"} :
             Answers(lens, answer, [spent EXCEPT !.tests = Took(TRUE, took)])
        \/ Answers(lens, "refused", [spent EXCEPT !.tests = Took(TRUE, Unmeasured)])
    BY <1>7, Zenon DEF SuiteAnswer
  <2>4. \A took \in 1 .. left : Took(TRUE, took) \in Measures
    BY <1>3, MeasureShapes
  <2>5. NotRun \in Measures /\ Took(TRUE, Unmeasured) \in Measures
    BY MeasureShapes
  <2>6. PICK answer \in {"passed", "refused", "starved"}, m \in Measures :
          Answers(lens, answer, [spent EXCEPT !.tests = m])
    BY <2>3, <2>4, <2>5, Zenon
  <2>7. [spent EXCEPT !.tests = m] \in Spendings
    BY <1>0, SpentUpdates
  <2>8. AnswerStep
    BY <1>7, <2>6, <2>7 DEF AnswerStep, LensNames
  <2>9. Modifier => ~(Len(results) < 2)
    BY <1>4, <1>7 DEF LensNames
  <2> QED
    BY <2>1, <2>2, <2>8, <2>9
<1>8. CASE SuiteLens \/ ImageSuite
  <2>1. PICK lens \in {"tests", "project-image"} : AtLens(lens) /\ SuiteAnswer(lens)
    BY <1>8 DEF SuiteLens, ImageSuite
  <2> QED
    BY <1>0, <1>1, <1>2, <1>7, <2>1
<1>9. CASE ImageRefused
  <2>1. [spent EXCEPT !.image = NotRun] \in Spendings
    BY <1>0, SpentUpdates, MeasureShapes
  <2>2. AnswerStep
    BY <1>9, <2>1 DEF ImageRefused, AnswerStep, LensNames
  <2> QED
    BY <1>0, <1>1, <1>9, <2>2 DEF ImageRefused
<1>10. CASE BuildImage
  <2>1. PICK took \in 1 .. left :
          /\ left' = left - took
          /\ \/ /\ spent' = [spent EXCEPT !.image = Took(TRUE, took)]
                /\ UNCHANGED <<order, phase, round, change, onDisk, results, verdict, pending,
                               report>>
             \/ Answers("project-image", "refused", [spent EXCEPT !.image = Took(TRUE, took)])
             \/ Answers("project-image", "refused",
                        [spent EXCEPT !.image = Took(TRUE, Unmeasured)])
    BY <1>10 DEF BuildImage
  <2>2. left' \in Int /\ left' =< left
    BY <1>0, <2>1
  <2>3. /\ [spent EXCEPT !.image = Took(TRUE, took)] \in Spendings
        /\ [spent EXCEPT !.image = Took(TRUE, Unmeasured)] \in Spendings
    BY <1>0, <1>3, SpentUpdates, MeasureShapes
  <2>4. AnswerStep \/ BuildStep
    BY <1>10, <2>1, <2>3 DEF BuildImage, AnswerStep, BuildStep, LensNames
  <2> QED
    BY <1>0, <1>1, <1>10, <2>2, <2>4 DEF BuildImage
<1>11. CASE ReviewLens
  <2>1. \/ UNCHANGED <<left, tree>>
        \/ (\E took \in 1 .. left : left' = left - took) /\ tree' \in Littered
    BY <1>11, Zenon DEF ReviewLens, Reviewed
  <2>2. left' \in Int /\ left' =< left
    BY <1>0, <2>1
  <2>3. \/ \E answer \in {"passed", "starved"} :
             Answers("review", answer, [spent EXCEPT !.review = NotRun])
        \/ \E took \in 1 .. left, v \in ReviewVerdicts :
             Answers("review", v.answer, [spent EXCEPT !.review = Took(v.ran, took)])
    BY <1>11, Zenon DEF ReviewLens, Reviewed
  <2>4. \A v \in ReviewVerdicts : v.ran \in BOOLEAN /\ v.answer \in {"passed", "refused"}
    BY ReviewShapes
  <2>5. \A took \in 1 .. left, v \in ReviewVerdicts : Took(v.ran, took) \in Measures
    BY <1>3, <2>4, MeasureShapes
  <2>6. NotRun \in Measures
    BY MeasureShapes
  <2>7. PICK answer \in {"passed", "refused", "starved"}, m \in Measures :
          Answers("review", answer, [spent EXCEPT !.review = m])
    BY <2>3, <2>4, <2>5, <2>6, Zenon
  <2>8. [spent EXCEPT !.review = m] \in Spendings
    BY <1>0, SpentUpdates
  <2>9. AnswerStep /\ (Modifier => ~(Len(results) < 2))
    BY <1>4, <1>11, <2>7, <2>8 DEF ReviewLens, AnswerStep, LensNames
  <2> QED
    BY <1>0, <1>1, <1>2, <2>1, <2>2, <2>9
<1> QED
  BY <1>5, <1>6, <1>8, <1>9, <1>10, <1>11 DEF LensAction

\* A sweep is only begun for a modifier, and with a round to go.
InRounds ==
  /\ RoundsTypeOK
  /\ phase = "sweep" => Modifier /\ round < MaxRounds

\* Every step of a job's rounds keeps the types.
LEMMA TypesOfRounds == RoundsSpec => []InRounds
<1>1. RoundsInit => InRounds
  <2> SUFFICES ASSUME RoundsInit PROVE RoundsTypeOK
    BY DEF RoundsInit, InRounds
  <2>1. /\ tree \in Trees /\ <<>> \in Seq(Results) /\ 1 \in 1 .. MaxRounds
        /\ pending \in [budget : Nat, reserve : Nat]
    BY RoundsAssumption DEF RoundsInit, Trees
  <2>2. verdict \in GateVerdicts
    BY <2>1, MeasureShapes DEF RoundsInit, NoVerdict, GateVerdicts
  <2>3. report \in RoundReports
    BY <2>1, PatchShapes DEF RoundsInit, NoReport, RoundReports
  <2> QED
    BY <2>1, <2>2, <2>3, PatchShapes, MeasureShapes, RoundsAssumption
    DEF RoundsInit, RoundsTypeOK, GateVerdicts, RoundReports
<1>2. InRounds /\ [RoundsNext]_roundsVars => InRounds'
  <2> SUFFICES ASSUME InRounds, [RoundsNext]_roundsVars
               PROVE  InRounds'
    OBVIOUS
  <2> USE DEF InRounds
  <2>0. /\ order \in Order /\ order \in Orders /\ round \in 1 .. MaxRounds /\ left \in Int
        /\ left =< Timeout
        /\ tree \in Trees /\ change \in Patches /\ onDisk \in Patches
        /\ results \in Seq(Results) /\ spent \in Spendings
        /\ verdict \in GateVerdicts /\ pending \in [budget : Nat, reserve : Nat]
        /\ report \in RoundReports /\ <<>> \in Seq(Results)
        /\ phase \in {"prepare", "agent", "extract", "gate", "decide", "sweep", "report", "done"}
        /\ Timeout \in Nat /\ Longest \in Nat /\ MaxRounds \in Nat
    BY RoundsAssumption DEF RoundsTypeOK, Orders, GateVerdicts, RoundReports
  <2>F. Fail \/ Refuse => phase' = "done" /\ report' \in RoundReports
    <3>1. /\ [outcome |-> "error", change |-> NoPatch, gates |-> <<>>, rounds |-> round] \in RoundReports
          /\ [outcome |-> "refused", change |-> NoPatch, gates |-> <<>>, rounds |-> round] \in RoundReports
      BY <2>0, PatchShapes DEF RoundReports
    <3> QED
      BY <3>1 DEF Fail, Refuse, Reported
  <2> USE DEF RoundsTypeOK, RoundReports, GateVerdicts
  <2>1. CASE Prepare
    BY <2>0, <2>1, <2>F DEF Prepare, EnvironmentRefused, Furnish
  <2>W. Worked \subseteq Trees
    <3>1. \A b \in {"no", "rewritten", "oversize"} :
            [tree EXCEPT !.work = round, !.broken = b] \in Trees
      <4>1. round \in 0 .. MaxRounds
        BY <2>0
      <4> QED
        BY <2>0, <4>1, WorkUpdates
    <3>2. [tree EXCEPT !.work = 0] \in Trees /\ [tree EXCEPT !.work = 0, !.suite = {}] \in Trees
      BY <2>0, ResetUpdates
    <3>3. ASSUME NEW t \in Worked
          PROVE  t \in Trees
      <4>1. \/ t = tree \/ t = [tree EXCEPT !.work = 0]
            \/ t = [tree EXCEPT !.work = 0, !.suite = {}]
            \/ \E b \in {"no", "rewritten", "oversize"} :
                 t = [tree EXCEPT !.work = round, !.broken = b]
        BY <3>3, Zenon DEF Worked
      <4> QED
        BY <2>0, <3>1, <3>2, <4>1, Zenon
    <3> QED
      BY <3>3
  <2>2. CASE AgentFinishes
    <3>1. left' \in Int /\ left' =< Timeout
      BY <2>0, <2>2 DEF AgentFinishes, AgentBudget
    <3> QED
      BY <2>0, <2>2, <2>F, <2>W, <3>1 DEF AgentFinishes
  <2>3. CASE AgentFails
    <3>1. left' \in Int /\ left' =< Timeout /\ round' \in 1 .. MaxRounds
      BY <2>0, <2>3 DEF AgentFails, AgentBudget
    <3> QED
      BY <2>0, <2>3, <2>F, <2>W, <3>1 DEF AgentFails
  <2>4. CASE Extract
    <3>1. tree' \in Trees /\ Patch(tree'.work, tree'.suite) \in Patches
      <4>1. tree' \in Trees
        BY <2>0, <2>4, CommittedTree DEF Extract
      <4> QED
        BY <4>1, PatchShapes DEF Trees
    <3>2. change' \in Patches /\ onDisk' \in Patches
      BY <2>0, <2>4, <3>1, PatchShapes DEF Extract
    <3>3. results' \in Seq(Results) /\ spent' \in Spendings
          /\ phase' \in {"gate", "done"} /\ report' \in RoundReports
      BY <2>0, <2>4, <2>F, MeasureShapes DEF Extract, BeginGate
    <3> QED
      BY <2>0, <2>4, <3>1, <3>2, <3>3 DEF Extract
  <2>5. CASE ExtractThrows
    BY <2>0, <2>5, <2>F, PatchShapes DEF ExtractThrows
  <2>6. CASE NothingToExtract
    BY <2>0, <2>6, MeasureShapes DEF NothingToExtract, BeginGate
  <2>7. CASE NoLens
    BY <2>0, <2>7 DEF NoLens
  <2>8. CASE LensAction
    <3>1. /\ left' \in Int /\ left' =< Timeout /\ tree' \in Trees /\ phase = "gate"
          /\ UNCHANGED <<order, round, change, onDisk, pending, report>>
      BY <2>8, LensStep
    <3>2. CASE BuildStep
      BY <2>0, <3>1, <3>2 DEF BuildStep
    <3>3. CASE AnswerStep
      BY <2>0, <3>1, <3>3, AnswerKeepsTypes DEF AnswerStep
    <3> QED
      BY <2>8, <3>2, <3>3, LensStep
  <2>14. CASE GateThrows \/ SweepThrows
    BY <2>0, <2>14, <2>F DEF GateThrows, SweepThrows
  <2>15. CASE Decide
    <3>1. ASSUME Retries
          PROVE  /\ left - Reserve(verdict.spent) \in Nat
                 /\ Reserve(verdict.spent) \in Nat
      <4> DEFINE v == verdict.spent
      <4>1. left >= Share(v) + Reserve(v) /\ left \in Int
        BY <2>0, <3>1 DEF Retries
      <4>2. Share(v) \in Nat /\ Reserve(v) \in Nat
        BY <2>0, ReserveType
      <4> HIDE DEF v
      <4>3. left - Reserve(v) \in Nat
        BY <4>1, <4>2
      <4> QED
        BY <4>2, <4>3 DEF v
    <3>2. pending' \in [budget : Nat, reserve : Nat]
      BY <2>0, <2>15, <3>1 DEF Decide
    <3> QED
      BY <2>0, <2>15, <3>2 DEF Decide, Retries, Modifier
  <2>16. CASE Sweep
    <3>1. tree' \in Trees
      <4>1. tree.loose \ {"untracked"} \in SUBSET Loose
        BY <2>0 DEF Trees
      <4> QED
        BY <2>0, <2>16, <4>1, LooseUpdates DEF Sweep
    <3> QED
      BY <2>0, <2>16, <3>1 DEF Sweep, Modifier
  <2>17. CASE SendsReport
    <3>1. PICK outcome \in Outcomes :
            report' = [outcome |-> outcome, change |-> change, gates |-> verdict.gates,
                       rounds |-> round]
      BY <2>17 DEF SendsReport, Reported
    <3>2. outcome \in {"declined", "approved", "dispatched"}
      BY DEF Outcomes
    <3>3. report' \in RoundReports
      BY <2>0, <3>1, <3>2, ReportShape
    <3> QED
      BY <2>0, <2>17, <3>3 DEF SendsReport, Reported
  <2>18. CASE UNCHANGED roundsVars
    BY <2>18 DEF roundsVars, Modifier
  <2> QED
    BY <2>1, <2>2, <2>3, <2>4, <2>5, <2>6, <2>7, <2>8, <2>14, <2>15, <2>16, <2>17, <2>18
    DEF RoundsNext, LensAction
<1> QED
  BY <1>1, <1>2, PTL DEF RoundsSpec

-----------------------------------------------------------------------------
\* What the sweep can see is in no patch and no commit, and the agent finds none of it.
Clean ==
  /\ tree.suite \subseteq HiddenOutput /\ onDisk.suite \subseteq HiddenOutput
  /\ phase \in {"prepare", "agent", "extract"} => tree.loose \subseteq {"nested", "ignored"}

\* What the agent did is in the tree; it adds nothing to what the suite left.
LEMMA WorkedTree ==
  ASSUME tree \in Trees, round \in 1 .. MaxRounds, NEW t \in Worked
  PROVE  t \in Trees /\ t.suite \subseteq tree.suite /\ t.loose = tree.loose
<1>1. \/ t = tree \/ t = [tree EXCEPT !.work = 0] \/ t = [tree EXCEPT !.work = 0, !.suite = {}]
      \/ \E b \in {"no", "rewritten", "oversize"} : t = [tree EXCEPT !.work = round, !.broken = b]
  BY Zenon DEF Worked
<1>2. round \in 0 .. MaxRounds
  BY RoundsAssumption
<1>3. CASE t = tree \/ t = [tree EXCEPT !.work = 0] \/ t = [tree EXCEPT !.work = 0, !.suite = {}]
  BY <1>3, ResetUpdates
<1>4. ASSUME NEW b \in {"no", "rewritten", "oversize"},
             t = [tree EXCEPT !.work = round, !.broken = b]
      PROVE  t \in Trees /\ t.suite \subseteq tree.suite /\ t.loose = tree.loose
  <2>1. t \in Trees /\ t.suite = tree.suite /\ t.loose = tree.loose
    BY <1>2, <1>4, WorkUpdates
  <2> QED
    BY <2>1
<1> QED
  BY <1>1, <1>3, <1>4, Zenon

\* Every step keeps what the sweep can see out of patches.
LEMMA CleanHolds == RoundsSpec => []Clean
<1>1. RoundsInit => Clean
  BY PatchShapes DEF RoundsInit, Clean
<1>2. InRounds /\ Clean /\ [RoundsNext]_roundsVars => Clean'
  <2> SUFFICES ASSUME InRounds, Clean, [RoundsNext]_roundsVars
               PROVE  Clean'
    OBVIOUS
  <2>0. /\ tree \in Trees /\ round \in 1 .. MaxRounds /\ tree.loose \in SUBSET Loose
    BY DEF InRounds, RoundsTypeOK, Trees
  <2> USE DEF Clean
  <2>F. Fail \/ Refuse => phase' = "done"
    BY DEF Fail, Refuse, Reported
  <2>1. CASE Prepare \/ ExtractThrows \/ NothingToExtract \/ NoLens \/ GateThrows \/ Decide
               \/ SweepThrows \/ SendsReport
    BY <2>1, <2>F, PatchShapes
    DEF Prepare, EnvironmentRefused, Furnish, ExtractThrows, NothingToExtract, BeginGate, NoLens,
        GateThrows, Decide, SweepThrows, SendsReport, Reported
  <2>2. CASE AgentFinishes \/ AgentFails
    BY <2>0, <2>2, <2>F, WorkedTree DEF AgentFinishes, AgentFails
  <2>3. CASE Extract
    <3>1. PICK added \in Added(tree) : tree' = Committed(tree, added)
      BY <2>3 DEF Extract
    <3>2. /\ tree' \in Trees /\ tree'.suite = tree.suite \cup added
          /\ added \subseteq tree.loose
      BY <2>0, <3>1, CommittedTree
    <3>3. tree'.suite \subseteq HiddenOutput
      BY <2>3, <3>2 DEF Extract, HiddenOutput
    <3>4. Patch(tree'.work, tree'.suite).suite = tree'.suite
      BY <3>2, PatchShapes DEF Trees
    <3>5. onDisk'.suite \subseteq HiddenOutput /\ phase' \in {"gate", "done"}
      BY <2>3, <2>F, <3>3, <3>4, PatchShapes DEF Extract, BeginGate
    <3> QED
      BY <3>3, <3>5
  <2>4. CASE LensAction
    <3>1. tree'.suite \subseteq tree.suite \cup {"committed"} /\ onDisk' = onDisk
      BY <2>4, LensStep DEF InRounds
    <3>2. tree'.suite \subseteq HiddenOutput
      BY <3>1 DEF HiddenOutput
    <3>3. phase' \in {"gate", "decide"}
      BY <2>4, LensStep DEF InRounds, AnswerStep, BuildStep, Answers
    <3> QED
      BY <3>1, <3>2, <3>3
  <2>5. CASE Sweep
    <3>1. tree' = [tree EXCEPT !.loose = tree.loose \ {"untracked"}]
      BY <2>5 DEF Sweep
    <3>2. tree'.suite = tree.suite /\ tree'.loose = tree.loose \ {"untracked"}
      <4>1. tree.loose \ {"untracked"} \in SUBSET Loose
        BY <2>0
      <4> QED
        BY <2>0, <3>1, <4>1, LooseUpdates
    <3>3. "tracked" \notin tree.loose => tree'.loose \subseteq {"nested", "ignored"}
      BY <2>0, <3>2 DEF Loose
    <3> QED
      BY <2>5, <3>2, <3>3 DEF Sweep
  <2>6. CASE UNCHANGED roundsVars
    BY <2>6 DEF roundsVars
  <2> QED
    BY <2>1, <2>2, <2>3, <2>4, <2>5, <2>6 DEF RoundsNext, LensAction
<1> QED
  BY <1>1, <1>2, TypesOfRounds, PTL DEF RoundsSpec

\* Of what the suite, a build, a reviewer or an expectation's command leaves behind, no new
\* file and no edit is in any patch, through any number of rounds: what the sweep cannot see
\* (a nested repository, an ignored file, a commit) is all that ever gets there.
\* (extractPatch, sweepGateArtifacts)
THEOREM PatchesAreTheAgents == RoundsSpec => []OnlyHiddenOutputInAPatch
<1>1. Clean => OnlyHiddenOutputInAPatch
  BY DEF Clean, OnlyHiddenOutputInAPatch
<1> QED
  BY <1>1, CleanHolds, PTL

-----------------------------------------------------------------------------
\* What ReportedWorkWasJudged says of a report's patch and gates.
JudgedOn(gates, patch) ==
  patch # NoPatch =>
    /\ onDisk = patch
    /\ \A k \in DOMAIN gates :
         /\ gates[k].judged.work = patch.work
         /\ gates[k].lens = "tests" =>
              gates[k].judged.suite = patch.suite /\ gates[k].judged.loose \subseteq {"ignored"}
    /\ Refusals(gates) = {} => [k \in DOMAIN gates |-> gates[k].lens] = Lenses

\* The suite runs on what was extracted, with ignored files beside it at the most.
SuiteSaw(t) ==
  t.loose \subseteq {"ignored"} /\ (change # NoPatch => t.suite = change.suite)

\* The gate that runs: every lens so far has passed, on the work the patch was made of, and the
\* suite is the first command to touch the tree.
GateSoFar ==
  /\ Len(results) =< Len(Lenses)
  /\ \A k \in 1 .. Len(results) :
       /\ results[k].lens = Lenses[k] /\ results[k].answer = "passed"
       /\ results[k].judged.work = tree.work
       /\ Modifier /\ results[k].lens = "tests" => SuiteSaw(results[k].judged)
  /\ Modifier /\ Len(results) =< 2 => SuiteSaw(tree)
  /\ change # NoPatch => change.work = tree.work /\ onDisk = change

\* The gate that runs, the verdict it left and the report are about the patch that is on disk.
Judging ==
  /\ Modifier \/ change = NoPatch
  /\ phase = "gate" => GateSoFar
  /\ phase \in {"prepare", "agent", "decide", "sweep", "report"} => JudgedOn(verdict.gates, change)
  /\ JudgedOn(report.gates, report.change)
  /\ phase # "done" => report.change = NoPatch

\* One more lens: the gate goes on, or its verdict is about the patch it was run on.
LEMMA AnswerIsJudged ==
  ASSUME InRounds, Judging, LensAction, AnswerStep
  PROVE  Judging'
<1> DEFINE n == Len(results)
<1>0. /\ results \in Seq(Results) /\ n \in Nat /\ order \in Orders /\ tree \in Trees /\ phase = "gate"
      /\ tree' \in Trees /\ tree'.work = tree.work /\ (Modifier /\ n < 2 => tree' = tree)
      /\ UNCHANGED <<order, change, onDisk, report>>
  BY LenProperties, LensStep, RoundsAssumption DEF InRounds, RoundsTypeOK, Orders
<1>1. PICK lens \in LensNames, answer \in {"passed", "refused", "starved"},
           measures \in Spendings : AtLens(lens) /\ Answers(lens, answer, measures)
  BY DEF AnswerStep
<1> DEFINE result == [lens |-> lens, answer |-> answer, judged |-> tree]
<1>2. /\ result \in Results /\ result.lens = lens /\ result.answer = answer
      /\ result.judged = tree
  BY <1>0 DEF Results
<1>3. results' = Append(results, result)
  BY <1>1 DEF Answers
<1> HIDE DEF result
<1>4. /\ results' \in Seq(Results) /\ Len(results') = n + 1
      /\ DOMAIN results' = 1 .. n + 1
      /\ \A k \in 1 .. n : results'[k] = results[k]
      /\ results'[n + 1] = result
  BY <1>0, <1>2, <1>3, AppendProperties, LenProperties
<1>5. Lenses' = Lenses /\ (Modifier' <=> Modifier)
  BY <1>0 DEF Lenses, Modifier
<1>6. n < Len(Lenses) /\ Lenses[n + 1] = lens /\ Len(Lenses) \in Nat
  BY <1>0, <1>1, LensesShape, LenProperties DEF AtLens, NextLens
<1>7. GateSoFar
  BY <1>0 DEF Judging
<1>8. ASSUME Modifier, lens = "tests"
      PROVE  SuiteSaw(tree)
  <2>1. n =< 2
    <3>1. \A k \in 4 .. Len(Lenses) : Lenses[k] # "tests"
      BY <1>0, <1>8, LensesShape
    <3> QED
      BY <1>0, <1>6, <1>8, <3>1
  <2> QED
    BY <1>7, <1>8, <2>1 DEF GateSoFar
<1>9. \A k \in 1 .. n + 1 :
        /\ results'[k].lens = Lenses[k]
        /\ results'[k].judged.work = tree.work
        /\ Modifier /\ results'[k].lens = "tests" => SuiteSaw(results'[k].judged)
        /\ k =< n \/ answer = "passed" => results'[k].answer = "passed"
  <2>1. ASSUME NEW k \in 1 .. n
        PROVE  /\ results'[k].lens = Lenses[k]
               /\ results'[k].judged.work = tree.work
               /\ Modifier /\ results'[k].lens = "tests" => SuiteSaw(results'[k].judged)
               /\ results'[k].answer = "passed"
    BY <1>4, <1>7, <2>1 DEF GateSoFar
  <2>2. /\ results'[n + 1].lens = Lenses[n + 1]
        /\ results'[n + 1].judged.work = tree.work
        /\ Modifier /\ results'[n + 1].lens = "tests" => SuiteSaw(results'[n + 1].judged)
        /\ answer = "passed" => results'[n + 1].answer = "passed"
    BY <1>2, <1>4, <1>6, <1>8
  <2>3. \A k \in 1 .. n + 1 : k \in 1 .. n \/ (k = n + 1 /\ ~(k =< n))
    BY <1>0
  <2> QED
    BY <2>1, <2>2, <2>3
<1>10. CASE answer = "passed" /\ n + 1 < Len(Lenses)
  <2>1. phase' = "gate" /\ verdict' = verdict
    BY <1>0, <1>1, <1>4, <1>10 DEF Answers
  <2>2. Modifier /\ n + 1 =< 2 => SuiteSaw(tree')
    BY <1>0, <1>7 DEF GateSoFar
  <2>3. GateSoFar'
    <3>1. change # NoPatch => change.work = tree'.work /\ onDisk = change
      BY <1>0, <1>7 DEF GateSoFar
    <3>2. NoPatch' = NoPatch
      BY DEF NoPatch, Patch
    <3> QED
      BY <1>0, <1>4, <1>5, <1>6, <1>9, <1>10, <2>2, <3>1, <3>2 DEF GateSoFar, SuiteSaw
  <2>4. JudgedOn(report.gates, report.change)'
    BY <1>0, <1>5 DEF Judging, JudgedOn, Refusals
  <2> QED
    BY <1>0, <1>5, <2>1, <2>3, <2>4 DEF Judging
<1>11. CASE ~(answer = "passed" /\ n + 1 < Len(Lenses))
  <2>1. phase' = "decide" /\ verdict'.gates = results'
    BY <1>0, <1>1, <1>4, <1>11 DEF Answers
  <2>2. ASSUME Refusals(results') = {}
        PROVE  [k \in DOMAIN results' |-> results'[k].lens] = Lenses
    <3>1. answer = "passed"
      <4>1. results'[n + 1].answer # "passed" => results'[n + 1].lens \in Refusals(results')
        BY <1>0, <1>4 DEF Refusals
      <4> QED
        BY <1>2, <1>4, <2>2, <4>1
    <3>2. n + 1 = Len(Lenses)
      BY <1>0, <1>6, <1>11, <3>1
    <3>3. Lenses = [k \in 1 .. n + 1 |-> Lenses[k]]
      BY <1>0, <3>2, LensesShape, LenProperties
    <3> QED
      BY <1>4, <1>9, <3>3
  <2>3. JudgedOn(verdict.gates, change)'
    <3>1. change # NoPatch => change.work = tree.work /\ onDisk = change /\ Modifier
      BY <1>7 DEF GateSoFar, Judging
    <3> QED
      BY <1>0, <1>4, <1>5, <1>9, <2>1, <2>2, <3>1 DEF JudgedOn, SuiteSaw, NoPatch, Patch
  <2>4. JudgedOn(report.gates, report.change)'
    BY <1>0, <1>5 DEF Judging, JudgedOn, Refusals
  <2> QED
    BY <1>0, <1>5, <2>1, <2>3, <2>4 DEF Judging
<1> QED
  BY <1>10, <1>11

\* Every step keeps a report's gates about the report's patch.
LEMMA JudgingHolds == RoundsSpec => []Judging
<1>1. RoundsInit => Judging
  BY DEF RoundsInit, Judging, JudgedOn, NoReport
<1>2. InRounds /\ Clean /\ Judging /\ [RoundsNext]_roundsVars => Judging'
  <2> SUFFICES ASSUME InRounds, Clean, Judging, [RoundsNext]_roundsVars
               PROVE  Judging'
    OBVIOUS
  <2>0. /\ tree \in Trees /\ round \in 1 .. MaxRounds /\ tree.loose \in SUBSET Loose
        /\ order \in Orders /\ results \in Seq(Results) /\ Len(results) \in Nat
    BY RoundsAssumption, LenProperties DEF InRounds, RoundsTypeOK, Trees, Orders
  <2>L. Lenses \in Seq(LensNames) /\ Len(Lenses) \in Nat
    BY <2>0, LensesShape, LenProperties
  <2>1. ASSUME order' = order
        PROVE  Lenses' = Lenses /\ (Modifier' <=> Modifier) /\ NoPatch' = NoPatch
    BY <2>1 DEF Lenses, Modifier, NoPatch, Patch
  <2>2. ASSUME order' = order, onDisk' = onDisk
        PROVE  \A gates, patch : JudgedOn(gates, patch) => JudgedOn(gates, patch)'
    BY <2>1, <2>2 DEF JudgedOn, Refusals
  \* A report without a patch says nothing of one.
  <2>3. ASSUME order' = order, change' = change, report'.change = NoPatch, phase' = "done"
        PROVE  Judging'
    BY <2>1, <2>3 DEF Judging, JudgedOn
  <2>F. Fail \/ Refuse => phase' = "done" /\ report'.change = NoPatch
    BY DEF Fail, Refuse, Reported
  <2>4. CASE Prepare
    BY <2>1, <2>2, <2>3, <2>4, <2>F
    DEF Judging, Prepare, EnvironmentRefused, Furnish
  <2>5. CASE AgentFinishes \/ AgentFails
    BY <2>1, <2>2, <2>3, <2>5, <2>F DEF Judging, AgentFinishes, AgentFails
  <2>6. ASSUME UNCHANGED <<order, report>>, phase = "extract", phase' = "gate", results' = <<>>,
               Modifier =>
                 /\ SuiteSaw(tree)'
                 /\ change' # NoPatch => change'.work = tree'.work /\ onDisk' = change',
               Modifier \/ change' = NoPatch
        PROVE  Judging'
    <3>1. Len(results') = 0 /\ Lenses' = Lenses /\ (Modifier' <=> Modifier) /\ NoPatch' = NoPatch
      BY <2>1, <2>6
    <3>2. GateSoFar'
      BY <2>6, <2>L, <3>1 DEF GateSoFar
    <3> QED
      BY <2>6, <3>1, <3>2 DEF Judging, JudgedOn
  <2>7. CASE Extract
    <3>1. tree' \in Trees /\ tree'.loose \subseteq {"ignored"}
      BY <2>0, <2>7, CommittedTree DEF Extract
    <3>2. /\ Patch(tree'.work, tree'.suite).work = tree'.work
          /\ Patch(tree'.work, tree'.suite).suite = tree'.suite
      BY <3>1, PatchShapes DEF Trees
    <3>3. CASE BeginGate /\ UNCHANGED report
      <4>1. change' # NoPatch =>
              change'.work = tree'.work /\ change'.suite = tree'.suite /\ onDisk' = change'
        BY <2>7, <3>2, <3>3, <2>F DEF Extract, BeginGate
      <4> QED
        BY <2>1, <2>6, <2>7, <3>1, <3>3, <4>1 DEF Extract, BeginGate, SuiteSaw
    <3>4. CASE Fail /\ change' = NoPatch
      BY <2>1, <2>7, <2>F, <3>4 DEF Extract, Judging, JudgedOn
    <3> QED
      BY <2>7, <3>3, <3>4 DEF Extract
  <2>8. CASE ExtractThrows \/ GateThrows \/ SweepThrows
    BY <2>3, <2>8, <2>F DEF ExtractThrows, GateThrows, SweepThrows
  <2>9. CASE NothingToExtract
    BY <2>6, <2>9 DEF NothingToExtract, BeginGate, Judging
  <2>10. CASE NoLens
    <3>1. Len(Lenses) = 0
      BY <2>10 DEF NoLens
    <3>2. ~Modifier
      BY <2>0, <3>1, LensesShape
    <3> QED
      BY <2>1, <2>2, <2>10, <3>2 DEF NoLens, Judging, JudgedOn
  <2>11. CASE LensAction
    <3>1. /\ phase = "gate" /\ UNCHANGED <<order, round, change, onDisk, pending, report>>
          /\ AnswerStep \/ BuildStep
      BY <2>11, LensStep DEF InRounds
    <3>2. CASE AnswerStep
      BY <2>11, <3>2, AnswerIsJudged
    <3>3. CASE BuildStep
      <4>1. GateSoFar => GateSoFar'
        BY <2>1, <3>1, <3>3 DEF GateSoFar, BuildStep, SuiteSaw
      <4> QED
        BY <2>1, <2>2, <3>1, <3>3, <4>1 DEF Judging, BuildStep
    <3> QED
      BY <3>1, <3>2, <3>3
  <2>12. CASE Decide
    BY <2>1, <2>2, <2>12 DEF Judging, Decide
  <2>13. CASE Sweep
    BY <2>1, <2>2, <2>13 DEF Judging, Sweep
  <2>14. CASE SendsReport
    <3>1. report'.change = change /\ report'.gates = verdict.gates
      BY <2>14 DEF SendsReport, Reported
    <3> QED
      BY <2>1, <2>2, <2>14, <3>1 DEF Judging, SendsReport, Reported
  <2>15. CASE UNCHANGED roundsVars
    <3>1. UNCHANGED <<order, phase, tree, change, onDisk, results, verdict, report>>
      BY <2>15 DEF roundsVars
    <3>2. GateSoFar => GateSoFar'
      BY <2>1, <3>1 DEF GateSoFar, SuiteSaw
    <3> QED
      BY <2>1, <2>2, <3>1, <3>2 DEF Judging
  <2> QED
    BY <2>4, <2>5, <2>7, <2>8, <2>9, <2>10, <2>11, <2>12, <2>13, <2>14, <2>15
    DEF RoundsNext, LensAction
<1> QED
  BY <1>1, <1>2, TypesOfRounds, CleanHolds, PTL DEF RoundsSpec

\* A report's patch is the one on disk, and the gates beside it judged that patch, the suite
\* on a clean tree, whatever crashes, budgets and second rounds a run meets (pipeline.ts).
THEOREM ReportsAreJudged == RoundsSpec => []ReportedWorkWasJudged
<1>1. Judging => ReportedWorkWasJudged
  BY DEF Judging, JudgedOn, ReportedWorkWasJudged
<1> QED
  BY <1>1, JudgingHolds, PTL
-----------------------------------------------------------------------------
\* What a gate spends is what it takes from the clock, until the suite has passed; and a
\* second gate began with what the first had cost.
GateTime ==
  /\ Len(results) =< 2 => spent.tests = NotRun /\ (spent.image.ran \/ spent.image = NotRun)
  /\ ~order.bootstrap => spent.image = NotRun
  /\ round > 1 => left + spent.tests.took + spent.image.took >= Reserve(verdict.spent)

\* From the decision to retry to the end of the second gate there is room for all of it.
Afforded ==
  /\ round > 1 => Modifier /\ phase # "prepare"
  /\ phase = "sweep" \/ (phase = "agent" /\ round > 1) =>
       left = pending.budget + Reserve(verdict.spent)
  /\ phase = "extract" /\ round > 1 => left >= Reserve(verdict.spent)
  /\ phase = "gate" /\ Modifier /\ ~order.expectation => GateTime

\* The gate goes on with its room, or ends and not for want of time.
Affording == (phase' = "gate" /\ GateTime') \/ (phase' = "decide" /\ GateAffordedAgain)

\* An answer that is not for want of time ends no gate for want of time.
LEMMA OtherAnswer ==
  ASSUME InRounds, Judging, phase = "gate", NEW lens \in LensNames, NEW answer \in {"passed", "refused"},
         NEW measures \in Spendings, Answers(lens, answer, measures)
  PROVE  GateAffordedAgain
<1>1. /\ results \in Seq(Results) /\ Len(results) \in Nat
      /\ \A k \in 1 .. Len(results) : results[k].answer = "passed"
  BY LenProperties DEF InRounds, RoundsTypeOK, Judging, GateSoFar
<1> DEFINE result == [lens |-> lens, answer |-> answer, judged |-> tree]
<1>2. result \in Results /\ result.answer = answer /\ results' = Append(results, result)
  BY DEF InRounds, RoundsTypeOK, Results, Answers
<1> HIDE DEF result
<1>3. /\ DOMAIN results' = 1 .. Len(results) + 1
      /\ \A k \in 1 .. Len(results) : results'[k] = results[k]
      /\ results'[Len(results) + 1] = result
  <2>1. results' \in Seq(Results) /\ Len(results') = Len(results) + 1
    BY <1>1, <1>2, AppendProperties
  <2> QED
    BY <1>1, <1>2, <2>1, AppendProperties, LenProperties
<1>4. \A k \in 1 .. Len(results) + 1 : results'[k].answer # "starved"
  <2>1. \A k \in 1 .. Len(results) + 1 : k \in 1 .. Len(results) \/ k = Len(results) + 1
    BY <1>1
  <2> QED
    BY <1>1, <1>2, <1>3, <2>1
<1> QED
  BY <1>3, <1>4 DEF GateAffordedAgain

\* Where a lens of a modifier without an expectation of its own stands in the gate.
LEMMA LensPlace ==
  ASSUME InRounds, Modifier, ~order.expectation, NEW lens \in LensNames, AtLens(lens)
  PROVE  /\ Len(results) \in Nat
         /\ lens \notin {"schema", "grounded", "expectation"}
         /\ lens = "tests" => Len(results) = 2 /\ ~order.bootstrap
         /\ lens = "project-image" => Len(results) = 2 /\ order.bootstrap
         /\ lens = "review" => Len(results) = 3 /\ Len(Lenses) = 4 /\ order.review
<1> DEFINE n == Len(results) total == Len(Lenses)
<1>1. n \in Nat /\ total \in Nat /\ n < total /\ Lenses[n + 1] = lens
  BY LenProperties, LensesShape, RoundsAssumption
  DEF AtLens, NextLens, InRounds, RoundsTypeOK, Orders
<1>2. /\ total =< 4
      /\ Lenses[1] = "commit-message" /\ Lenses[2] = "self-gating"
      /\ Lenses[3] = IF order.bootstrap THEN "project-image" ELSE "tests"
      /\ \A k \in 4 .. total : Lenses[k] = "review" /\ order.review
  BY LensesShape, RoundsAssumption DEF InRounds, RoundsTypeOK, Orders
<1> HIDE DEF n, total
<1>3. (n = 0 \/ n = 1 \/ n = 2 \/ n = 3) /\ (n = 3 => total = 4)
  BY <1>1, <1>2
<1>4. n = 3 => lens = "review" /\ order.review
  BY <1>1, <1>2
<1>5. /\ n = 0 => lens = "commit-message"
      /\ n = 1 => lens = "self-gating"
      /\ n = 2 => lens = IF order.bootstrap THEN "project-image" ELSE "tests"
  BY <1>1, <1>2
<1> QED
  BY <1>1, <1>3, <1>4, <1>5 DEF n, total

\* What a second gate may count on, whatever it has measured so far.
LEMMA RoomLeft ==
  ASSUME NEW v \in Spendings, NEW s \in Spendings, NEW clock \in Int,
         clock + s.tests.took + s.image.took >= Reserve(v),
         s.image.took = 0 \/ NoSlower(v.image, s.image)
  PROVE  /\ s.tests.took = 0 /\ Measured(v.tests) => clock > 0
         /\ s.tests.took = 0 /\ s.image.took = 0 /\ Measured(v.image) => clock > 0
         /\ (s.tests.took = 0 \/ NoSlower(v.tests, s.tests)) /\ Measured(v.review) => clock > 0
<1> DEFINE vt == v.tests.took vr == v.review.took vi == v.image.took
           st == s.tests.took si == s.image.took
<1>1. vt \in Nat /\ vr \in Nat /\ vi \in Nat /\ st \in Nat /\ si \in Nat
  BY ReserveType
<1>2. clock + st + si >= vt + vr + vi
  BY DEF Reserve
<1>3. si =< vi
  BY <1>1 DEF NoSlower, Measured, Unmeasured
<1>4. /\ Measured(v.tests) => vt > 0
      /\ Measured(v.image) => vi > 0
      /\ Measured(v.review) => vr > 0
      /\ st = 0 \/ NoSlower(v.tests, s.tests) => st =< vt
  BY <1>1 DEF NoSlower, Measured, Unmeasured
<1> HIDE DEF vt, vr, vi, st, si
<1>5. /\ st = 0 /\ vt > 0 => clock > 0
      /\ st = 0 /\ si = 0 /\ vi > 0 => clock > 0
      /\ st =< vt /\ vr > 0 => clock > 0
  BY <1>1, <1>2, <1>3
<1> QED
  BY <1>4, <1>5 DEF st, si

\* A suite that did not run took no time.
LEMMA NothingMeasured == NotRun.took = 0 /\ NotRun.ran = FALSE
BY DEF NotRun, Took, Unmeasured

\* The suite, of the checkout or of the image.
LEMMA SuiteTime ==
  ASSUME InRounds, Judging, Modifier, ~order.expectation, phase = "gate", GateTime, order' = order,
         round' = round, NEW lens \in {"tests", "project-image"}, AtLens(lens), SuiteAnswer(lens)
  PROVE  Affording
<1> DEFINE v == verdict.spent
<1>0. /\ spent \in Spendings /\ v \in Spendings /\ left \in Int /\ left =< Timeout /\ Timeout \in Nat
      /\ results \in Seq(Results) /\ lens \in LensNames
  BY RoundsAssumption DEF InRounds, RoundsTypeOK, GateVerdicts, LensNames
<1>1. Len(results) = 2 /\ (lens = "tests" => ~order.bootstrap) /\ (lens = "project-image" => order.bootstrap)
  BY <1>0, LensPlace
<1>2. spent.tests.took = 0 /\ (~order.bootstrap => spent.image.took = 0)
  BY <1>1, NothingMeasured DEF GateTime
<1>3. CASE left =< 0 /\ Answers(lens, "starved", [spent EXCEPT !.tests = NotRun])
  <2>1. phase' = "decide" /\ verdict'.spent = [spent EXCEPT !.tests = NotRun]
    BY <1>3 DEF Answers
  <2>2. verdict'.spent.image = spent.image
    BY <1>0, <2>1, MeasureShapes, SpentUpdates
  <2>3. ASSUME round > 1, NoSlower(v.tests, verdict'.spent.tests),
               order.bootstrap => NoSlower(v.image, verdict'.spent.image)
        PROVE  FALSE
    <3>1. spent.image.took = 0 \/ NoSlower(v.image, spent.image)
      BY <1>2, <2>2, <2>3, Zenon
    <3>2. Measured(v.tests) /\ left + spent.tests.took + spent.image.took >= Reserve(v)
      BY <2>3 DEF NoSlower, GateTime
    <3>3. left > 0
      BY <1>0, <1>2, <3>1, <3>2, RoomLeft
    <3> QED
      BY <1>0, <1>3, <3>3
  <2> HIDE DEF v
  <2>4. GateAffordedAgain
    BY <2>3, Zenon DEF GateAffordedAgain, v
  <2> QED
    BY <2>1, <2>4 DEF Affording
<1>4. ASSUME NEW took \in 1 .. left, left' = left - took, NEW answer \in {"passed", "refused"},
             Answers(lens, answer, [spent EXCEPT !.tests = Took(TRUE, took)])
      PROVE  Affording
  <2>1. took \in 0 .. Timeout
    BY <1>0
  <2>2. [spent EXCEPT !.tests = Took(TRUE, took)] \in Spendings
    BY <1>0, <2>1, MeasureShapes, SpentUpdates
  <2>3. GateAffordedAgain
    BY <1>0, <1>4, <2>2, OtherAnswer
  <2>4. CASE phase' = "decide"
    BY <2>3, <2>4 DEF Affording
  <2>5. CASE phase' # "decide"
    <3>1. /\ phase' = "gate" /\ verdict' = verdict /\ Len(results') = 3
          /\ spent' = [spent EXCEPT !.tests = Took(TRUE, took)]
      <4> DEFINE result == [lens |-> lens, answer |-> answer, judged |-> tree]
      <4>1. result \in Results /\ results' = Append(results, result)
        BY <1>0, <1>4 DEF Answers, Results, InRounds, RoundsTypeOK
      <4> HIDE DEF result
      <4>2. Len(results') = Len(results) + 1
        BY <1>0, <4>1, AppendProperties
      <4>3. Len(results') = 3
        BY <1>1, <4>2
      <4> QED
        BY <1>4, <2>5, <4>3 DEF Answers
    <3>2. spent'.tests.took = took /\ spent'.image = spent.image
      <4>1. Took(TRUE, took) \in Measures /\ Took(TRUE, took).took = took
        BY <2>1, MeasureShapes
      <4> QED
        BY <1>0, <3>1, <4>1, SpentUpdates
    <3>3. ASSUME round > 1
          PROVE  left' + spent'.tests.took + spent'.image.took >= Reserve(verdict'.spent)
      <4> DEFINE si == spent.image.took reserve == Reserve(v)
      <4>1. si \in Nat /\ reserve \in Nat
        BY <1>0, ReserveType
      <4>2. left + spent.tests.took + si >= reserve
        BY <3>3 DEF GateTime
      <4> HIDE DEF si, reserve
      <4>3. left' + took + si >= reserve
        BY <1>0, <1>2, <1>4, <4>1, <4>2
      <4> QED
        BY <3>1, <3>2, <4>3 DEF si, reserve
    <3>4. NotRun' = NotRun
      BY DEF NotRun, Took, Unmeasured
    <3>5. GateTime'
      <4>1. ~(Len(results') =< 2)
        BY <3>1
      <4>2. ~order'.bootstrap => spent'.image = NotRun'
        <5>1. ~order.bootstrap => spent.image = NotRun
          BY DEF GateTime
        <5> QED
          BY <3>2, <3>4, <5>1
      <4>3. round' > 1 => left' + spent'.tests.took + spent'.image.took >= Reserve(verdict.spent)'
        BY <3>3 DEF Reserve
      <4> QED
        BY <4>1, <4>2, <4>3 DEF GateTime
    <3> QED
      BY <3>1, <3>5 DEF Affording
  <2> QED
    BY <2>4, <2>5
<1>5. CASE Answers(lens, "refused", [spent EXCEPT !.tests = Took(TRUE, Unmeasured)])
  <2>1. [spent EXCEPT !.tests = Took(TRUE, Unmeasured)] \in Spendings
    BY <1>0, MeasureShapes, SpentUpdates
  <2>2. phase' = "decide" /\ GateAffordedAgain
    BY <1>0, <1>5, <2>1, OtherAnswer DEF Answers
  <2> QED
    BY <2>2 DEF Affording
<1>6. \/ left =< 0 /\ Answers(lens, "starved", [spent EXCEPT !.tests = NotRun])
      \/ \E took \in 1 .. left, answer \in {"passed", "refused"} :
           left' = left - took /\ Answers(lens, answer, [spent EXCEPT !.tests = Took(TRUE, took)])
      \/ Answers(lens, "refused", [spent EXCEPT !.tests = Took(TRUE, Unmeasured)])
  BY Zenon DEF SuiteAnswer
<1> QED
  BY <1>3, <1>4, <1>5, <1>6, Zenon

\* The image of a bootstrap.
LEMMA ImageTime ==
  ASSUME InRounds, Judging, Modifier, ~order.expectation, phase = "gate", GateTime,
         order' = order, round' = round, ImageRefused \/ BuildImage
  PROVE  Affording
<1> DEFINE v == verdict.spent
<1>0. /\ spent \in Spendings /\ v \in Spendings /\ left \in Int /\ left =< Timeout /\ Timeout \in Nat
      /\ "project-image" \in LensNames
  BY RoundsAssumption DEF InRounds, RoundsTypeOK, GateVerdicts, LensNames
<1>1. Len(results) = 2 /\ order.bootstrap /\ ~spent.image.ran
  BY <1>0, LensPlace DEF ImageRefused, BuildImage
<1>2. spent.tests.took = 0 /\ spent.image.took = 0 /\ spent.tests = NotRun
  BY <1>1, NothingMeasured DEF GateTime
<1>3. CASE ImageRefused
  <2>1. PICK answer \in {"passed", "refused", "starved"} :
          /\ answer = "starved" => left =< 0
          /\ Answers("project-image", answer, [spent EXCEPT !.image = NotRun])
    BY <1>3 DEF ImageRefused
  <2>2. [spent EXCEPT !.image = NotRun] \in Spendings /\ [spent EXCEPT !.image = NotRun].image = NotRun
        /\ [spent EXCEPT !.image = NotRun].tests = spent.tests
    <3>1. NotRun \in Measures
      BY MeasureShapes
    <3> QED
      BY <1>0, <3>1, SpentUpdates
  <2>3. GateAffordedAgain
    <3>1. CASE answer \in {"passed", "refused"}
      BY <1>0, <2>1, <2>2, <3>1, OtherAnswer
    <3>2. CASE answer = "starved"
      <4>1. ASSUME round > 1, NoSlower(v.image, verdict'.spent.image)
            PROVE  FALSE
        <5>1. Measured(v.image) /\ left + spent.tests.took + spent.image.took >= Reserve(v)
          BY <4>1 DEF NoSlower, GateTime
        <5>2. left > 0
          BY <1>0, <1>2, <5>1, RoomLeft
        <5> QED
          BY <1>0, <2>1, <3>2, <5>2
      <4> HIDE DEF v
      <4> QED
        BY <1>1, <4>1, Zenon DEF GateAffordedAgain, v
    <3> QED
      BY <3>1, <3>2
  <2>4. CASE phase' = "decide"
    BY <2>3, <2>4 DEF Affording
  <2>5. CASE phase' # "decide"
    <3>1. /\ phase' = "gate" /\ verdict' = verdict
          /\ spent' = [spent EXCEPT !.image = NotRun] /\ left' = left
      BY <1>3, <2>1, <2>5 DEF Answers, ImageRefused
    <3>2. spent'.tests = spent.tests /\ spent'.image = NotRun
      BY <2>2, <3>1
    <3>3. NotRun' = NotRun
      BY DEF NotRun, Took, Unmeasured
    <3>4. GateTime'
      BY <1>2, <3>1, <3>2, <3>3, NothingMeasured DEF GateTime, Reserve
    <3> QED
      BY <3>1, <3>4 DEF Affording
  <2> QED
    BY <2>4, <2>5
<1>4. CASE BuildImage
  <2>1. PICK took \in 1 .. left :
          /\ left' = left - took
          /\ \/ /\ spent' = [spent EXCEPT !.image = Took(TRUE, took)]
                /\ UNCHANGED <<order, phase, round, change, onDisk, results, verdict, pending,
                               report>>
             \/ Answers("project-image", "refused", [spent EXCEPT !.image = Took(TRUE, took)])
             \/ Answers("project-image", "refused",
                        [spent EXCEPT !.image = Took(TRUE, Unmeasured)])
    BY <1>4 DEF BuildImage
  <2>2. took \in 0 .. Timeout
    BY <1>0
  <2>3. /\ [spent EXCEPT !.image = Took(TRUE, took)] \in Spendings
        /\ [spent EXCEPT !.image = Took(TRUE, Unmeasured)] \in Spendings
        /\ [spent EXCEPT !.image = Took(TRUE, took)].image = Took(TRUE, took)
        /\ [spent EXCEPT !.image = Took(TRUE, took)].tests = spent.tests
        /\ Took(TRUE, took).took = took /\ Took(TRUE, took).ran = TRUE
    <3>1. /\ Took(TRUE, took) \in Measures /\ Took(TRUE, Unmeasured) \in Measures
          /\ Took(TRUE, took).took = took /\ Took(TRUE, took).ran = TRUE
      BY <2>2, MeasureShapes
    <3> QED
      BY <1>0, <3>1, SpentUpdates
  <2>4. ASSUME NEW m \in Spendings, Answers("project-image", "refused", m)
        PROVE  Affording
    <3>1. phase' = "decide" /\ GateAffordedAgain
      BY <1>0, <2>4, OtherAnswer DEF Answers
    <3> QED
      BY <3>1 DEF Affording
  <2>5. CASE /\ spent' = [spent EXCEPT !.image = Took(TRUE, took)]
             /\ UNCHANGED <<order, phase, round, change, onDisk, results, verdict, pending, report>>
    <3>1. spent'.tests = spent.tests /\ spent'.image.took = took /\ spent'.image.ran
      BY <2>3, <2>5
    <3>2. ASSUME round > 1
          PROVE  left' + spent'.tests.took + spent'.image.took >= Reserve(v)
      <4> DEFINE reserve == Reserve(v)
      <4>1. reserve \in Nat
        BY <1>0, ReserveType
      <4>2. left + spent.tests.took + spent.image.took >= reserve
        BY <3>2 DEF GateTime
      <4> HIDE DEF reserve
      <4>3. left' + 0 + took >= reserve
        BY <1>0, <1>2, <2>1, <4>1, <4>2
      <4> QED
        BY <1>2, <3>1, <4>3 DEF reserve
    <3>3. NotRun' = NotRun
      BY DEF NotRun, Took, Unmeasured
    <3>4. GateTime'
      BY <1>1, <1>2, <2>5, <3>1, <3>2, <3>3 DEF GateTime, Reserve
    <3> QED
      BY <2>5, <3>4 DEF Affording
  <2> QED
    BY <2>1, <2>3, <2>4, <2>5
<1> QED
  BY <1>3, <1>4

\* The reviewer is the last to be asked.
LEMMA ReviewTime ==
  ASSUME InRounds, Judging, Modifier, ~order.expectation, phase = "gate", GateTime, ReviewLens
  PROVE  Affording
<1> DEFINE v == verdict.spent
<1>0. /\ spent \in Spendings /\ v \in Spendings /\ left \in Int /\ left =< Timeout /\ Timeout \in Nat
      /\ "review" \in LensNames /\ results \in Seq(Results)
  BY RoundsAssumption DEF InRounds, RoundsTypeOK, GateVerdicts, LensNames
<1>1. Len(results) = 3 /\ Len(Lenses) = 4 /\ order.review
  BY <1>0, LensPlace DEF ReviewLens
<1>2. ASSUME NEW answer, NEW m, Answers("review", answer, m)
      PROVE  phase' = "decide" /\ verdict'.spent = m
  BY <1>0, <1>1, <1>2, AppendProperties DEF Answers
<1>3. ASSUME NEW answer \in {"passed", "refused"}, NEW m \in Measures,
             Answers("review", answer, [spent EXCEPT !.review = m])
      PROVE  Affording
  <2>1. [spent EXCEPT !.review = m] \in Spendings
    BY <1>0, SpentUpdates
  <2> QED
    BY <1>0, <1>2, <1>3, <2>1, OtherAnswer DEF Affording
<1>4. CASE left =< 0 /\ Answers("review", "starved", [spent EXCEPT !.review = NotRun])
  <2>1. phase' = "decide" /\ verdict'.spent.tests = spent.tests /\ verdict'.spent.image = spent.image
    <3>1. NotRun \in Measures
      BY MeasureShapes
    <3>2. phase' = "decide" /\ verdict'.spent = [spent EXCEPT !.review = NotRun]
      BY <1>2, <1>4
    <3> QED
      BY <1>0, <3>1, <3>2, SpentUpdates
  <2>2. ASSUME round > 1, NoSlower(v.tests, verdict'.spent.tests),
               order.bootstrap => NoSlower(v.image, verdict'.spent.image), Measured(v.review)
        PROVE  FALSE
    <3>1. spent.image.took = 0 \/ NoSlower(v.image, spent.image)
      <4>1. CASE order.bootstrap
        BY <2>1, <2>2, <4>1, Zenon
      <4>2. CASE ~order.bootstrap
        BY <4>2, NothingMeasured DEF GateTime
      <4> QED
        BY <4>1, <4>2
    <3>2. NoSlower(v.tests, spent.tests) /\ left + spent.tests.took + spent.image.took >= Reserve(v)
      BY <2>1, <2>2 DEF GateTime
    <3>3. left > 0
      BY <1>0, <2>2, <3>1, <3>2, RoomLeft
    <3> QED
      BY <1>0, <1>4, <3>3
  <2> HIDE DEF v
  <2>3. GateAffordedAgain
    BY <1>1, <2>2, Zenon DEF GateAffordedAgain, v
  <2> QED
    BY <2>1, <2>3 DEF Affording
<1>5. \/ Answers("review", "passed", [spent EXCEPT !.review = NotRun])
      \/ left =< 0 /\ Answers("review", "starved", [spent EXCEPT !.review = NotRun])
      \/ \E took \in 1 .. left, w \in ReviewVerdicts :
           Answers("review", w.answer, [spent EXCEPT !.review = Took(w.ran, took)])
  BY Zenon DEF ReviewLens, Reviewed
<1>6. \A w \in ReviewVerdicts : w.ran \in BOOLEAN /\ w.answer \in {"passed", "refused"}
  BY ReviewShapes
<1>7. \A took \in 1 .. left, w \in ReviewVerdicts : Took(w.ran, took) \in Measures
  <2>1. \A took \in 1 .. left : took \in 0 .. Timeout
    BY <1>0
  <2> QED
    BY <1>6, <2>1, MeasureShapes
<1>8. NotRun \in Measures
  BY MeasureShapes
<1> QED
  BY <1>3, <1>4, <1>5, <1>6, <1>7, <1>8, Zenon

\* Whichever lens answers.
LEMMA GateIsAfforded ==
  ASSUME InRounds, Judging, Modifier, ~order.expectation, phase = "gate", GateTime, LensAction
  PROVE  Affording
<1>0. order' = order /\ round' = round
  BY LensStep DEF InRounds
<1>1. CASE PatchLens
  <2>1. PICK lens \in {"commit-message", "self-gating"}, answer \in {"passed", "refused"} :
          AtLens(lens) /\ Answers(lens, answer, spent)
    BY <1>1 DEF PatchLens
  <2>2. spent \in Spendings /\ lens \in LensNames /\ results \in Seq(Results)
    BY <2>1 DEF InRounds, RoundsTypeOK, LensNames
  <2>3. CASE phase' = "decide"
    BY <2>1, <2>2, <2>3, OtherAnswer DEF Affording
  <2>4. CASE phase' # "decide"
    <3>1. phase' = "gate" /\ verdict' = verdict /\ spent' = spent /\ left' = left
      BY <1>1, <2>1, <2>4 DEF Answers, PatchLens
    <3>2. Len(results') =< 2 => Len(results) =< 2
      <4> DEFINE result == [lens |-> lens, answer |-> answer, judged |-> tree]
      <4>1. result \in Results /\ results' = Append(results, result)
        BY <2>1, <2>2 DEF Answers, Results, InRounds, RoundsTypeOK
      <4> HIDE DEF result
      <4>2. Len(results') = Len(results) + 1 /\ Len(results) \in Nat
        BY <2>2, <4>1, AppendProperties, LenProperties
      <4> QED
        BY <4>2
    <3>3. GateTime'
      BY <1>0, <3>1, <3>2 DEF GateTime, Reserve, NotRun, Took, Unmeasured
    <3> QED
      BY <3>1, <3>3 DEF Affording
  <2> QED
    BY <2>3, <2>4
<1>2. CASE DocumentLens
  <2>1. PICK lens \in {"schema", "grounded"} : AtLens(lens)
    BY <1>2 DEF DocumentLens
  <2>2. lens \in LensNames
    BY <2>1 DEF LensNames
  <2> QED
    BY <2>1, <2>2, LensPlace
<1>3. CASE ExpectationLens
  <2>1. "expectation" \in LensNames /\ AtLens("expectation")
    BY <1>3 DEF ExpectationLens, LensNames
  <2> QED
    BY <2>1, LensPlace
<1>4. CASE SuiteLens
  BY <1>0, <1>4, SuiteTime DEF SuiteLens
<1>5. CASE ImageSuite
  BY <1>0, <1>5, SuiteTime DEF ImageSuite
<1> QED
  BY <1>0, <1>1, <1>2, <1>3, <1>4, <1>5, ImageTime, ReviewTime DEF LensAction

\* Every step keeps room for the gate of a later round.
LEMMA AffordedHolds == RoundsSpec => []Afforded
<1>1. RoundsInit => Afforded
  BY DEF RoundsInit, Afforded
<1>2. InRounds /\ Judging /\ Afforded /\ [RoundsNext]_roundsVars => Afforded'
  <2> SUFFICES ASSUME InRounds, Judging, Afforded, [RoundsNext]_roundsVars
               PROVE  Afforded'
    OBVIOUS
  <2> DEFINE reserve == Reserve(verdict.spent)
  <2>0. /\ round \in 1 .. MaxRounds /\ MaxRounds \in Nat /\ left \in Int
        /\ reserve \in Nat /\ pending.budget \in Nat
    BY RoundsAssumption, ReserveType DEF InRounds, RoundsTypeOK, GateVerdicts
  <2>1. ASSUME UNCHANGED <<order, verdict>>
        PROVE  (Modifier' <=> Modifier) /\ Reserve(verdict.spent)' = reserve
    BY <2>1 DEF Modifier, Reserve
  <2> HIDE DEF reserve
  <2>F. Fail \/ Refuse => phase' = "done"
    BY DEF Fail, Refuse, Reported
  \* Where the run is past its rounds nothing is owed any more.
  <2>2. ASSUME order' = order, round' \in 1 .. round, phase' \in {"decide", "report", "done"}
        PROVE  Afforded'
    <3>1. (Modifier' <=> Modifier) /\ (round' > 1 => round > 1)
      BY <2>0, <2>2 DEF Modifier
    <3> QED
      BY <2>2, <3>1 DEF Afforded
  <2>3. CASE Prepare
    <3>1. round = 1 /\ UNCHANGED <<order, round, verdict>> /\ phase' \in {"agent", "done"}
      BY <2>0, <2>3, <2>F DEF Prepare, Refuse, EnvironmentRefused, Furnish, Afforded
    <3> QED
      BY <3>1 DEF Afforded
  <2>4. CASE NoLens \/ GateThrows \/ SweepThrows \/ ExtractThrows \/ SendsReport
    <3>1. order' = order /\ round' = round /\ phase' \in {"decide", "done"}
      BY <2>4, <2>F DEF NoLens, GateThrows, SweepThrows, ExtractThrows, SendsReport, Reported
    <3> QED
      BY <2>0, <2>2, <3>1
  <2>5. CASE AgentFinishes
    <3>1. /\ phase = "agent" /\ UNCHANGED <<order, round, verdict>> /\ phase' \in {"extract", "done"}
      BY <2>5, <2>F DEF AgentFinishes
    <3>2. PICK took \in 0 .. pending.budget : left' = left - took
      BY <2>5 DEF AgentFinishes, AgentBudget
    <3>3. round > 1 => left' >= reserve
      <4>1. round > 1 => left = pending.budget + reserve
        BY <3>1 DEF Afforded, reserve
      <4> QED
        BY <2>0, <3>2, <4>1
    <3>4. (Modifier' <=> Modifier) /\ Reserve(verdict.spent)' = reserve
      BY <2>1, <3>1
    <3> QED
      BY <3>1, <3>3, <3>4 DEF Afforded
  <2>6. CASE AgentFails
    <3>1. order' = order /\ phase' \in {"report", "done"} /\ round' \in 1 .. round
      BY <2>0, <2>6, <2>F DEF AgentFails
    <3> QED
      BY <2>2, <3>1
  <2>7. ASSUME phase = "extract", UNCHANGED <<order, round, left, verdict>>, BeginGate
        PROVE  Afforded'
    <3>1. /\ phase' = "gate" /\ Len(results') = 0 /\ spent' = NothingSpent
          /\ (Modifier' <=> Modifier) /\ Reserve(verdict.spent)' = reserve
      BY <2>1, <2>7 DEF BeginGate
    <3>2. /\ NothingSpent.tests = NotRun /\ NothingSpent.image = NotRun /\ NotRun.took = 0
          /\ NotRun' = NotRun
      BY DEF NothingSpent, NotRun, Took, Unmeasured
    <3>3. round > 1 => left >= reserve
      BY <2>7 DEF Afforded, reserve
    <3>4. round' > 1 => left' + spent'.tests.took + spent'.image.took >= Reserve(verdict.spent)'
      <4>1. round > 1 => left + 0 + 0 >= reserve
        BY <2>0, <3>3
      <4> QED
        BY <2>7, <3>1, <3>2, <4>1
    <3>5. GateTime'
      BY <3>1, <3>2, <3>4 DEF GateTime
    <3> QED
      BY <2>7, <3>1, <3>5 DEF Afforded
  <2>8. CASE Extract
    BY <2>0, <2>2, <2>7, <2>8, <2>F DEF Extract
  <2>9. CASE NothingToExtract
    BY <2>7, <2>9 DEF NothingToExtract
  <2>10. CASE LensAction
    <3>1. /\ phase = "gate" /\ UNCHANGED <<order, round>> /\ phase' \in {"gate", "decide"}
      BY <2>10, LensStep DEF InRounds, AnswerStep, BuildStep, Answers
    <3>2. ASSUME Modifier, ~order.expectation, phase' = "gate"
          PROVE  GateTime'
      BY <2>10, <3>1, <3>2, GateIsAfforded DEF Affording, Afforded
    <3>3. Modifier' <=> Modifier
      BY <3>1 DEF Modifier
    <3> QED
      BY <3>1, <3>2, <3>3 DEF Afforded
  <2>11. CASE Decide
    <3>1. /\ UNCHANGED <<order, round, left, verdict>>
          /\ phase = "decide"
          /\ \/ phase' = "report"
             \/ /\ phase' = "sweep" /\ Retries
                /\ pending' = [budget |-> left - reserve, reserve |-> reserve]
      BY <2>11, Zenon DEF Decide, reserve
    <3>2. CASE phase' = "sweep" /\ Retries /\ pending' = [budget |-> left - reserve, reserve |-> reserve]
      <4>1. Modifier
        BY <3>2 DEF Retries
      <4>2. pending'.budget = left - reserve
        BY <3>2
      <4>3. left' = pending'.budget + Reserve(verdict.spent)'
        BY <2>0, <2>1, <3>1, <4>2
      <4>4. Modifier'
        BY <2>1, <3>1, <4>1
      <4> QED
        BY <3>2, <4>3, <4>4 DEF Afforded
    <3> QED
      BY <2>0, <2>2, <3>1, <3>2
  <2>12. CASE Sweep
    <3>1. /\ phase = "sweep" /\ UNCHANGED <<order, left, verdict, pending>> /\ Modifier
          /\ (phase' = "report" /\ round' = round) \/ phase' = "agent"
      BY <2>12 DEF Sweep, InRounds
    <3>2. left' = pending'.budget + Reserve(verdict.spent)' /\ Modifier'
      BY <2>1, <3>1 DEF Afforded, reserve
    <3> QED
      BY <2>0, <2>2, <3>1, <3>2 DEF Afforded
  <2>13. CASE UNCHANGED roundsVars
    <3>1. UNCHANGED <<order, phase, round, left, results, spent, verdict, pending>>
      BY <2>13 DEF roundsVars
    <3>2. GateTime => GateTime'
      BY <3>1 DEF GateTime, Reserve, NotRun, Took, Unmeasured
    <3> QED
      BY <2>1, <3>1, <3>2 DEF Afforded, reserve
  <2> QED
    BY <2>3, <2>4, <2>5, <2>6, <2>8, <2>9, <2>10, <2>11, <2>12, <2>13 DEF RoundsNext, LensAction
<1> QED
  BY <1>1, <1>2, TypesOfRounds, JudgingHolds, PTL DEF RoundsSpec

\* A retry is only taken with room for its gate: where the first round measured all of it
\* and the second is no slower, no lens is refused for want of time (retry.ts).
THEOREM SecondGateAffordable == RoundsSpec => SecondGateIsNotStarved
<1>1. InRounds /\ Judging /\ Afforded /\ [RoundsNext]_roundsVars
        => [~order.expectation => GateAffordedAgain]_roundsVars
  <2> SUFFICES ASSUME InRounds, Judging, Afforded, RoundsNext, ~order.expectation, phase = "gate",
                      phase' = "decide", round > 1
               PROVE  GateAffordedAgain
    BY DEF GateAffordedAgain
  <2>1. Modifier
    BY DEF Afforded
  <2>2. LensAction
    <3>1. ~NoLens
      <4>1. NoLens => Len(Lenses) = 0
        BY DEF NoLens
      <4> QED
        BY <2>1, <4>1, LensesShape, RoundsAssumption DEF InRounds, RoundsTypeOK, Orders
    <3>2. Fail => phase' = "done"
      BY DEF Fail, Reported
    <3> QED
      BY <3>1, <3>2
      DEF RoundsNext, LensAction, Prepare, AgentFinishes, AgentFails, Extract, ExtractThrows,
          NothingToExtract, GateThrows, Decide, Sweep, SweepThrows, SendsReport
  <2> QED
    BY <2>1, <2>2, GateIsAfforded DEF Affording, Afforded
<1> QED
  BY <1>1, TypesOfRounds, JudgingHolds, AffordedHolds, PTL DEF RoundsSpec, SecondGateIsNotStarved

-----------------------------------------------------------------------------
(* From report to pull request (publish.ts).                               *)

\* A runner past its report stands behind a dispatched run with a row; what is on the
\* remote, and in the row, follows its stage.
HeardOf ==
  /\ stage \in [Run -> Stages]
  /\ tests \in [Run -> {"passed", "failed", "not run", "absent"}]
  /\ recorded \in [Run -> {"none", "error", "declined", "dispatched", "changes-requested"}]
  /\ row \in [Run -> {"none", "unpublished", "published"}]
  /\ \A r \in Run :
       /\ stage[r] \in {"apply", "count", "push", "create", "announce"} \/ r \in branches =>
            recorded[r] = "dispatched" /\ row[r] # "none" /\ tests[r] = "passed"
       /\ r \in branches => stage[r] \in {"create", "announce", "done"}
       /\ stage[r] \in {"create", "announce"} => r \in branches
       /\ stage[r] = "announce" \/ row[r] = "published" => r \in ever
  /\ branches \subseteq Run

\* Every step keeps a publisher behind the answer to its report.
LEMMA HeardOfHolds == PublishSpec => []HeardOf
<1>1. PublishInit => HeardOf
  BY ZenonT(30) DEF PublishInit, HeardOf, Stages
<1>2. HeardOf /\ [PublishNext]_publishVars => HeardOf'
  <2> SUFFICES ASSUME HeardOf, [PublishNext]_publishVars
               PROVE  HeardOf'
    OBVIOUS
  <2> USE DEF HeardOf, Stages, Enter
  <2>1. ASSUME NEW r \in Run, Reports(r) \/ ApplyPatch(r) \/ CountOpen(r)
        PROVE  HeardOf'
    <3>1. UNCHANGED <<recorded, row, branches, ever>>
      BY <2>1 DEF Reports, ApplyPatch, CountOpen
    <3>2. CASE Reports(r)
      BY <3>1, <3>2 DEF Reports
    <3>3. CASE ApplyPatch(r)
      BY <3>1, <3>3, ZenonT(30) DEF ApplyPatch
    <3>4. CASE CountOpen(r)
      BY <3>1, <3>4, ZenonT(30) DEF CountOpen
    <3> QED
      BY <2>1, <3>2, <3>3, <3>4
  <2>2. ASSUME NEW r \in Run, ReportHandled(r)
        PROVE  HeardOf'
    <3>1. PICK outcome \in Recorded(r) : recorded' = [recorded EXCEPT ![r] = outcome]
      BY <2>2 DEF ReportHandled
    <3>2. outcome \in {"none", "error", "declined", "dispatched", "changes-requested"}
      BY DEF Recorded
    <3>3. /\ row' = [row EXCEPT ![r] = "unpublished"] /\ UNCHANGED <<tests, branches, ever>>
          /\ stage[r] = "reporting"
          /\ \/ stage' = [stage EXCEPT ![r] = "done"]
             \/ stage' = [stage EXCEPT ![r] = "apply"] /\ Publishable(r, recorded'[r])
      BY <2>2, ZenonT(30) DEF ReportHandled
    <3>4. recorded'[r] = outcome
      BY <3>1
    <3>5. r \notin branches
      BY <3>3
    <3>6. CASE stage' = [stage EXCEPT ![r] = "done"]
      BY <3>1, <3>2, <3>3, <3>5, <3>6
    <3>7. CASE stage' = [stage EXCEPT ![r] = "apply"] /\ Publishable(r, recorded'[r])
      BY <3>1, <3>2, <3>3, <3>4, <3>5, <3>7 DEF Publishable
    <3> QED
      BY <3>3, <3>6, <3>7
  <2>3. ASSUME NEW r \in Run, ReportLost(r)
        PROVE  HeardOf'
    BY <2>3 DEF ReportLost
  <2>4. ASSUME NEW r \in Run, Push(r)
        PROVE  HeardOf'
    BY <2>4, ZenonT(30) DEF Push
  <2>5. ASSUME NEW r \in Run, CreatePullRequest(r)
        PROVE  HeardOf'
    BY <2>5, ZenonT(30) DEF CreatePullRequest
  <2>6. ASSUME NEW r \in Run, Announce(r)
        PROVE  HeardOf'
    BY <2>6 DEF Announce
  <2>7. ASSUME NEW r \in Run, RunnerDies(r)
        PROVE  HeardOf'
    BY <2>7 DEF RunnerDies, Busy
  <2>8. CASE (\E o \in Outsider : OpenOne(o)) \/ (\E k \in DOMAIN prs : CloseOne(k))
    BY <2>8 DEF OpenOne, CloseOne
  <2>9. CASE UNCHANGED publishVars
    BY <2>9 DEF publishVars
  <2> QED
    BY <2>1, <2>2, <2>3, <2>4, <2>5, <2>6, <2>7, <2>8, <2>9 DEF PublishNext
<1> QED
  BY <1>1, <1>2, PTL DEF PublishSpec

\* No branch and no pull request without a run the control plane recorded as dispatched,
\* however runners die and answers get lost (publishIfReady).
THEOREM PublishedIsRecorded == PublishSpec => []NothingUnheardOf
<1>1. HeardOf => NothingUnheardOf
  BY DEF HeardOf, NothingUnheardOf
<1> QED
  BY <1>1, HeardOfHolds, PTL

-----------------------------------------------------------------------------
\* What is open on the remote.
PullRequests == Seq(Run \cup Outsider)

\* Opening a pull request adds that one to what is open.
LEMMA OpenAfterAppend ==
  ASSUME NEW s \in PullRequests, NEW x \in Run \cup Outsider
  PROVE  /\ Append(s, x) \in PullRequests
         /\ \A p : Contains(Append(s, x), p) => Contains(s, p) \/ p = x
<1>1. /\ Append(s, x) \in PullRequests
      /\ Len(s) \in Nat /\ Len(Append(s, x)) = Len(s) + 1
      /\ \A i \in 1 .. Len(s) : Append(s, x)[i] = s[i]
      /\ Append(s, x)[Len(s) + 1] = x
  BY AppendProperties, LenProperties DEF PullRequests
<1>2. ASSUME NEW p, NEW i \in 1 .. Len(s) + 1, Append(s, x)[i] = p
      PROVE  Contains(s, p) \/ p = x
  <2>1. CASE i = Len(s) + 1
    BY <1>1, <1>2, <2>1
  <2>2. CASE i \in 1 .. Len(s)
    BY <1>1, <1>2, <2>2 DEF Contains
  <2> QED
    BY <1>1, <2>1, <2>2
<1> QED
  BY <1>1, <1>2 DEF Contains

\* Closing a pull request adds nothing to what is open.
LEMMA OpenAfterRemoval ==
  ASSUME NEW s \in PullRequests, NEW k \in DOMAIN s
  PROVE  /\ RemoveAt(s, k) \in PullRequests
         /\ \A p : Contains(RemoveAt(s, k), p) => Contains(s, p)
<1>1. /\ Len(s) \in Nat /\ k \in 1 .. Len(s)
      /\ \A i \in 1 .. Len(s) : s[i] \in Run \cup Outsider
  BY LenProperties, ElementOfSeq DEF PullRequests
<1> DEFINE before == SubSeq(s, 1, k - 1)
           after == SubSeq(s, k + 1, Len(s))
<1>2. /\ before \in PullRequests /\ Len(before) = k - 1
      /\ \A i \in 1 .. k - 1 : before[i] = s[i]
  <2>1. \A i \in 1 .. k - 1 : s[i] \in Run \cup Outsider
    BY <1>1
  <2> QED
    BY <1>1, <2>1, SubSeqProperties DEF PullRequests
<1>3. /\ after \in PullRequests /\ Len(after) = Len(s) - k
      /\ \A i \in 1 .. Len(s) - k : after[i] = s[k + i]
  <2>1. \A i \in k + 1 .. Len(s) : s[i] \in Run \cup Outsider
    BY <1>1
  <2> QED
    BY <1>1, <2>1, SubSeqProperties DEF PullRequests
<1> HIDE DEF before, after
<1>4. /\ before \o after \in PullRequests
      /\ Len(before \o after) = Len(s) - 1
      /\ \A i \in 1 .. Len(s) - 1 :
           (before \o after)[i] = IF i <= k - 1 THEN before[i] ELSE after[i - (k - 1)]
  <2>1. before \in PullRequests /\ after \in PullRequests
    BY <1>2, <1>3
  <2>2. /\ before \o after \in PullRequests
        /\ Len(before \o after) = Len(before) + Len(after)
        /\ \A i \in 1 .. Len(before) + Len(after) :
             (before \o after)[i] = IF i <= Len(before) THEN before[i] ELSE after[i - Len(before)]
    BY <2>1, ConcatProperties DEF PullRequests
  <2>3. Len(before) = k - 1 /\ Len(after) = Len(s) - k
    BY <1>2, <1>3
  <2>4. Len(before) + Len(after) = Len(s) - 1
    BY <1>1, <2>3
  <2> QED
    BY <2>2, <2>3, <2>4
<1>5. ASSUME NEW i \in 1 .. Len(s) - 1
      PROVE  Contains(s, (before \o after)[i])
  <2>1. CASE i \in 1 .. k - 1
    BY <1>1, <1>2, <1>4, <2>1 DEF Contains
  <2>2. CASE i \in k .. Len(s) - 1
    <3>1. after[i - (k - 1)] = s[i + 1]
      BY <1>1, <1>3, <2>2
    <3>2. (before \o after)[i] = after[i - (k - 1)] /\ i + 1 \in 1 .. Len(s)
      BY <1>1, <1>4, <2>2
    <3> QED
      BY <3>1, <3>2 DEF Contains
  <2>3. i \in 1 .. k - 1 \/ i \in k .. Len(s) - 1
    BY <1>1
  <2> QED
    BY <2>1, <2>2, <2>3
<1> QED
  BY <1>4, <1>5 DEF RemoveAt, before, after, Contains

-----------------------------------------------------------------------------
\* What gh lists reaches down to the oldest of the runs' pull requests.
AllOfOursListed == Open \subseteq Listed

\* No more publishers than slots, and the cap as the invariant it is.
Capped ==
  /\ stage \in [Run -> Stages]
  /\ prs \in PullRequests
  /\ IsFiniteSet(Busy) /\ Cardinality(Busy) =< Slots
  /\ IsFiniteSet(Open)
  /\ CapHoldsUpToTheSlots

\* Counted publishers are busy ones.
LEMMA CountedAreBusy == Counted \subseteq Busy
BY DEF Counted, Busy

\* A step that brings no new pull request and no new publisher past the count keeps the cap.
LEMMA CapKept ==
  ASSUME Capped, stage' \in [Run -> Stages], prs' \in PullRequests,
         Busy' \subseteq Busy, Open' \cup Counted' \subseteq Open \cup Counted
  PROVE  Capped'
<1>1. IsFiniteSet(Open \cup Counted) /\ IsFiniteSet(Counted)
  BY CountedAreBusy, FS_Subset, FS_Union DEF Capped
<1>2. /\ IsFiniteSet(Open' \cup Counted')
      /\ Cardinality(Open' \cup Counted') =< Cardinality(Open \cup Counted)
  BY <1>1, FS_Subset
<1>3. IsFiniteSet(Busy') /\ Cardinality(Busy') =< Cardinality(Busy)
  BY FS_Subset DEF Capped
<1>4. IsFiniteSet(Open')
  BY <1>2, FS_Subset
<1>5. /\ Cardinality(Open \cup Counted) \in Nat /\ Cardinality(Open' \cup Counted') \in Nat
      /\ Cardinality(Busy) \in Nat /\ Cardinality(Busy') \in Nat
  BY <1>1, <1>2, <1>3, FS_CardinalityType DEF Capped
<1> QED
  BY <1>2, <1>3, <1>4, <1>5, PublishAssumption DEF Capped, CapHoldsUpToTheSlots

\* Counting before creating, by as many runs at once as there are slots, keeps the cap up
\* to those slots.
LEMMA CapInvariant == PublishSpec /\ []AllOfOursListed => []Capped
<1>1. PublishInit => Capped
  <2> SUFFICES ASSUME PublishInit PROVE Capped
    OBVIOUS
  <2>1. prs \in PullRequests /\ Len(prs) = 0
    BY EmptySeq DEF PublishInit, PullRequests
  <2>2. Busy = {} /\ Open = {} /\ Counted = {}
    BY <2>1 DEF PublishInit, Busy, Open, Counted, Contains
  <2>3. stage \in [Run -> Stages]
    BY DEF PublishInit, Stages
  <2>4. Open \cup Counted = {}
    BY <2>2
  <2> QED
    BY <2>1, <2>2, <2>3, <2>4, FS_EmptySet, PublishAssumption DEF Capped, CapHoldsUpToTheSlots
<1>2. Capped /\ AllOfOursListed /\ [PublishNext]_publishVars => Capped'
  <2> SUFFICES ASSUME Capped, AllOfOursListed, [PublishNext]_publishVars
               PROVE  Capped'
    OBVIOUS
  <2> USE DEF Stages, Enter
  <2>0. stage \in [Run -> Stages] /\ prs \in PullRequests
    BY DEF Capped
  <2>1. ASSUME NEW r \in Run, Reports(r)
        PROVE  Capped'
    <3>1. Busy' = Busy \cup {r}
      BY <2>0, <2>1 DEF Reports, Busy
    <3>2. Counted' = Counted /\ Open' = Open
      BY <2>0, <2>1 DEF Reports, Counted, Open
    <3>3. IsFiniteSet(Busy') /\ Cardinality(Busy') =< Cardinality(Busy) + 1
      <4>1. IsFiniteSet(Busy) /\ Cardinality(Busy) \in Nat
        BY FS_CardinalityType DEF Capped
      <4> HIDE DEF Busy
      <4> QED
        BY <3>1, <4>1, FS_AddElement
    <3>4. Cardinality(Busy') =< Slots
      <4>1. Cardinality(Busy) \in Nat /\ Cardinality(Busy') \in Nat /\ Cardinality(Busy) < Slots
        BY <2>1, <3>3, FS_CardinalityType DEF Reports, Capped
      <4> QED
        BY <3>3, <4>1, PublishAssumption
    <3>5. stage' \in [Run -> Stages] /\ prs' \in PullRequests
      BY <2>0, <2>1 DEF Reports
    <3> QED
      BY <3>2, <3>3, <3>4, <3>5 DEF Capped, CapHoldsUpToTheSlots
  <2>2. ASSUME NEW r \in Run,
               ReportHandled(r) \/ ReportLost(r) \/ ApplyPatch(r) \/ Push(r) \/ Announce(r)
                 \/ RunnerDies(r) \/ (CountOpen(r) /\ CountOpenPullRequests >= MaxOpen)
        PROVE  Capped'
    <3> USE DEF ReportHandled, ReportLost, ApplyPatch, Push, Announce, RunnerDies, CountOpen
    <3>1. stage' \in [Run -> Stages] /\ prs' \in PullRequests /\ Open' = Open
      BY <2>0, <2>2 DEF Open
    <3>2. Busy' \subseteq Busy
      BY <2>0, <2>2 DEF Busy
    <3>3. Counted' \subseteq Counted
      BY <2>0, <2>2 DEF Counted
    <3> QED
      BY <3>1, <3>2, <3>3, CapKept
  <2>3. ASSUME NEW r \in Run, CountOpen(r), ~(CountOpenPullRequests >= MaxOpen)
        PROVE  Capped'
    <3>1. /\ stage' \in [Run -> Stages] /\ prs' \in PullRequests /\ Open' = Open
          /\ Busy' = Busy /\ Counted' = Counted \cup {r} /\ r \in Busy
      BY <2>0, <2>3 DEF CountOpen, Open, Busy, Counted
    <3>2. Listed \cap Run = Open
      <4>1. Listed \cap Run \subseteq Open
        BY <2>0, LenProperties DEF Listed, Open, Contains, PullRequests
      <4> QED
        BY <4>1 DEF AllOfOursListed, Open
    <3>3. Cardinality(Open) < MaxOpen /\ Cardinality(Open) \in Nat /\ IsFiniteSet(Open)
      <4>1. Cardinality(Open) \in Nat /\ IsFiniteSet(Open)
        BY FS_CardinalityType DEF Capped
      <4>2. ~(Cardinality(Open) >= MaxOpen)
        BY <2>3, <3>2 DEF CountOpenPullRequests
      <4> QED
        BY <4>1, <4>2, PublishAssumption
    <3>4. /\ Counted' \subseteq Busy /\ IsFiniteSet(Counted')
          /\ Cardinality(Counted') =< Cardinality(Busy) /\ Cardinality(Counted') \in Nat
          /\ Cardinality(Busy) \in Nat /\ Cardinality(Busy) =< Slots
      BY <3>1, CountedAreBusy, FS_Subset, FS_CardinalityType DEF Capped
    <3>5. Cardinality(Open \cup Counted') =< Cardinality(Open) + Cardinality(Counted')
      <4>1. Cardinality(Open \cap Counted') \in Nat
        BY <3>3, FS_Intersection, FS_CardinalityType
      <4>2. Cardinality(Open \cup Counted')
              = Cardinality(Open) + Cardinality(Counted') - Cardinality(Open \cap Counted')
        BY <3>3, <3>4, FS_Union
      <4> QED
        BY <3>3, <3>4, <4>1, <4>2
    <3>6. Cardinality(Open \cup Counted') \in Nat
      BY <3>3, <3>4, FS_Union, FS_CardinalityType
    <3>7. Cardinality(Open' \cup Counted') < MaxOpen + Slots
      BY <3>1, <3>3, <3>4, <3>5, <3>6, PublishAssumption
    <3> QED
      BY <3>1, <3>3, <3>4, <3>7 DEF Capped, CapHoldsUpToTheSlots
  <2>4. ASSUME NEW r \in Run, CreatePullRequest(r)
        PROVE  Capped'
    <3>1. stage' \in [Run -> Stages] /\ Busy' \subseteq Busy /\ Counted' \subseteq Counted
          /\ r \in Counted
      BY <2>0, <2>4 DEF CreatePullRequest, Busy, Counted
    <3>2. prs' \in PullRequests /\ Open' \subseteq Open \cup {r}
      <4>1. CASE prs' = Append(prs, r)
        BY <2>0, <4>1, OpenAfterAppend DEF Open
      <4>2. CASE prs' = prs
        BY <2>0, <4>2 DEF Open
      <4> QED
        BY <2>4, <4>1, <4>2 DEF CreatePullRequest
    <3> QED
      BY <3>1, <3>2, CapKept
  <2>5. ASSUME NEW o \in Outsider, OpenOne(o)
        PROVE  Capped'
    <3>1. prs' \in PullRequests /\ Open' \subseteq Open
      BY <2>0, <2>5, OpenAfterAppend, PublishAssumption DEF OpenOne, Open
    <3>2. stage' \in [Run -> Stages] /\ Busy' = Busy /\ Counted' = Counted
      BY <2>0, <2>5 DEF OpenOne, Busy, Counted
    <3> QED
      BY <3>1, <3>2, CapKept
  <2>6. ASSUME NEW k \in DOMAIN prs, CloseOne(k)
        PROVE  Capped'
    <3>1. prs' \in PullRequests /\ Open' \subseteq Open
      BY <2>0, <2>6, OpenAfterRemoval DEF CloseOne, Open
    <3>2. stage' \in [Run -> Stages] /\ Busy' = Busy /\ Counted' = Counted
      BY <2>0, <2>6 DEF CloseOne, Busy, Counted
    <3> QED
      BY <3>1, <3>2, CapKept
  <2>7. CASE UNCHANGED publishVars
    BY <2>0, <2>7, CapKept DEF publishVars, Busy, Open, Counted
  <2> QED
    BY <2>1, <2>2, <2>3, <2>4, <2>5, <2>6, <2>7 DEF PublishNext
<1> QED
  BY <1>1, <1>2, PTL DEF PublishSpec

\* The cap on open pull requests is exceeded by no more than the slots that count at once,
\* as long as gh lists all of the runs' own (countOpenPullRequests).
THEOREM CapHolds == PublishSpec /\ []AllOfOursListed => []CapHoldsUpToTheSlots
<1>1. Capped => CapHoldsUpToTheSlots
  BY DEF Capped
<1> QED
  BY <1>1, CapInvariant, PTL

\* One slot keeps to the cap: counting and creating are two requests, and a publisher that
\* is alone is between them alone (countOpenPullRequests, publishIfReady).
THEOREM CapIsRespectedByOne ==
  ASSUME Slots = 1
  PROVE  PublishSpec /\ []AllOfOursListed => []CapIsRespected
<1>1. ASSUME Capped PROVE CapIsRespected
  <2>1. IsFiniteSet(Open \cup Counted)
    BY <1>1, CountedAreBusy, FS_Subset, FS_Union DEF Capped
  <2>2. Cardinality(Open) =< Cardinality(Open \cup Counted)
    BY <2>1, FS_Subset
  <2>3. Cardinality(Open) \in Nat /\ Cardinality(Open \cup Counted) \in Nat
    BY <1>1, <2>1, FS_CardinalityType DEF Capped
  <2>4. Cardinality(Open \cup Counted) < MaxOpen + 1
    BY <1>1 DEF Capped, CapHoldsUpToTheSlots
  <2> QED
    BY <2>2, <2>3, <2>4, PublishAssumption DEF CapIsRespected
<1>2. Capped => CapIsRespected
  BY <1>1
<1> QED
  BY <1>2, CapInvariant, PTL

-----------------------------------------------------------------------------
(* The timeline of a run (client.ts, runs.ts).                             *)

\* Where an event can be: stored, in the buffer, or in a POST under way.
Everywhere == stored \cup buffer \cup UNION posts

\* No event leaves all three; once the runner has ended its last flush the buffer is empty.
FlushInv ==
  /\ pushed \in Nat
  /\ Everywhere = 1 .. pushed
  /\ job \in {"working", "ended", "closing", "over"}
  /\ job \in {"closing", "over"} /\ ~lateLoss => buffer = {}

\* Every step of the flusher, the requests and the pages keeps the invariant.
LEMMA FlushInvHolds == EventsSpec => []FlushInv
<1>1. EventsInit => FlushInv
  BY DEF EventsInit, FlushInv, Everywhere
<1>2. FlushInv /\ [EventsNext]_eventsVars => FlushInv'
  <2> SUFFICES ASSUME FlushInv, [EventsNext]_eventsVars
               PROVE  FlushInv'
    OBVIOUS
  <2> USE DEF FlushInv
  <2>1. ASSUME PushEvent
        PROVE  FlushInv'
    <3>1. 1 .. pushed' = 1 .. pushed \cup {pushed'}
      BY <2>1 DEF PushEvent
    <3> QED
      BY <2>1, <3>1 DEF PushEvent, Everywhere
  <2>2. ASSUME Flush
        PROVE  buffer' = {} /\ (buffer \cup UNION posts = UNION posts')
    BY <2>2 DEF Flush
  <2>3. ASSUME FlushNow
        PROVE  FlushInv'
    BY <2>2, <2>3 DEF FlushNow, Everywhere
  <2>4. ASSUME FinalFlush
        PROVE  FlushInv'
    BY <2>2, <2>4 DEF FinalFlush, Everywhere
  <2>5. ASSUME NEW batch \in posts
        PROVE  UNION posts = batch \cup UNION (posts \ {batch})
    OBVIOUS
  <2>6. ASSUME NEW batch \in posts, EventsAccepted(batch)
        PROVE  FlushInv'
    BY <2>5, <2>6 DEF EventsAccepted, Ingest, Everywhere
  <2>7. ASSUME NEW batch \in posts, EventsPostFails(batch)
        PROVE  FlushInv'
    <3>1. Everywhere' = Everywhere
      BY <2>5, <2>7 DEF EventsPostFails, Ingest, Restored, Everywhere
    <3> QED
      BY <3>1, <2>7 DEF EventsPostFails
  <2>8. CASE ReportRun \/ JobOver
    BY <2>8 DEF ReportRun, JobOver, Everywhere
  <2>9. CASE OpenStream \/ Subscribe \/ SendQueue \/ StreamBreaks \/ FetchRun \/ FetchTimeline
    BY <2>9 DEF OpenStream, Subscribe, SendQueue, StreamBreaks, FetchRun, FetchTimeline, Everywhere
  <2>10. CASE UNCHANGED eventsVars
    BY <2>10 DEF eventsVars, Everywhere
  <2> QED
    BY <2>1, <2>3, <2>4, <2>6, <2>7, <2>8, <2>9, <2>10 DEF EventsNext
<1> QED
  BY <1>1, <1>2, PTL DEF EventsSpec

\* Once a job is over and no post is under way, every event it emitted is in run_events,
\* however posts fail and overlap, unless one failed that nothing repeats (client.ts).
THEOREM EventsReachTheDatabase == EventsSpec => []OnlyTheLastFlushLoses
<1>1. FlushInv => OnlyTheLastFlushLoses
  BY DEF FlushInv, OnlyTheLastFlushLoses, Everywhere
<1> QED
  BY <1>1, FlushInvHolds, PTL
=============================================================================
