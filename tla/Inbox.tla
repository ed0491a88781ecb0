-------------------------------- MODULE Inbox --------------------------------
(***************************************************************************)
(* The findings of one project: what a finalized run's report and verdicts *)
(* write to the inbox, what a dismissal silences and when it lapses, and   *)
(* the person who changes a status from the page.                          *)
(*                                                                         *)
(* Every writer first reads and then writes: finalizeRun in a transaction  *)
(* at READ COMMITTED, so that two of them decide from one inbox and write  *)
(* one after the other, and PATCH /findings/:id in two statements.  What   *)
(* each has decided to write is its plan.  One report says one thing: a    *)
(* sighting, or a document of at most two verdicts.                        *)
(***************************************************************************)
EXTENDS Naturals, FiniteSets

CONSTANTS
  Finding,       \* fingerprints
  Writer,        \* the writers that may be open at once
  Loudest,       \* severities are 1 .. Loudest
  Statuses,      \* the statuses in play, "open", "wontfix", "duplicate" among them
  MaxPlan        \* how many writers ever begin

ASSUME InboxAssumption ==
  /\ {"open", "wontfix", "duplicate"} \subseteq Statuses
  /\ Statuses \subseteq
       {"open", "triaged", "gated", "overflow", "duplicate", "fixed", "wontfix", "obsolete"}
  /\ Loudest \in Nat \ {0}
  /\ MaxPlan \in Nat

VARIABLES
  inbox,     \* the rows
  plan,      \* what each open writer will write
  moved,     \* history: the rows changed since each open writer read
  begun      \* how many writers have begun

inboxVars == <<inbox, plan, moved, begun>>

Severity == 1 .. Loudest
Unseen == "unseen"            \* no row has the fingerprint

Target == Finding             \* duplicateOf; a row nobody merged points at itself
InboxRow ==
  [status: Statuses \cup {Unseen}, into: Target, severity: Severity, snippet: BOOLEAN,
   dismissedAt: 0 .. Loudest, basis: BOOLEAN]

Verdict == (Statuses \cap {"open", "fixed", "obsolete"}) \X {FALSE}
Merge == Finding \X {TRUE}

Blank(f) ==
  [status |-> Unseen, into |-> f, severity |-> 1, snippet |-> FALSE,
   dismissedAt |-> 0, basis |-> FALSE]

NoPlan == [kind |-> "none"]

InboxTypeOK ==
  /\ inbox \in [Finding -> InboxRow]
  /\ \A w \in Writer : plan[w].kind \in {"none", "publish", "suppress", "lapse", "verdicts", "patch"}
  /\ moved \in [Writer -> SUBSET Finding]
  /\ begun \in 0 .. MaxPlan

InboxInit ==
  /\ inbox = [f \in Finding |-> Blank(f)]
  /\ plan = [w \in Writer |-> NoPlan]
  /\ moved = [w \in Writer |-> {}]
  /\ begun = 0

Begin(w, p) ==
  /\ plan[w] = NoPlan
  /\ begun < MaxPlan
  /\ plan' = [plan EXCEPT ![w] = p]
  /\ moved' = [moved EXCEPT ![w] = {}]
  /\ begun' = begun + 1
  /\ UNCHANGED inbox

(* A writer commits the rows it makes of the ones that are there.          *)
Commit(w, rows) ==
  /\ inbox' = rows
  /\ plan' = [plan EXCEPT ![w] = NoPlan]
  /\ moved' = [v \in Writer |->
                 IF plan[v] = NoPlan \/ v = w THEN {}
                 ELSE moved[v] \cup {f \in Finding : rows[f] # inbox[f]}]
  /\ UNCHANGED begun

-----------------------------------------------------------------------------
(* A sighting *)

(* The dismissal that answers a sighting: the row's own, or the one of the *)
(* row it was merged into.                                                 *)
DismissalOf(f) ==
  IF inbox[f].status = "duplicate" THEN inbox[f].into ELSE f

Dismissed(f) ==
  inbox[f].status \in {"wontfix", "duplicate"} /\ inbox[DismissalOf(f)].status = "wontfix"

(* What the run says of the code a dismissal was about: moved, or else it  *)
(* is intact, could not be read or was not looked at.                      *)
Checks == {"moved", "stands"}

(* Louder than it was dismissed at, or about code that is gone.            *)
Lapses(d, severity, check) ==
  \/ severity > inbox[d].dismissedAt
  \/ inbox[d].basis /\ check = "moved"

(* decideSuppression, on the rows the transaction reads.                   *)
Decision(f, severity, evidence, check) ==
  [kind |-> IF ~Dismissed(f) THEN "publish"
            ELSE IF Lapses(DismissalOf(f), severity, check) THEN "lapse" ELSE "suppress",
   seen |-> f, row |-> IF Dismissed(f) THEN DismissalOf(f) ELSE f,
   severity |-> severity, evidence |-> evidence]

ReportFinding(w) ==
  \E f \in Finding, severity \in Severity, evidence \in BOOLEAN, check \in Checks :
    Begin(w, Decision(f, severity, evidence, check))

(* Mutant: a sighting reopens whatever the row says. *)
ReopenedAlways(status) == IF status = "duplicate" THEN status ELSE "open"

(* The upsert computes the status from the row that is there.              *)
Reopened(status) ==
  IF status \in {Unseen, "fixed", "gated", "overflow"} THEN "open" ELSE status

WriteFinding(w) ==
  /\ plan[w].kind = "publish"
  /\ LET f == plan[w].row IN
       Commit(w, [inbox EXCEPT
         ![f].status = Reopened(inbox[f].status),
         ![f].severity = plan[w].severity,
         ![f].snippet = IF inbox[f].status = Unseen THEN plan[w].evidence
                        ELSE inbox[f].snippet \/ plan[w].evidence])

(* A silenced sighting leaves the dismissal as it is, but for the evidence *)
(* an old row has none of.                                                 *)
Silence(w) ==
  /\ plan[w].kind = "suppress"
  /\ Commit(w, [inbox EXCEPT ![plan[w].row].snippet = @ \/ plan[w].evidence])

(* A lapse reopens the dismissed row, and takes the sighting's own text    *)
(* when it is not an alias that was seen.                                  *)
Lapse(w) ==
  /\ plan[w].kind = "lapse"
  /\ LET d == plan[w].row
         own == plan[w].seen = d
     IN Commit(w, [inbox EXCEPT
          ![d].status = "open",
          ![d].dismissedAt = 0,
          ![d].basis = FALSE,
          ![d].severity = IF own THEN plan[w].severity ELSE @,
          ![d].snippet = @ \/ (own /\ plan[w].evidence)])

-----------------------------------------------------------------------------
(* Verdicts *)

(* One verdict, against the statuses as the document so far has left them. *)
Accepted(status, f, v) ==
  /\ status[f] \notin {Unseen, "wontfix"}
  /\ v[2] => v[1] # f /\ status[v[1]] \notin {Unseen, "duplicate"}

Ruled(v) == IF v[2] THEN "duplicate" ELSE v[1]

(* Mutant: every verdict is judged by what was read. *)
AfterVerdictUnmoved(status, f, v) == status

(* The statuses a document's later verdicts are judged by.                 *)
AfterVerdict(status, f, v) ==
  IF Accepted(status, f, v) THEN [status EXCEPT ![f] = Ruled(v)] ELSE status

(* Both verdicts are decided from the statuses read and from each other.   *)
Rulings(f, v, g, u) ==
  LET read == [h \in Finding |-> inbox[h].status]
      next == AfterVerdict(read, f, v)
  IN {r \in {<<1, f, v>>, <<2, g, u>>} :
        IF r[1] = 1 THEN Accepted(read, f, v) ELSE Accepted(next, g, u)}

Adjudicate(w) ==
  \E f, g \in Finding, v, u \in Verdict \cup Merge :
    /\ Rulings(f, v, g, u) # {}
    /\ Begin(w, [kind |-> "verdicts", rulings |-> Rulings(f, v, g, u)])

(* The last ruling about a row is the one it keeps.                        *)
Final(rulings, f) ==
  LET own == {r \in rulings : r[2] = f} IN
    IF own = {} THEN {} ELSE {r \in own : \A q \in own : q[1] <= r[1]}

MergedInto(rulings, f) ==
  LET own == {r \in rulings : r[2] = f /\ r[3][2]} IN
    IF own = {} THEN inbox[f].into
    ELSE (CHOOSE r \in own : \A q \in own : q[1] <= r[1])[3][1]

WriteVerdicts(w) ==
  /\ plan[w].kind = "verdicts"
  /\ LET rulings == plan[w].rulings IN
       Commit(w, [f \in Finding |->
         IF Final(rulings, f) = {} THEN inbox[f]
         ELSE [inbox[f] EXCEPT
                 !.status = Ruled((CHOOSE r \in Final(rulings, f) : TRUE)[3]),
                 !.into = MergedInto(rulings, f)]])

-----------------------------------------------------------------------------
(* A person *)

PatchRead(w) ==
  \E f \in Finding, status \in Statuses :
    /\ inbox[f].status # Unseen
    /\ Begin(w, [kind |-> "patch", row |-> f, status |-> status,
                 severity |-> inbox[f].severity, snippet |-> inbox[f].snippet])

(* A dismissal records what it was of.                                     *)
PatchWrite(w) ==
  /\ plan[w].kind = "patch"
  /\ LET f == plan[w].row
         dismisses == plan[w].status = "wontfix"
     IN Commit(w, [inbox EXCEPT
          ![f].status = plan[w].status,
          ![f].dismissedAt = IF dismisses THEN plan[w].severity ELSE 0,
          ![f].basis = dismisses /\ plan[w].snippet])

InboxNext ==
  \E w \in Writer :
    \/ ReportFinding(w) \/ WriteFinding(w) \/ Silence(w) \/ Lapse(w)
    \/ Adjudicate(w) \/ WriteVerdicts(w)
    \/ PatchRead(w) \/ PatchWrite(w)

InboxSpec == InboxInit /\ [][InboxNext]_inboxVars

-----------------------------------------------------------------------------
Committing(w) == plan[w] # NoPlan /\ plan'[w] = NoPlan
Undone(f) == inbox[f].status = "wontfix" /\ inbox'[f].status # "wontfix"

(* A person's dismissal is ended by a person, by a lapse, or by a writer   *)
(* that had read the row before it was dismissed; never by an adjudicator  *)
(* or a sighting that could have seen it.  (finalize.ts applyAdjudications *)
(* "a decision a person made", reopenClause, suppression.ts)               *)
DismissalsYieldOnlyToARace ==
  [][\A w \in Writer, f \in Finding :
       Committing(w) /\ Undone(f) =>
         \/ plan[w].kind \in {"patch", "lapse"}
         \/ plan[w].kind = "verdicts" /\ f \in moved[w]]_inboxVars

(* A loop of merges: rows that only lead to one another.                   *)
Loops(rows) ==
  \E S \in (SUBSET Finding) \ {{}} : \A f \in S :
    rows[f].status = "duplicate" /\ rows[f].into \in S \ {f}

(* Verdicts never close a loop of merges, two of one document included,    *)
(* unless the inbox moved under them.  (finalize.ts applyAdjudications:    *)
(* "Otherwise a chain of merges can end nowhere")                          *)
LoopsTakeARace ==
  [][\A w \in Writer :
       Committing(w) /\ plan[w].kind = "verdicts" /\ moved[w] = {} /\ Loops(inbox')
         => Loops(inbox)]_inboxVars

(* A merge target is not itself merged (finalize.ts: "the row a reader is  *)
(* sent to is itself pointing somewhere else").  It fails: a goes into b,  *)
(* and a later document sends b into c.                                    *)
MergeTargetsStand ==
  \A f \in Finding :
    inbox[f].status = "duplicate" => inbox[inbox[f].into].status # "duplicate"
=============================================================================
