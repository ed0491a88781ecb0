------------------------------ MODULE FleetProof ------------------------------
(***************************************************************************)
(* An invite enrols one machine, and jobs are claimed under one's own row: *)
(* proved for any number of machines, invites and names.                   *)
(***************************************************************************)
EXTENDS Fleet, FiniteSetTheorems, TLAPS

-----------------------------------------------------------------------------
(* Types.                                                                  *)

Invites == [minted : BOOLEAN, used : BOOLEAN, revoked : BOOLEAN]
Joins == [stage : {"idle", "claim", "look", "write"}, invite : Invite \cup {NoInvite},
          name : HostName \cup {NoName}, found : RunnerIds \cup {NoRunner}]
Machines == [token : Invite \cup {NoInvite}, name : HostName \cup {NoName},
             on : BOOLEAN, speaks : BOOLEAN, usable : BOOLEAN]
Calls == [stage : {"idle", "sent", "passed", "known", "taking"}, token : Invite \cup {NoInvite},
          name : HostName \cup {NoName}, row : RunnerIds \cup {NoRunner},
          word : {"none", "usable", "failing"}, raced : BOOLEAN]

FleetShapes ==
  /\ guarded \in BOOLEAN
  /\ invites \in [Invite -> Invites]
  /\ newest \in 0 .. MaxRunnerRow /\ DOMAIN runners \subseteq 1 .. newest
  /\ runners \in [DOMAIN runners -> Runner]
  /\ join \in [Machine -> Joins]
  /\ machine \in [Machine -> Machines]
  /\ call \in [Machine -> Calls]
  /\ redeemed \in [Invite -> SUBSET Machine]

\* A machine that neither joins nor calls.
LEMMA NothingYet == NoJoin \in Joins /\ NoCall \in Calls
BY DEF NoJoin, NoCall, Joins, Calls

\* What a finished join writes.
LEMMA WrittenShape ==
  ASSUME FleetShapes, NEW m \in Machine, join[m].name \in HostName, newest < MaxRunnerRow
  PROVE  /\ join[m].found = NoRunner =>
              /\ Written(m) \in [DOMAIN runners \cup {newest + 1} -> Runner]
              /\ Written(m)[newest + 1].owner = m /\ Written(m)[newest + 1].token = join[m].invite
              /\ \A q \in DOMAIN runners : Written(m)[q] = runners[q]
         /\ join[m].found # NoRunner => Written(m) \in [DOMAIN runners -> Runner]
<1> USE FleetAssumption DEF FleetShapes, NoRunner
<1>1. Enrolled(m) \in Runner /\ Enrolled(m).owner = m /\ Enrolled(m).token = join[m].invite
  BY DEF Enrolled, Runner, Joins
<1>2. newest + 1 \notin DOMAIN runners
  OBVIOUS
<1>3. CASE join[m].found = NoRunner
  <2>1. Written(m) = [q \in DOMAIN runners \cup {newest + 1} |->
                        IF q = newest + 1 THEN Enrolled(m) ELSE runners[q]]
    BY <1>3 DEF Written
  <2> HIDE DEF Enrolled
  <2> QED
    BY <2>1, <1>1, <1>2, <1>3
<1>4. CASE join[m].found # NoRunner
  <2> DEFINE r == join[m].found
             again == [Enrolled(m) EXCEPT !.seen = runners[r].seen, !.word = runners[r].word,
                                          !.fresh = runners[r].fresh]
  <2>1. r \in DOMAIN runners => again \in Runner
    BY DEF Enrolled, Runner, Joins
  <2>2. Written(m) = [q \in DOMAIN runners |-> IF q = r THEN again ELSE runners[q]]
    BY <1>4 DEF Written
  <2> HIDE DEF again, r
  <2>3. \A q \in DOMAIN runners : (IF q = r THEN again ELSE runners[q]) \in Runner
    BY <2>1
  <2>4. Written(m) \in [DOMAIN runners -> Runner]
    BY <2>2, <2>3
  <2> QED
    BY <2>4, <1>4
<1> QED
  BY <1>3, <1>4

-----------------------------------------------------------------------------
(* The invariant.                                                          *)

Holding(m, i) == join[m].stage \in {"look", "write"} /\ join[m].invite = i

\* An invite that enrolled somebody is used; whoever is about to write with an
\* invite that is not is the only one.
InviteInv ==
  /\ \A i \in Invite : redeemed[i] # {} => invites[i].used /\ \E m \in Machine : redeemed[i] = {m}
  /\ \A i \in Invite : \A m \in Machine : Holding(m, i) => ~invites[i].used
  /\ \A i \in Invite : \A m, k \in Machine : Holding(m, i) /\ Holding(k, i) => m = k

\* Joins in flight are of enrolled names; with a token there is nothing to take over.
JoinInv ==
  \A m \in Machine :
    /\ join[m].stage # "idle" => join[m].name \in HostName
    /\ guarded => join[m].found = NoRunner
    /\ guarded /\ join[m].stage # "idle" => join[m].invite \in Invite

\* A row that is to be deleted is not live, and a token names its machine.
RowInv ==
  guarded =>
    /\ \A r \in forgetting : r \in 1 .. newest /\ ~Live(r)
    /\ \A r \in DOMAIN runners :
         runners[r].token \in Invite /\ runners[r].owner \in redeemed[runners[r].token]
    /\ \A m \in Machine :
         machine[m].name # NoName => machine[m].token \in Invite /\ m \in redeemed[machine[m].token]

\* A claim on its way that no revocation crossed is its sender's.
CallInv ==
  guarded =>
    \A m \in Machine :
      /\ call[m].stage # "idle" => call[m].token \in Invite /\ m \in redeemed[call[m].token]
      /\ call[m].stage = "passed" /\ ~call[m].raced => ByToken(call[m].token) # {}
      /\ call[m].stage \in {"known", "taking"} /\ ~call[m].raced =>
           call[m].row \in ByToken(call[m].token)

FleetInv == FleetShapes /\ InviteInv /\ JoinInv /\ RowInv /\ CallInv /\ ClaimsAreOnesOwn

\* The first machines fit.
LEMMA FleetInitially == FleetInit => FleetInv
<1> SUFFICES ASSUME FleetInit PROVE FleetInv
  OBVIOUS
<1> USE FleetAssumption DEF FleetInit
<1>1. /\ invites \in [Invite -> Invites] /\ join \in [Machine -> Joins] /\ call \in [Machine -> Calls]
      /\ machine \in [Machine -> Machines]
  <2>1. ASSUME NEW m \in Machine
        PROVE  machine[m] \in Machines
    <3>1. PICK s \in BOOLEAN, u \in BOOLEAN :
            machine[m] = [token |-> NoInvite, name |-> NoName, on |-> TRUE, speaks |-> s, usable |-> u]
      OBVIOUS
    <3> QED
      BY <3>1 DEF Machines
  <2>3. DOMAIN machine = Machine /\ machine = [m \in Machine |-> machine[m]]
    OBVIOUS
  <2>2. [minted |-> FALSE, used |-> FALSE, revoked |-> FALSE] \in Invites
    BY DEF Invites
  <2> QED
    BY <2>1, <2>2, <2>3, NothingYet
<1>2. FleetShapes
  BY <1>1 DEF FleetShapes
<1>3. InviteInv
  BY DEF InviteInv, Holding, NoJoin
<1>4. JoinInv /\ RowInv
  BY DEF JoinInv, RowInv, NoJoin
<1>5. CallInv /\ ClaimsAreOnesOwn
  BY DEF CallInv, NoCall, ClaimsAreOnesOwn
<1> QED
  BY <1>2, <1>3, <1>4, <1>5 DEF FleetInv

\* The operator mints and revokes invites.
LEMMA InviteStepKeeps ==
  ASSUME FleetInv, NEW i \in Invite, MintInvite(i) \/ RevokeInvite(i)
  PROVE  FleetInv'
<1> USE DEF FleetInv
<1>1. /\ invites' \in [Invite -> Invites]
      /\ \A j \in Invite : invites'[j].used = invites[j].used
  <2> DEFINE minted == [minted |-> TRUE, used |-> invites[i].used, revoked |-> invites[i].revoked]
             revoked == [minted |-> invites[i].minted, used |-> invites[i].used, revoked |-> TRUE]
  <2>1. invites[i] \in Invites /\ minted \in Invites /\ revoked \in Invites
    BY DEF FleetShapes, Invites
  <2>2. \/ invites' = [invites EXCEPT ![i] = [@ EXCEPT !.minted = TRUE]]
        \/ invites' = [invites EXCEPT ![i] = [@ EXCEPT !.revoked = TRUE]]
    BY DEF MintInvite, RevokeInvite
  <2>3. [invites[i] EXCEPT !.minted = TRUE] = minted /\ [invites[i] EXCEPT !.revoked = TRUE] = revoked
    BY <2>1 DEF Invites
  <2>4. invites' = [invites EXCEPT ![i] = minted] \/ invites' = [invites EXCEPT ![i] = revoked]
    BY <2>2, <2>3
  <2>5. minted.used = invites[i].used /\ revoked.used = invites[i].used
    OBVIOUS
  <2> HIDE DEF minted, revoked
  <2> QED
    BY <2>1, <2>4, <2>5 DEF FleetShapes
<1>2. UNCHANGED <<guarded, forgetting, runners, newest, join, machine, call, redeemed, claims>>
  BY DEF MintInvite, RevokeInvite, pageVars
<1>3. FleetShapes'
  BY <1>1, <1>2 DEF FleetShapes
<1> QED
  BY <1>1, <1>2, <1>3
     DEF InviteInv, Holding, JoinInv, RowInv, Live, CallInv, ByToken, ClaimsAreOnesOwn

\* A join comes in, claims its invite - alone, as long as it lasts - and looks for
\* the name; or it fails and holds nothing.
LEMMA JoinStepKeeps ==
  ASSUME FleetInv, NEW m \in Machine,
         \/ ClaimInvite(m) \/ LookForName(m) \/ JoinFails(m)
         \/ \E i \in Invite \cup {NoInvite}, n \in HostName : Join(m, i, n)
  PROVE  FleetInv'
<1> USE FleetAssumption DEF FleetInv
<1>1. UNCHANGED <<guarded, forgetting, invites, runners, newest, machine, call, redeemed, claims>>
  BY DEF ClaimInvite, LookForName, JoinFails, Join, pageVars
<1>2. /\ join' \in [Machine -> Joins]
      /\ \A k \in Machine \ {m} : join'[k] = join[k]
      /\ \/ join'[m] = NoJoin
         \/ /\ join'[m].stage # "idle" /\ join'[m].name \in HostName
            /\ guarded => join'[m].found = NoRunner /\ join'[m].invite \in Invite
            /\ \/ ~guarded /\ join'[m].invite = NoInvite
               \/ join'[m].stage = "claim"
               \/ /\ join'[m].stage = "look" /\ join'[m].invite = join[m].invite
                  /\ ~Locked(join[m].invite) /\ Unspent(join[m].invite)
               \/ /\ join'[m].stage = "write" /\ join[m].stage = "look"
                  /\ join'[m].invite = join[m].invite
  <2>1. ASSUME NEW i \in Invite \cup {NoInvite}, NEW n \in HostName, Join(m, i, n)
        PROVE  <1>2
    <3> DEFINE new == [stage |-> IF guarded THEN "claim" ELSE "look",
                       invite |-> i, name |-> n, found |-> NoRunner]
    <3>1. new \in Joins
      BY DEF Joins
    <3>2. join' = [join EXCEPT ![m] = new]
      BY <2>1 DEF Join
    <3>3. new.stage = (IF guarded THEN "claim" ELSE "look") /\ new.invite = i /\ new.name = n
          /\ new.found = NoRunner
      OBVIOUS
    <3>4. guarded => i \in Invite
      BY <2>1 DEF Join
    <3>5. ~guarded => i = NoInvite
      BY <2>1 DEF Join
    <3> HIDE DEF new
    <3>6. join' \in [Machine -> Joins] /\ join'[m] = new /\ \A k \in Machine \ {m} : join'[k] = join[k]
      BY <3>1, <3>2 DEF FleetShapes
    <3>7. CASE guarded
      BY <3>3, <3>4, <3>6, <3>7
    <3>8. CASE ~guarded
      BY <3>3, <3>5, <3>6, <3>8
    <3> QED
      BY <3>7, <3>8
  <2>2. CASE Refuse(m)
    BY <2>2, NothingYet DEF Refuse, FleetShapes
  <2>3. CASE /\ join[m].stage = "claim" /\ ~Locked(join[m].invite) /\ Unspent(join[m].invite)
             /\ join' = [join EXCEPT ![m].stage = "look"]
    <3>1. join' \in [Machine -> Joins] /\ \A k \in Machine \ {m} : join'[k] = join[k]
      BY <2>3 DEF FleetShapes, Joins
    <3>2. join'[m].stage = "look" /\ join'[m].invite = join[m].invite
          /\ join'[m].name = join[m].name /\ join'[m].found = join[m].found
      BY <2>3 DEF FleetShapes, Joins
    <3> QED
      BY <2>3, <3>1, <3>2 DEF JoinInv
  <2>4. ASSUME LookForName(m), ~Refuse(m)
        PROVE  <1>2
    <3>1. PICK r \in DOMAIN runners \cup {NoRunner} :
            /\ guarded => r = NoRunner
            /\ join' = [join EXCEPT ![m] = [@ EXCEPT !.stage = "write", !.found = r]]
      BY <2>4 DEF LookForName, LiveNamed
    <3>2. r \in RunnerIds \cup {NoRunner}
      BY <3>1 DEF FleetShapes, RunnerIds
    <3>3. join'[m] = [stage |-> "write", invite |-> join[m].invite, name |-> join[m].name, found |-> r]
      BY <3>1, ZenonT(30) DEF FleetShapes, Joins
    <3>4. join' \in [Machine -> Joins] /\ \A k \in Machine \ {m} : join'[k] = join[k]
      BY <3>1, <3>2 DEF FleetShapes, Joins
    <3>5. join[m].stage = "look"
      BY <2>4 DEF LookForName
    <3> QED
      BY <3>1, <3>3, <3>4, <3>5 DEF JoinInv
  <2> QED
    BY <2>1, <2>2, <2>3, <2>4 DEF ClaimInvite, JoinFails, LookForName
<1>3. FleetShapes'
  BY <1>1, <1>2 DEF FleetShapes
<1>4. \A k \in Machine \ {m}, i \in Invite : Holding(k, i)' <=> Holding(k, i)
  BY <1>2 DEF Holding
<1>5. ASSUME NEW i \in Invite, Holding(m, i)'
      PROVE  ~invites[i].used /\ \A k \in Machine \ {m} : ~Holding(k, i)
  <2>1. join'[m].stage \in {"look", "write"} /\ join'[m].invite = i /\ i # NoInvite
    BY <1>5 DEF Holding
  <2>2. \/ /\ i = join[m].invite /\ ~Locked(i) /\ Unspent(i)
        \/ Holding(m, i)
    BY <1>2, <2>1 DEF NoJoin, Holding
  <2> QED
    BY <2>2 DEF InviteInv, Locked, Unspent, Holding
<1>6. InviteInv'
  BY <1>1, <1>4, <1>5 DEF InviteInv
<1>7. JoinInv'
  BY <1>1, <1>2 DEF JoinInv, NoJoin
<1>8. RowInv' /\ CallInv' /\ ClaimsAreOnesOwn'
  BY <1>1 DEF RowInv, Live, CallInv, ByToken, ClaimsAreOnesOwn
<1> QED
  BY <1>3, <1>6, <1>7, <1>8

\* The join that holds an invite writes its row and uses the invite up.
LEMMA WriteKeeps ==
  ASSUME FleetInv, NEW m \in Machine, NEW answered \in BOOLEAN, WriteRunner(m, answered)
  PROVE  FleetInv'
<1> USE FleetAssumption DEF FleetInv
<1> DEFINE i == join[m].invite
           n == join[m].name
<1>1. /\ join[m].stage = "write" /\ newest < MaxRunnerRow /\ runners' = Written(m)
      /\ newest' = IF join[m].found = NoRunner THEN newest + 1 ELSE newest
      /\ join' = [join EXCEPT ![m] = NoJoin]
      /\ UNCHANGED <<guarded, forgetting, call, claims>>
  BY DEF WriteRunner, Refuse, pageVars
<1>2. n \in HostName /\ i \in Invite \cup {NoInvite}
      /\ (guarded => i \in Invite /\ join[m].found = NoRunner)
  BY <1>1 DEF JoinInv, FleetShapes, Joins
<1>3. /\ invites' \in [Invite -> Invites]
      /\ \A j \in Invite : invites'[j].used <=> (j = i \/ invites[j].used)
  <2>1. invites' = [j \in Invite |-> IF j = i THEN [invites[j] EXCEPT !.used = TRUE] ELSE invites[j]]
    BY DEF WriteRunner
  <2> HIDE DEF i
  <2>2. \A j \in Invite : [invites[j] EXCEPT !.used = TRUE] \in Invites
    BY DEF FleetShapes, Invites
  <2>3. \A j \in Invite : [invites[j] EXCEPT !.used = TRUE].used
    BY DEF FleetShapes, Invites
  <2> QED
    BY <2>1, <2>2, <2>3 DEF FleetShapes
<1>4. redeemed' = [j \in Invite |-> IF j = i THEN redeemed[j] \cup {m} ELSE redeemed[j]]
  BY DEF WriteRunner
<1>5. /\ machine' \in [Machine -> Machines]
      /\ \A k \in Machine : \/ machine'[k].token = machine[k].token /\ machine'[k].name = machine[k].name
                            \/ k = m /\ machine'[k].token = i
  <2>1. CASE ~answered
    BY <2>1 DEF WriteRunner, FleetShapes
  <2>2. CASE answered
    <3>1. machine' = [machine EXCEPT ![m] = [@ EXCEPT !.token = i, !.name = n]]
      BY <2>2 DEF WriteRunner
    <3>2. machine'[m] = [token |-> i, name |-> n, on |-> machine[m].on, speaks |-> machine[m].speaks,
                         usable |-> machine[m].usable]
      BY <3>1, ZenonT(30) DEF FleetShapes, Machines
    <3>3. DOMAIN machine' = Machine /\ \A k \in Machine \ {m} : machine'[k] = machine[k]
      BY <3>1 DEF FleetShapes
    <3>4. machine'[m] \in Machines /\ machine'[m].token = i
      BY <3>2, <1>2 DEF Machines, FleetShapes
    <3> HIDE DEF i, n
    <3>5. machine' \in [Machine -> Machines]
      <4>1. machine' = [k \in Machine |-> machine'[k]]
        BY <3>1 DEF FleetShapes
      <4> QED
        BY <4>1, <3>3, <3>4 DEF FleetShapes
    <3> QED
      BY <3>3, <3>4, <3>5
  <2> QED
    BY <2>1, <2>2
<1>6. join' \in [Machine -> Joins] /\ join'[m] = NoJoin /\ \A k \in Machine \ {m} : join'[k] = join[k]
  BY <1>1, NothingYet DEF FleetShapes
<1>7. /\ runners' \in [DOMAIN runners' -> Runner] /\ DOMAIN runners' \subseteq 1 .. newest'
      /\ newest' \in 0 .. MaxRunnerRow
  BY <1>1, <1>2, WrittenShape DEF FleetShapes, NoRunner
<1>8. guarded => /\ DOMAIN runners' = DOMAIN runners \cup {newest + 1}
                 /\ newest + 1 \notin DOMAIN runners
                 /\ runners'[newest + 1].owner = m /\ runners'[newest + 1].token = i
                 /\ \A q \in DOMAIN runners : runners'[q] = runners[q]
  <2>1. newest + 1 \notin DOMAIN runners
    BY DEF FleetShapes
  <2> QED
    BY <2>1, <1>1, <1>2, WrittenShape
<1> HIDE DEF i, n
<1>9. redeemed' \in [Invite -> SUBSET Machine]
  BY <1>4 DEF FleetShapes
<1>10. FleetShapes'
  BY <1>1, <1>3, <1>5, <1>6, <1>7, <1>9 DEF FleetShapes
<1>11. i \in Invite => Holding(m, i)
  BY <1>1 DEF Holding, i
<1>12. \A k \in Machine, j \in Invite : Holding(k, j)' => k # m /\ Holding(k, j)
  BY <1>6 DEF Holding, NoJoin
<1>13. InviteInv'
  <2>1. ASSUME NEW j \in Invite, redeemed'[j] # {}
        PROVE  invites'[j].used /\ \E k \in Machine : redeemed'[j] = {k}
    <3>1. CASE j = i
      <4>1. redeemed[j] = {}
        BY <3>1, <1>11 DEF InviteInv
      <4> QED
        BY <4>1, <3>1, <1>3, <1>4
    <3>2. CASE j # i
      BY <3>2, <2>1, <1>3, <1>4 DEF InviteInv
    <3> QED
      BY <3>1, <3>2
  <2>2. \A j \in Invite : \A k \in Machine : Holding(k, j)' => ~invites'[j].used
    BY <1>3, <1>11, <1>12 DEF InviteInv
  <2>3. \A j \in Invite : \A k, l \in Machine : Holding(k, j)' /\ Holding(l, j)' => k = l
    BY <1>12 DEF InviteInv
  <2> QED
    BY <2>1, <2>2, <2>3 DEF InviteInv
<1>14. JoinInv'
  BY <1>1, <1>6 DEF JoinInv, NoJoin
<1>15. \A j \in Invite : redeemed[j] \subseteq redeemed'[j] /\ (j = i => m \in redeemed'[j])
  BY <1>4
<1>16. RowInv'
  <2> SUFFICES ASSUME guarded PROVE RowInv'
    BY <1>1 DEF RowInv
  <2>1. \A r \in forgetting' : r \in 1 .. newest' /\ ~Live(r)'
    <3>1. \A r \in forgetting : r \in 1 .. newest /\ r # newest + 1 /\ ~Live(r)
      BY DEF RowInv, FleetShapes
    <3>2. newest' \in {newest, newest + 1} /\ newest \in Nat
      BY <1>1 DEF FleetShapes
    <3> QED
      BY <3>1, <3>2, <1>1, <1>8 DEF Live
  <2>2. \A r \in DOMAIN runners' :
          runners'[r].token \in Invite /\ runners'[r].owner \in redeemed'[runners'[r].token]
    BY <1>2, <1>8, <1>15 DEF RowInv
  <2>3. \A k \in Machine : machine'[k].name # NoName =>
          machine'[k].token \in Invite /\ k \in redeemed'[machine'[k].token]
    BY <1>2, <1>5, <1>15 DEF RowInv
  <2> QED
    BY <2>1, <2>2, <2>3 DEF RowInv
<1>17. CallInv'
  <2> SUFFICES ASSUME guarded PROVE CallInv'
    BY <1>1 DEF CallInv
  <2>1. \A t : ByToken(t) \subseteq ByToken(t)'
    BY <1>8 DEF ByToken
  <2> QED
    BY <1>1, <1>15, <2>1 DEF CallInv
<1>18. ClaimsAreOnesOwn'
  BY <1>1 DEF ClaimsAreOnesOwn
<1> QED
  BY <1>10, <1>13, <1>14, <1>16, <1>17, <1>18

-----------------------------------------------------------------------------
(* What leaves every row with its token, its owner and its life.           *)

SameRows ==
  /\ DOMAIN runners' = DOMAIN runners
  /\ \A r \in DOMAIN runners :
       /\ runners'[r].live = runners[r].live /\ runners'[r].token = runners[r].token
       /\ runners'[r].owner = runners[r].owner

\* A step that leaves tokens, names and owners of rows alone.
LEMMA SameRowsKeep ==
  ASSUME FleetInv, SameRows, UNCHANGED <<guarded, forgetting, newest, enrolVars, machine>>
  PROVE  /\ InviteInv' /\ JoinInv' /\ RowInv'
         /\ \A t : ByToken(t)' = ByToken(t)
<1> USE DEF FleetInv, SameRows
<1>1. UNCHANGED <<invites, join, redeemed>>
  BY DEF enrolVars
<1>2. InviteInv' /\ JoinInv'
  BY <1>1 DEF InviteInv, Holding, JoinInv
<1>3. RowInv'
  BY <1>1 DEF RowInv, Live
<1> QED
  BY <1>2, <1>3 DEF ByToken

\* A new heartbeat, or the age of an old one.
LEMMA RowFields ==
  ASSUME NEW r \in Runner
  PROVE  \A b \in BOOLEAN, w \in {"none", "usable", "failing"} :
           /\ [r EXCEPT !.seen = b] \in Runner /\ [r EXCEPT !.fresh = b] \in Runner
           /\ [r EXCEPT !.pending = FALSE, !.seen = b] \in Runner
           /\ [r EXCEPT !.pending = FALSE, !.seen = b, !.word = w, !.fresh = b] \in Runner
           /\ [r EXCEPT !.live = FALSE, !.pending = FALSE] \in Runner
BY DEF Runner

\* What was seen or said grows old.
LEMMA AgeKeeps ==
  ASSUME FleetInv, NEW r \in DOMAIN runners, SeenGoesStale(r) \/ WordGoesStale(r)
  PROVE  FleetInv'
<1> USE DEF FleetInv
<1> DEFINE unseen == [runners[r] EXCEPT !.seen = FALSE]
           old == [runners[r] EXCEPT !.fresh = FALSE]
<1>1. /\ runners' = [runners EXCEPT ![r] = unseen] \/ runners' = [runners EXCEPT ![r] = old]
      /\ UNCHANGED <<guarded, forgetting, newest, enrolVars, machine, call, claims>>
  BY DEF SeenGoesStale, WordGoesStale, pageVars
<1>2. runners[r] \in Runner
  BY DEF FleetShapes
<1>3. /\ unseen \in Runner /\ old \in Runner
      /\ unseen.live = runners[r].live /\ old.live = runners[r].live
      /\ unseen.token = runners[r].token /\ old.token = runners[r].token
      /\ unseen.owner = runners[r].owner /\ old.owner = runners[r].owner
  <2>1. unseen \in Runner /\ old \in Runner
    BY <1>2, RowFields
  <2>2. unseen.live = runners[r].live /\ unseen.token = runners[r].token /\ unseen.owner = runners[r].owner
    BY <1>2 DEF Runner
  <2>3. old.live = runners[r].live /\ old.token = runners[r].token /\ old.owner = runners[r].owner
    BY <1>2 DEF Runner
  <2> QED
    BY <2>1, <2>2, <2>3
<1> HIDE DEF unseen, old
<1>4. SameRows /\ runners' \in [DOMAIN runners' -> Runner]
  BY <1>1, <1>3 DEF SameRows, FleetShapes
<1>5. FleetShapes'
  BY <1>1, <1>4 DEF FleetShapes, SameRows, enrolVars
<1> QED
  BY <1>1, <1>4, <1>5, SameRowsKeep DEF CallInv, ClaimsAreOnesOwn, enrolVars

-----------------------------------------------------------------------------
(* A claim on its way.                                                     *)

\* What every step of a claim leaves alone.
LEMMA CallStepKeeps ==
  ASSUME FleetInv, SameRows, UNCHANGED <<guarded, forgetting, newest, enrolVars, machine>>,
         runners' \in [DOMAIN runners' -> Runner], call' \in [Machine -> Calls]
  PROVE  FleetShapes' /\ InviteInv' /\ JoinInv' /\ RowInv'
<1>1. FleetShapes'
  BY DEF FleetInv, FleetShapes, SameRows, enrolVars
<1> QED
  BY <1>1, SameRowsKeep

\* A machine asks for jobs.
LEMMA PollKeeps ==
  ASSUME FleetInv, NEW m \in Machine, NEW n \in HostName, Poll(m, n)
  PROVE  FleetInv'
<1> USE DEF FleetInv
<1> DEFINE new == [stage |-> "sent", token |-> machine[m].token, name |-> n,
                   row |-> NoRunner, word |-> Word(m), raced |-> FALSE]
<1>1. /\ machine[m].name # NoName /\ call' = [call EXCEPT ![m] = new]
      /\ UNCHANGED <<guarded, forgetting, runners, newest, enrolVars, machine, claims>>
  BY DEF Poll, pageVars
<1>2. Word(m) \in {"none", "usable", "failing"} /\ machine[m].token \in Invite \cup {NoInvite}
  BY DEF Word, FleetShapes, Machines
<1>3. new \in Calls /\ new.stage = "sent" /\ new.token = machine[m].token
  BY <1>2 DEF Calls
<1> HIDE DEF new
<1>4. call' \in [Machine -> Calls] /\ call'[m] = new /\ \A k \in Machine \ {m} : call'[k] = call[k]
  BY <1>1, <1>3 DEF FleetShapes
<1>5. SameRows /\ runners' \in [DOMAIN runners' -> Runner]
  BY <1>1 DEF SameRows, FleetShapes
<1>6. CallInv'
  BY <1>1, <1>3, <1>4 DEF CallInv, RowInv, ByToken, enrolVars
<1> QED
  BY <1>1, <1>4, <1>5, <1>6, CallStepKeeps DEF ClaimsAreOnesOwn

\* The two looks at a token.
LEMMA ScopeKeeps ==
  ASSUME FleetInv, NEW m \in Machine, PassScope(m) \/ Identify(m)
  PROVE  FleetInv'
<1> USE DEF FleetInv
<1>1. UNCHANGED <<guarded, forgetting, runners, newest, enrolVars, machine, claims>>
  BY DEF PassScope, Identify, pageVars
<1>2. /\ call' \in [Machine -> Calls] /\ \A k \in Machine \ {m} : call'[k] = call[k]
      /\ \/ call'[m].stage = "idle"
         \/ /\ call[m].stage # "idle"
            /\ call'[m].token = call[m].token /\ call'[m].raced = call[m].raced
            /\ \/ call'[m].stage = "passed" /\ (guarded => ByToken(call[m].token) # {})
               \/ /\ call'[m].stage = "known"
                  /\ guarded => /\ call[m].stage = "passed"
                                /\ \/ call'[m].row \in ByToken(call[m].token)
                                   \/ ByToken(call[m].token) = {}
  <2>1. CASE EndCall(m)
    <3>1. NoCall.stage = "idle"
      BY DEF NoCall
    <3> QED
      BY <2>1, <3>1, NothingYet DEF EndCall, FleetShapes
  <2>2. CASE Calling(m, "sent") /\ CallTo(m, "passed") /\ ~(guarded /\ ByToken(call[m].token) = {})
    BY <2>2 DEF Calling, CallTo, FleetShapes, Calls
  <2>3. ASSUME NEW r \in DOMAIN runners, Calling(m, "passed"), Speaks(m, r),
               guarded => r \in ByToken(call[m].token) \/ ByToken(call[m].token) = {}
        PROVE  <1>2
    <3> DEFINE new == [stage |-> "known", token |-> call[m].token, name |-> call[m].name,
                       row |-> r, word |-> call[m].word, raced |-> call[m].raced]
    <3>1. call[m] \in Calls
      BY DEF FleetShapes
    <3>6. r \in RunnerIds
      <4>1. r \in 1 .. newest /\ newest \in 0 .. MaxRunnerRow
        BY DEF FleetShapes
      <4> QED
        BY <4>1, FleetAssumption DEF RunnerIds
    <3>7. call'[m] = [call[m] EXCEPT !.stage = "known", !.row = r]
      BY <2>3 DEF Speaks, FleetShapes
    <3>2. call'[m] = new
      BY <3>1, <3>7 DEF Calls
    <3>8. DOMAIN call' = Machine /\ \A k \in Machine \ {m} : call'[k] = call[k]
      BY <2>3 DEF Speaks, FleetShapes
    <3>3. new \in Calls
      BY <3>1, <3>6 DEF Calls
    <3>4. new.stage = "known" /\ new.row = r /\ new.token = call[m].token /\ new.raced = call[m].raced
      OBVIOUS
    <3> HIDE DEF new
    <3>5. call' \in [Machine -> Calls]
      <4>1. call' = [k \in Machine |-> call'[k]]
        BY <2>3 DEF Speaks, FleetShapes
      <4> QED
        BY <4>1, <3>2, <3>3, <3>8 DEF FleetShapes
    <3> QED
      BY <2>3, <3>2, <3>4, <3>5, <3>8 DEF Calling
  <2>4. CASE PassScope(m)
    BY <2>4, <2>1, <2>2 DEF PassScope
  <2>5. CASE Identify(m)
    <3>1. ByToken(call[m].token) \subseteq DOMAIN runners /\ LiveNamed(call[m].name) \subseteq DOMAIN runners
      BY DEF ByToken, LiveNamed
    <3> QED
      BY <2>5, <3>1, <2>1, <2>3 DEF Identify
  <2> QED
    BY <2>4, <2>5
<1>3. SameRows /\ runners' \in [DOMAIN runners' -> Runner]
  BY <1>1 DEF SameRows, FleetShapes
<1>4. CallInv'
  BY <1>1, <1>2 DEF CallInv, ByToken, enrolVars
<1> QED
  BY <1>1, <1>2, <1>3, <1>4, CallStepKeeps DEF ClaimsAreOnesOwn

\* The row that is found is marked seen, with what the machine said.
LEMMA HeartbeatKeeps ==
  ASSUME FleetInv, NEW m \in Machine, Heartbeat(m)
  PROVE  FleetInv'
<1> USE DEF FleetInv
<1> DEFINE beat(r) == IF call[m].word = "none" THEN [runners[r] EXCEPT !.pending = FALSE, !.seen = TRUE]
                      ELSE [runners[r] EXCEPT !.pending = FALSE, !.seen = TRUE,
                                              !.word = call[m].word, !.fresh = TRUE]
<1>1. /\ runners' = [r \in DOMAIN runners |-> IF r # call[m].row THEN runners[r] ELSE beat(r)]
      /\ call' = [call EXCEPT ![m].stage = "taking"] /\ call[m].stage = "known"
      /\ UNCHANGED <<guarded, forgetting, newest, enrolVars, machine, claims>>
  BY DEF Heartbeat, CallTo, Calling, pageVars
<1>2. \A r \in DOMAIN runners :
        /\ beat(r) \in Runner
        /\ beat(r).live = runners[r].live /\ beat(r).token = runners[r].token
        /\ beat(r).owner = runners[r].owner
  <2> SUFFICES ASSUME NEW r \in DOMAIN runners
               PROVE  /\ beat(r) \in Runner
                      /\ beat(r).live = runners[r].live /\ beat(r).token = runners[r].token
                      /\ beat(r).owner = runners[r].owner
    OBVIOUS
  <2>1. runners[r] \in Runner /\ call[m].word \in {"none", "usable", "failing"}
    BY DEF FleetShapes, Calls
  <2>2. beat(r) \in Runner
    BY <2>1, RowFields
  <2> QED
    BY <2>1, <2>2 DEF Runner
<1> HIDE DEF beat
<1>3. SameRows /\ runners' \in [DOMAIN runners' -> Runner]
  BY <1>1, <1>2 DEF SameRows, FleetShapes
<1>4. /\ call' \in [Machine -> Calls] /\ \A k \in Machine \ {m} : call'[k] = call[k]
      /\ call'[m].stage = "taking" /\ call'[m].token = call[m].token
      /\ call'[m].row = call[m].row /\ call'[m].raced = call[m].raced
  BY <1>1 DEF FleetShapes, Calls
<1>5. CallInv'
  <2>1. \A t : ByToken(t)' = ByToken(t)
    BY <1>1, <1>3, SameRowsKeep
  <2> QED
    BY <1>1, <1>4, <2>1 DEF CallInv, enrolVars
<1> QED
  BY <1>1, <1>3, <1>4, <1>5, CallStepKeeps DEF ClaimsAreOnesOwn

\* The row a claim goes by is its sender's, since its token enrolled nobody else.
LEMMA TakeKeeps ==
  ASSUME FleetInv, NEW m \in Machine, TakeJobs(m)
  PROVE  FleetInv'
<1> USE DEF FleetInv
<1> DEFINE own == Live(call[m].row) /\ runners[call[m].row].owner = m
<1>1. /\ call[m].stage = "taking" /\ call' = [call EXCEPT ![m] = NoCall]
      /\ claims' = claims \/ claims' = claims \cup {[own |-> own, raced |-> call[m].raced]}
      /\ UNCHANGED <<guarded, forgetting, runners, newest, enrolVars, machine>>
  BY DEF TakeJobs, Calling, EndCall, pageVars
<1>2. guarded => own \/ call[m].raced
  <2> SUFFICES ASSUME guarded, ~call[m].raced PROVE own
    OBVIOUS
  <2> DEFINE t == call[m].token
             r == call[m].row
  <2>1. t \in Invite /\ m \in redeemed[t] /\ r \in ByToken(t)
    BY <1>1 DEF CallInv
  <2>2. r \in DOMAIN runners /\ runners[r].live /\ runners[r].owner \in redeemed[t]
    BY <2>1 DEF ByToken, RowInv
  <2>3. PICK k \in Machine : redeemed[t] = {k}
    BY <2>1 DEF InviteInv
  <2> QED
    BY <2>1, <2>2, <2>3 DEF Live
<1> HIDE DEF own
<1>3. ClaimsAreOnesOwn'
  BY <1>1, <1>2 DEF ClaimsAreOnesOwn
<1>4. call' \in [Machine -> Calls] /\ call'[m].stage = "idle" /\ \A k \in Machine \ {m} : call'[k] = call[k]
  <2>1. NoCall.stage = "idle"
    BY DEF NoCall
  <2> QED
    BY <1>1, <2>1, NothingYet DEF FleetShapes
<1>5. SameRows /\ runners' \in [DOMAIN runners' -> Runner]
  BY <1>1 DEF SameRows, FleetShapes
<1>6. CallInv'
  BY <1>1, <1>4 DEF CallInv, ByToken, enrolVars
<1> QED
  BY <1>1, <1>3, <1>4, <1>5, <1>6, CallStepKeeps

-----------------------------------------------------------------------------
(* Revoking and forgetting.                                                *)

\* A runner is revoked while calls are under way.
LEMMA RevokeKeeps ==
  ASSUME FleetInv, NEW r \in DOMAIN runners, RevokeRunner(r)
  PROVE  FleetInv'
<1> USE DEF FleetInv
<1> DEFINE revoked == [runners[r] EXCEPT !.live = FALSE, !.pending = FALSE]
<1>1. /\ runners' = [runners EXCEPT ![r] = revoked]
      /\ call' = [m \in Machine |->
           [call[m] EXCEPT !.raced = @ \/ (call[m].stage # "idle" /\ runners[r].token = call[m].token)]]
      /\ UNCHANGED <<guarded, forgetting, newest, enrolVars, machine, claims>>
  BY DEF RevokeRunner, pageVars
<1>2. runners[r] \in Runner
  BY DEF FleetShapes
<1>3. /\ revoked \in Runner /\ ~revoked.live
      /\ revoked.token = runners[r].token /\ revoked.owner = runners[r].owner
  <2>1. revoked \in Runner
    BY <1>2, RowFields
  <2> QED
    BY <1>2, <2>1 DEF Runner
<1> HIDE DEF revoked
<1>4. /\ DOMAIN runners' = DOMAIN runners /\ runners'[r] = revoked
      /\ \A q \in DOMAIN runners \ {r} : runners'[q] = runners[q]
      /\ runners' \in [DOMAIN runners' -> Runner]
  BY <1>1, <1>3 DEF FleetShapes
<1>5. \A m \in Machine :
        /\ call'[m] \in Calls
        /\ call'[m].stage = call[m].stage /\ call'[m].token = call[m].token
        /\ call'[m].row = call[m].row
        /\ ~call'[m].raced => ~call[m].raced /\ ~(call[m].stage # "idle" /\ runners[r].token = call[m].token)
  <2> SUFFICES ASSUME NEW m \in Machine
               PROVE  /\ call'[m] \in Calls
                      /\ call'[m].stage = call[m].stage /\ call'[m].token = call[m].token
                      /\ call'[m].row = call[m].row
                      /\ ~call'[m].raced => ~call[m].raced
                           /\ ~(call[m].stage # "idle" /\ runners[r].token = call[m].token)
    OBVIOUS
  <2> DEFINE raced == call[m].raced \/ (call[m].stage # "idle" /\ runners[r].token = call[m].token)
  <2>1. call'[m] = [call[m] EXCEPT !.raced = raced] /\ call[m] \in Calls /\ raced \in BOOLEAN
    BY <1>1 DEF FleetShapes, Calls
  <2>2. ~raced => ~call[m].raced /\ ~(call[m].stage # "idle" /\ runners[r].token = call[m].token)
    OBVIOUS
  <2> HIDE DEF raced
  <2>3. /\ call'[m] \in Calls /\ call'[m].raced = raced
        /\ call'[m].stage = call[m].stage /\ call'[m].token = call[m].token
        /\ call'[m].row = call[m].row
    BY <2>1 DEF Calls
  <2> QED
    BY <2>2, <2>3
<1>6. FleetShapes'
  <2>1. call' \in [Machine -> Calls]
    <3>1. call' = [m \in Machine |-> call'[m]]
      BY <1>1
    <3> QED
      BY <3>1, <1>5
  <2> QED
    BY <1>1, <1>4, <2>1 DEF FleetShapes, enrolVars
<1>7. InviteInv' /\ JoinInv'
  BY <1>1 DEF InviteInv, Holding, JoinInv, enrolVars
<1>8. RowInv'
  BY <1>1, <1>3, <1>4 DEF RowInv, Live, enrolVars
<1>9. CallInv'
  <2>1. \A t : t # runners[r].token => ByToken(t)' = ByToken(t)
    BY <1>3, <1>4 DEF ByToken
  <2> QED
    BY <1>1, <1>5, <2>1 DEF CallInv, enrolVars
<1> QED
  BY <1>1, <1>6, <1>7, <1>8, <1>9 DEF ClaimsAreOnesOwn

\* A revoked runner is found and deleted.
LEMMA ForgetKeeps ==
  ASSUME FleetInv, NEW r, FindRevoked(r) \/ ForgetRunner(r)
  PROVE  FleetInv'
<1> USE DEF FleetInv
<1>1. UNCHANGED <<guarded, newest, enrolVars, machine, call, claims>>
  BY DEF FindRevoked, ForgetRunner
<1>2. UNCHANGED <<invites, join, redeemed>>
  BY <1>1 DEF enrolVars
<1>3. InviteInv' /\ JoinInv' /\ ClaimsAreOnesOwn'
  BY <1>1, <1>2 DEF InviteInv, Holding, JoinInv, ClaimsAreOnesOwn
<1>4. CASE FindRevoked(r)
  <2>1. /\ UNCHANGED runners /\ forgetting' = forgetting \cup {r}
        /\ r \in DOMAIN runners /\ ~runners[r].live
    BY <1>4 DEF FindRevoked
  <2>2. RowInv'
    BY <1>1, <1>2, <2>1 DEF RowInv, Live, FleetShapes
  <2> QED
    BY <1>1, <1>2, <1>3, <2>1, <2>2 DEF FleetShapes, CallInv, ByToken
<1>5. CASE ForgetRunner(r)
  <2>1. /\ r \in forgetting /\ forgetting' = forgetting \ {r}
        /\ runners' = [q \in DOMAIN runners \ {r} |-> runners[q]]
    BY <1>5 DEF ForgetRunner, Restrict
  <2>2. FleetShapes'
    BY <1>1, <1>2, <2>1 DEF FleetShapes
  <2>3. RowInv'
    BY <1>1, <1>2, <2>1 DEF RowInv, Live
  <2>4. guarded => \A t : ByToken(t)' = ByToken(t)
    BY <2>1 DEF RowInv, Live, ByToken
  <2>5. CallInv'
    BY <1>1, <1>2, <2>4 DEF CallInv
  <2> QED
    BY <1>3, <2>2, <2>3, <2>5
<1> QED
  BY <1>4, <1>5

\* A machine changes, but neither its token nor its name; or nothing here does.
LEMMA AroundKeeps ==
  ASSUME FleetInv,
         \/ UNCHANGED fleetVars
         \/ \E p \in {"barred", "unmapped", "bare", "ready"}, ws \in SUBSET Worker : ProjectChanges(p, ws)
         \/ \E m \in Machine : \/ \E c \in RunnerCall : CallFromAJob(m, c)
                               \/ \E on, speaks, usable \in BOOLEAN : MachineChanges(m, on, speaks, usable)
  PROVE  FleetInv'
<1> USE DEF FleetInv
<1>1. UNCHANGED <<guarded, forgetting, runners, newest, invites, join, redeemed, call, claims>>
  BY DEF fleetVars, ProjectChanges, CallFromAJob, MachineChanges, pageVars, enrolVars
<1>2. /\ machine' \in [Machine -> Machines]
      /\ \A m \in Machine : machine'[m].token = machine[m].token /\ machine'[m].name = machine[m].name
  <2>1. ASSUME NEW m \in Machine, NEW on \in BOOLEAN, NEW speaks \in BOOLEAN, NEW usable \in BOOLEAN,
               MachineChanges(m, on, speaks, usable)
        PROVE  <1>2
    <3> DEFINE new == [token |-> machine[m].token, name |-> machine[m].name,
                       on |-> on, speaks |-> speaks, usable |-> usable]
    <3>1. new \in Machines /\ new.token = machine[m].token /\ new.name = machine[m].name
      BY DEF FleetShapes, Machines
    <3>2. machine' = [machine EXCEPT ![m] = new]
      BY <2>1 DEF MachineChanges
    <3> HIDE DEF new
    <3> QED
      BY <3>1, <3>2 DEF FleetShapes
  <2>2. CASE UNCHANGED machine
    BY <2>2 DEF FleetShapes
  <2> QED
    BY <2>1, <2>2 DEF fleetVars, ProjectChanges, CallFromAJob
<1>3. FleetShapes'
  BY <1>1, <1>2 DEF FleetShapes
<1>4. InviteInv' /\ JoinInv' /\ ClaimsAreOnesOwn'
  BY <1>1 DEF InviteInv, Holding, JoinInv, ClaimsAreOnesOwn
<1>5. RowInv' /\ CallInv'
  BY <1>1, <1>2 DEF RowInv, Live, CallInv, ByToken
<1> QED
  BY <1>3, <1>4, <1>5

\* Every step of machines, operators and time keeps the invariant.
LEMMA FleetStep == FleetInv /\ [FleetNext]_fleetVars => FleetInv'
<1> SUFFICES ASSUME FleetInv, [FleetNext]_fleetVars PROVE FleetInv'
  OBVIOUS
<1>1. ASSUME NEW m \in Machine, JoinStep(m) PROVE FleetInv'
  BY <1>1, JoinStepKeeps, WriteKeeps DEF JoinStep
<1>2. ASSUME NEW m \in Machine, CallStep(m) PROVE FleetInv'
  BY <1>2, ScopeKeeps, HeartbeatKeeps, TakeKeeps DEF CallStep
<1>3. CASE OperatorStep
  BY <1>3, InviteStepKeeps, RevokeKeeps, ForgetKeeps DEF OperatorStep
<1> QED
  BY <1>1, <1>2, <1>3, PollKeeps, AgeKeeps, AroundKeeps DEF FleetNext, AgeStep

\* What the two promises below rest on: an invite that enrolled a machine is used,
\* enrolled no other, and is in no other transaction; the row of a token is of the
\* machine its invite enrolled; and a claim no revocation crossed is behind the row
\* of its token (routes/runners.ts, auth.ts).
THEOREM FleetInvariant == FleetSpec => []FleetInv
BY FleetInitially, FleetStep, PTL DEF FleetSpec

\* However many machines present it at once, an invite enrols one (POST /join).
THEOREM InviteEnrolsOne == FleetSpec => []OneMachinePerInvite
<1>1. FleetInv => OneMachinePerInvite
  <2> SUFFICES ASSUME FleetInv, NEW i \in Invite PROVE Cardinality(redeemed[i]) <= 1
    BY DEF OneMachinePerInvite
  <2>1. redeemed[i] = {} \/ \E m : redeemed[i] = {m}
    BY DEF FleetInv, InviteInv
  <2>2. Cardinality({}) = 0 /\ \A m : Cardinality({m}) = 1
    BY FS_EmptySet, FS_Singleton
  <2>3. CASE redeemed[i] = {}
    BY <2>2, <2>3
  <2>4. ASSUME NEW m, redeemed[i] = {m}
        PROVE  Cardinality(redeemed[i]) <= 1
    <3>1. Cardinality(redeemed[i]) = 1
      BY <2>4, FS_Singleton, Zenon
    <3> QED
      BY <3>1
  <2> QED
    BY <2>1, <2>3, <2>4
<1> QED
  BY FleetInvariant, <1>1, PTL

\* Behind a token, jobs are claimed under the row of the machine that asked,
\* unless its runner was revoked while the claim was being answered
\* (requireScope, POST /claim).
THEOREM ClaimsSpeakForTheirMachine == FleetSpec => []ClaimsAreOnesOwn
<1>1. FleetInv => ClaimsAreOnesOwn
  BY DEF FleetInv
<1> QED
  BY FleetInvariant, <1>1, PTL
=============================================================================
