-------------------------------- MODULE MCFleet --------------------------------
(***************************************************************************)
(* Fleet for TLC: two machines, two invites and two names.  A behaviour is  *)
(* about one part of it, the one in focus, with some of the actions:        *)
(*   enrol  two machines join at once, while invites and runners come and   *)
(*          go, behind a token and on localhost;                            *)
(*   claim  a machine polls while its runner is revoked, forgotten, and     *)
(*          another takes its name;                                         *)
(*   word   two machines that poll, one changing and one logged in or not   *)
(*          for good, and what admission makes of what they say.           *)
(***************************************************************************)
EXTENDS Fleet

CONSTANTS m1, m2, n1, n2, i1, i2

VARIABLE focus

Modifiers == {[modifier |-> TRUE, bootstrap |-> FALSE]}

\* The name a machine has, and the invite it is given, in the focus "word".
NameOf(m) == IF m = m1 THEN n1 ELSE n2
InviteOf(m) == IF m = m1 THEN i1 ELSE i2

NewMachine(speaks, usable) ==
  [token |-> NoInvite, name |-> NoName, on |-> TRUE, speaks |-> speaks, usable |-> usable]

MCInit ==
  /\ focus \in {"enrol", "claim", "word"}
  /\ FleetInit /\ project = "ready"
  /\ focus # "enrol" => guarded
  /\ machine[m1] = NewMachine(focus = "word", TRUE)
  /\ \E usable \in BOOLEAN :
       /\ machine[m2] = NewMachine(focus = "word", usable)
       /\ focus # "word" => usable

JoinsAlone(m) == ClaimInvite(m) \/ LookForName(m) \/ WriteRunner(m, TRUE)

EnrolNext == (\E m \in Machine : JoinStep(m)) \/ OperatorStep

ClaimNext ==
  \/ \E n \in HostName :
       \/ Join(m1, i1, n) \/ Poll(m1, n)
       \/ machine[m1].name # NoName /\ Join(m2, i2, n)
  \/ \E m \in Machine :
       \/ JoinsAlone(m) \/ CallStep(m)
       \/ \E c \in RunnerCall : CallFromAJob(m, c)
  \/ \E i \in Invite : MintInvite(i)
  \/ \E r \in DOMAIN runners : RevokeRunner(r) \/ FindRevoked(r)
  \/ \E r \in forgetting : ForgetRunner(r)

Joined == \A m \in Machine : machine[m].name # NoName

JoinInTurn(m) ==
  /\ m = m1 \/ machine[m1].name # NoName
  /\ \/ JoinsAlone(m)
     \/ /\ machine[m].name = NoName
        /\ Join(m, InviteOf(m), NameOf(m)) \/ MintInvite(InviteOf(m))

WordNext ==
  \/ \E m \in Machine : JoinInTurn(m)
  \/ /\ Joined
     /\ \/ \E m \in Machine : PollsOn(m)
        \/ \E on, speaks, usable \in BOOLEAN : MachineChanges(m1, on, speaks, usable)
        \/ AgeStep
        \/ \E p \in {"barred", "unmapped", "bare", "ready"}, ws \in SUBSET Worker :
             ProjectChanges(p, ws)

MCNext ==
  /\ UNCHANGED focus
  /\ \/ focus = "enrol" /\ EnrolNext
     \/ focus = "claim" /\ ClaimNext
     \/ focus = "word" /\ WordNext

\* Fleet's fairness, in the focus "word" and once the machines have joined.
MCSpec ==
  /\ MCInit /\ [][MCNext]_<<focus, fleetVars>>
  /\ \A m \in Machine : WF_fleetVars(focus = "word" /\ Joined /\ PollsOn(m))
  /\ \A r \in RunnerIds :
       /\ WF_fleetVars(focus = "word" /\ Joined /\ SeenGoesStale(r))
       /\ WF_fleetVars(focus = "word" /\ Joined /\ WordGoesStale(r))
=============================================================================
