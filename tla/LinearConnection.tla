-------------------------- MODULE LinearConnection --------------------------
(***************************************************************************)
(* One project's connection to Linear: the credential a poll uses          *)
(* (integrations/linear-credential.ts, foreman/linear-grant.ts), the flows *)
(* that connect and disconnect (routes/oauth.ts, core linear-connect.ts,   *)
(* and `ogun connect`, which calls the same functions from a process of    *)
(* its own), and the store they share (core config/secrets.ts, every write *)
(* of which is one read-modify-write under the lock of config.json).       *)
(*                                                                         *)
(* Linear itself is modelled as far as linear-oauth.ts relies on it: a     *)
(* refresh token is spent by its renewal, and a spent one answers with its *)
(* successor again for a while.                                            *)
(***************************************************************************)
EXTENDS Naturals, Sequences, FiniteSets

CONSTANTS
  App,        \* client ids of registered applications
  Polls,      \* polls that overlap in the control plane
  Flow,       \* requests and commands of operators
  MaxToken,   \* bound: tokens Linear ever issues
  MaxLinearFault    \* bound: lost answers, failed writes, restarts

None == "none"

ASSUME LinearAssumption ==
  MaxToken \in Nat /\ MaxLinearFault \in Nat /\ None \notin App \cup Polls

VARIABLES
  store,     \* config.json: the application, the grant, the personal key
  issued,    \* Linear: the tokens issued, in order; a token is its number
  poll,      \* per poll: what it holds, and the renewal it leads
  inFlight,  \* the poll whose renewal the others wait for
  flow,      \* per flow: where it stands
  linearFaults,    \* linearFaults so far
  lost       \* observation: tokens whose renewal was answered and not recorded

linearVars == <<store, issued, poll, inFlight, flow, linearFaults, lost>>

NoToken == 0
TokenId == 0 .. MaxToken
Token == [client : App, type : {"app", "code"}, next : TokenId,
          aged : BOOLEAN, lapsed : BOOLEAN, revoked : BOOLEAN]
Fresh(a, type) == [client |-> a, type |-> type, next |-> NoToken,
                   aged |-> FALSE, lapsed |-> FALSE, revoked |-> FALSE]
NoFlow == [stage |-> "idle", app |-> None, got |-> NoToken]
NoPolling == [stage |-> "idle", grant |-> NoToken, app |-> None, got |-> NoToken]

LinearTypeOK ==
  /\ store \in [app : App \cup {None}, grant : TokenId, key : BOOLEAN]
  /\ issued \in Seq(Token) /\ Len(issued) <= MaxToken
  /\ poll \in [Polls -> [stage : {"idle", "held", "app", "call", "store", "wait"},
                         grant : TokenId, app : App \cup {None}, got : TokenId]]
  /\ inFlight \in Polls \cup {None}
  /\ flow \in [Flow -> [stage : {"idle", "register", "mint", "start", "consent", "code", "store",
                                 "retire", "key", "revoke", "forget", "drop", "unkey"},
                        app : App \cup {None}, got : TokenId]]
  /\ linearFaults \in 0 .. MaxLinearFault
  /\ lost \subseteq 1 .. Len(issued)

\* A machine that was never connected, or one connected some time ago.
LinearInit ==
  /\ \/ issued = << >> /\ store = [app |-> None, grant |-> NoToken, key |-> FALSE]
     \/ \E a \in App, type \in {"app", "code"} :
          /\ issued = <<Fresh(a, type)>>
          /\ store = [app |-> a, grant |-> 1, key |-> FALSE]
  /\ poll = [p \in Polls |-> NoPolling]
  /\ inFlight = None
  /\ flow = [f \in Flow |-> NoFlow]
  /\ linearFaults = 0 /\ lost = {}

-----------------------------------------------------------------------------
(* The store (secrets.ts).                                                 *)

HasGrant == store.grant # NoToken

\* setOAuthApp: a grant survives a change of secret, not a change of client id.
SetOAuthApp(a) ==
  store' = [store EXCEPT !.app = a, !.grant = IF store.app = a THEN @ ELSE NoToken]

\* readOAuthApp finds an application.
Registered == store.app # None

\* storeOAuthGrant: into whatever is there, as long as an application is.
CanStoreGrant == Registered
StoreOAuthGrant(t) == store' = [store EXCEPT !.grant = t]

ClearOAuthGrant == store' = [store EXCEPT !.grant = NoToken]
ClearOAuthApp == store' = [store EXCEPT !.app = None, !.grant = NoToken]
SetProjectSecret == store' = [store EXCEPT !.key = TRUE]
ClearProjectSecret == store' = [store EXCEPT !.key = FALSE]

\* readProjectSecret: a grant wins over a key; an application nobody authorized
\* shadows nothing.
Credential ==
  IF Registered /\ HasGrant THEN "granted"
  ELSE IF store.key THEN "present"
  ELSE IF Registered THEN "unconnected" ELSE "absent"

-----------------------------------------------------------------------------
(* Linear (linear-oauth.ts): appTokenGrant, exchangeCode, refreshGrant.    *)

CanIssue == Len(issued) < MaxToken
Issue(a, type) == issued' = Append(issued, Fresh(a, type))
NewToken == Len(issued) + 1
RevokeToken(t) == issued' = [issued EXCEPT ![t].revoked = TRUE]
LinearFault == linearFaults < MaxLinearFault /\ linearFaults' = linearFaults + 1

\* A refresh token is honoured for the application it was issued to, and after
\* it was spent until its replay window lapses.
Honoured(t, a) ==
  /\ issued[t].client = a /\ ~issued[t].revoked
  /\ issued[t].next = NoToken \/ ~issued[t].lapsed

\* What a renewal of the grant g for the application a answers with.
Renewal(g, a) ==
  IF issued[g].type = "app" \/ issued[g].next = NoToken THEN NewToken ELSE issued[g].next
Renews(g, a) ==
  IF issued[g].type = "app"
  THEN CanIssue /\ Issue(a, "app")
  ELSE IF issued[g].next = NoToken
       THEN /\ CanIssue
            /\ issued' = [Append(issued, Fresh(a, "code")) EXCEPT ![g].next = NewToken]
       ELSE UNCHANGED issued

-----------------------------------------------------------------------------
(* A poll: projectLinearCredential, usableGrant, refreshOnce.              *)

PollsEnd(ps) == [p \in Polls |-> IF p \in ps THEN NoPolling ELSE poll[p]]
Waiting == {p \in Polls : poll[p].stage = "wait"}

\* Anything but a grant is an answer at once: the key, or a refusal.
ReadCredential(p) ==
  /\ poll[p].stage = "idle" /\ Credential = "granted"
  /\ poll' = [poll EXCEPT ![p] = [NoPolling EXCEPT !.stage = "held", !.grant = store.grant]]
  /\ UNCHANGED <<store, issued, inFlight, flow, linearFaults, lost>>

\* A token well within its life is used as it is.
UseValid(p) ==
  /\ poll[p].stage = "held" /\ ~issued[poll[p].grant].aged
  /\ poll' = PollsEnd({p})
  /\ UNCHANGED <<store, issued, inFlight, flow, linearFaults, lost>>

\* Otherwise the poll waits for the renewal in flight, or leads one.
JoinRenewal(p) ==
  /\ poll[p].stage = "held" /\ issued[poll[p].grant].aged
  /\ inFlight # None
  /\ poll' = [poll EXCEPT ![p].stage = "wait"]
  /\ UNCHANGED <<store, issued, inFlight, flow, linearFaults, lost>>

LeadRenewal(p) ==
  /\ poll[p].stage = "held" /\ issued[poll[p].grant].aged
  /\ inFlight = None
  /\ inFlight' = p
  /\ poll' = [poll EXCEPT ![p].stage = "app"]
  /\ UNCHANGED <<store, issued, flow, linearFaults, lost>>

\* refreshOnce settles, `finally` clears the map, and every waiter gets its answer.
Settle(p) ==
  /\ poll' = PollsEnd(Waiting \cup {p})
  /\ inFlight' = None

ReadApp(p) ==
  /\ poll[p].stage = "app"
  /\ IF ~Registered
     THEN Settle(p)
     ELSE /\ poll' = [poll EXCEPT ![p].stage = "call", ![p].app = store.app]
          /\ UNCHANGED inFlight
  /\ UNCHANGED <<store, issued, flow, linearFaults, lost>>

CallLinear(p) ==
  /\ poll[p].stage = "call"
  /\ LET g == poll[p].grant
         a == poll[p].app
     IN  IF issued[g].type = "app" \/ Honoured(g, a)
         THEN /\ Renews(g, a)
              /\ poll' = [poll EXCEPT ![p].stage = "store", ![p].got = Renewal(g, a)]
              /\ UNCHANGED inFlight
         ELSE Settle(p) /\ UNCHANGED issued
  /\ UNCHANGED <<store, flow, linearFaults, lost>>

\* `transport`: the request, or the answer to one Linear acted on, is lost.
CallFails(p) ==
  /\ poll[p].stage = "call" /\ LinearFault
  /\ LET g == poll[p].grant
     IN  \/ UNCHANGED <<issued, lost>>
         \/ /\ issued[g].type = "code" /\ Honoured(g, poll[p].app)
            /\ Renews(g, poll[p].app)
            /\ lost' = lost \cup {g}
  /\ Settle(p)
  /\ UNCHANGED <<store, flow>>

\* Mutant: used, and not written.
StoreRenewalUnwritten(p) ==
  /\ poll[p].stage = "store"
  /\ Settle(p)
  /\ UNCHANGED <<store, issued, flow, linearFaults, lost>>

\* Written before it is used.
StoreRenewal(p) ==
  /\ poll[p].stage = "store"
  /\ IF CanStoreGrant
     THEN /\ StoreOAuthGrant(poll[p].got)
          /\ UNCHANGED lost
     ELSE /\ lost' = lost \cup {poll[p].grant}
          /\ UNCHANGED <<store>>
  /\ Settle(p)
  /\ UNCHANGED <<issued, flow, linearFaults>>

\* Mutant: no `finally` around the renewal.
StoreFailsInFlight(p) ==
  /\ poll[p].stage = "store" /\ LinearFault
  /\ lost' = lost \cup {poll[p].grant}
  /\ poll' = PollsEnd({p})
  /\ UNCHANGED <<store, issued, inFlight, flow>>

\* `local`: the write fails, and nobody uses what it would have recorded.
StoreFails(p) ==
  /\ poll[p].stage = "store" /\ LinearFault
  /\ lost' = lost \cup {poll[p].grant}
  /\ Settle(p)
  /\ UNCHANGED <<store, issued, flow>>

-----------------------------------------------------------------------------
(* The flows.                                                              *)

FlowAt(f, stage) == flow[f].stage = stage
FlowTo(f, stage) == flow' = [flow EXCEPT ![f].stage = stage]
Hold(f, stage, a, t) == flow' = [flow EXCEPT ![f] = [stage |-> stage, app |-> a, got |-> t]]
EndFlow(f) == flow' = [flow EXCEPT ![f] = NoFlow]

\* PUT /linear/app.
PutApp(f, a) ==
  /\ FlowAt(f, "idle")
  /\ SetOAuthApp(a)
  /\ UNCHANGED <<issued, poll, inFlight, flow, linearFaults, lost>>

\* `ogun connect linear` collects an application, the registered one or one that is
\* typed in, after it found no consent grant; POST /linear/connect looks for none.
ConsentGranted == HasGrant /\ issued[store.grant].type = "code"
ConnectCommand(f, a) ==
  /\ FlowAt(f, "idle") /\ ~ConsentGranted
  /\ Hold(f, "register", a, NoToken)
  /\ UNCHANGED <<store, issued, poll, inFlight, linearFaults, lost>>

ConnectRequest(f, a) ==
  /\ FlowAt(f, "idle")
  /\ Hold(f, "register", a, NoToken)
  /\ UNCHANGED <<store, issued, poll, inFlight, linearFaults, lost>>

\* connectWithAppToken writes the application it was given ...
RegisterApp(f) ==
  /\ FlowAt(f, "register")
  /\ SetOAuthApp(flow[f].app)
  /\ FlowTo(f, "mint")
  /\ UNCHANGED <<issued, poll, inFlight, linearFaults, lost>>

\* ... and asks with the credentials it was given.
MintAppToken(f) ==
  /\ FlowAt(f, "mint") /\ CanIssue
  /\ Issue(flow[f].app, "app")
  /\ Hold(f, "store", flow[f].app, NewToken)
  /\ UNCHANGED <<store, poll, inFlight, linearFaults, lost>>

\* `ogun connect linear --consent` puts an application, unless the registered one will do,
\* and asks for a state.
ConsentCommand(f, a) ==
  /\ FlowAt(f, "idle")
  /\ SetOAuthApp(a) \/ (Registered /\ UNCHANGED store)
  /\ FlowTo(f, "start")
  /\ UNCHANGED <<issued, poll, inFlight, linearFaults, lost>>

\* /linear/start hands out a state; the map it sits in is this process's.
StartConsent(f) ==
  /\ FlowAt(f, "idle") \/ FlowAt(f, "start")
  /\ Registered
  /\ Hold(f, "consent", store.app, NoToken)
  /\ UNCHANGED <<store, issued, poll, inFlight, linearFaults, lost>>

\* The callback, or the pasted URL, consumes the state and reads the application
\* (completeAuthorization); Linear honours a code for the one that asked for it.
SameApplication(f) == store.app = flow[f].app
Callback(f) ==
  /\ FlowAt(f, "consent")
  /\ IF SameApplication(f) THEN FlowTo(f, "code") ELSE EndFlow(f)
  /\ UNCHANGED <<store, issued, poll, inFlight, linearFaults, lost>>

ExchangeCode(f) ==
  /\ FlowAt(f, "code") /\ CanIssue
  /\ Issue(flow[f].app, "code")
  /\ Hold(f, "store", flow[f].app, NewToken)
  /\ UNCHANGED <<store, poll, inFlight, linearFaults, lost>>

\* finishConnection: the grant is stored, then the personal key is retired.
StoreConnection(f) ==
  /\ FlowAt(f, "store")
  /\ IF CanStoreGrant
     THEN /\ StoreOAuthGrant(flow[f].got)
          /\ FlowTo(f, "retire")
     ELSE EndFlow(f) /\ UNCHANGED store
  /\ UNCHANGED <<issued, poll, inFlight, linearFaults, lost>>

RetireKey(f) ==
  /\ FlowAt(f, "retire") \/ FlowAt(f, "unkey")
  /\ ClearProjectSecret
  /\ EndFlow(f)
  /\ UNCHANGED <<issued, poll, inFlight, linearFaults, lost>>

\* `ogun connect linear --api-key`: refused while a grant would shadow the key, and
\* written once somebody typed it.
AskForKey(f) ==
  /\ FlowAt(f, "idle") /\ ~HasGrant
  /\ FlowTo(f, "key")
  /\ UNCHANGED <<store, issued, poll, inFlight, linearFaults, lost>>

StoreKey(f) ==
  /\ FlowAt(f, "key")
  /\ SetProjectSecret
  /\ EndFlow(f)
  /\ UNCHANGED <<issued, poll, inFlight, linearFaults, lost>>

\* The secrets of Settings, stored and removed whatever else there is.
PutSecret(f) ==
  /\ FlowAt(f, "idle")
  /\ SetProjectSecret
  /\ UNCHANGED <<issued, poll, inFlight, flow, linearFaults, lost>>

DeleteSecret(f) ==
  /\ FlowAt(f, "idle") /\ store.key
  /\ ClearProjectSecret
  /\ UNCHANGED <<issued, poll, inFlight, flow, linearFaults, lost>>

\* A request fails, a prompt is left, a browser tab is closed, a state expires.
FlowFails(f) ==
  /\ \E stage \in {"register", "mint", "start", "consent", "code", "key"} : FlowAt(f, stage)
  /\ EndFlow(f)
  /\ UNCHANGED <<store, issued, poll, inFlight, linearFaults, lost>>

\* disconnectProject: keeping the pair that mints the token is refused.
BeginDisconnect(f, keep) ==
  /\ FlowAt(f, "idle") /\ (Registered \/ store.key)
  /\ ~(keep /\ HasGrant /\ issued[store.grant].type = "app")
  /\ Hold(f, IF HasGrant THEN "revoke" ELSE IF keep THEN "drop" ELSE "forget",
          IF keep THEN store.app ELSE None, store.grant)
  /\ UNCHANGED <<store, issued, poll, inFlight, linearFaults, lost>>

\* The revoke is best-effort: the local credential goes either way.
Revoke(f) ==
  /\ FlowAt(f, "revoke")
  /\ RevokeToken(flow[f].got) \/ UNCHANGED issued
  /\ FlowTo(f, IF flow[f].app # None THEN "drop" ELSE "forget")
  /\ UNCHANGED <<store, poll, inFlight, linearFaults, lost>>

Forget(f) ==
  /\ \/ FlowAt(f, "drop") /\ ClearOAuthGrant
     \/ FlowAt(f, "forget") /\ ClearOAuthApp
  /\ FlowTo(f, "unkey")
  /\ UNCHANGED <<issued, poll, inFlight, linearFaults, lost>>

-----------------------------------------------------------------------------
(* Restarts and time.                                                      *)

\* The map of renewals in flight and the pending states go with the process.
LinearRestart ==
  /\ LinearFault
  /\ poll' = [p \in Polls |-> NoPolling]
  /\ inFlight' = None
  /\ flow' = [f \in Flow |-> NoFlow]
  /\ lost' = lost \cup {poll[p].grant : p \in {q \in Polls : poll[q].stage = "store"}}
  /\ UNCHANGED <<store, issued>>

\* A request takes minutes at most, a token lives for a day at least, and a
\* replay window is half an hour: neither ends under a poll in flight.  Only the
\* stored grant is ever asked for either.
Quiet == \A p \in Polls : poll[p].stage = "idle"

AccessTokenAges(t) ==
  /\ t = store.grant /\ ~issued[t].aged /\ Quiet
  /\ issued' = [issued EXCEPT ![t].aged = TRUE]
  /\ UNCHANGED <<store, poll, inFlight, flow, linearFaults, lost>>

ReplayLapses(t) ==
  /\ t = store.grant /\ issued[t].next # NoToken /\ ~issued[t].lapsed /\ Quiet
  /\ issued' = [issued EXCEPT ![t].lapsed = TRUE]
  /\ UNCHANGED <<store, poll, inFlight, flow, linearFaults, lost>>

PollingStep(p) ==
  \/ ReadCredential(p) \/ UseValid(p) \/ JoinRenewal(p) \/ LeadRenewal(p)
  \/ ReadApp(p) \/ CallLinear(p) \/ StoreRenewal(p)

KeyStep(f) == AskForKey(f) \/ StoreKey(f) \/ PutSecret(f) \/ DeleteSecret(f)

ConnectStep(f) ==
  \/ RegisterApp(f) \/ MintAppToken(f) \/ Callback(f) \/ ExchangeCode(f) \/ StoreConnection(f) \/ RetireKey(f)
  \/ FlowFails(f) \/ StartConsent(f)
  \/ \E a \in App : PutApp(f, a) \/ ConnectCommand(f, a) \/ ConnectRequest(f, a) \/ ConsentCommand(f, a)

\* The settings page and `ogun disconnect` remove a connection by the same function.
DisconnectStep(f) ==
  \/ \E keep \in BOOLEAN : BeginDisconnect(f, keep)
  \/ Revoke(f) \/ Forget(f)

LinearNext ==
  \/ \E p \in Polls : PollingStep(p) \/ CallFails(p) \/ StoreFails(p)
  \/ \E f \in Flow : KeyStep(f) \/ ConnectStep(f) \/ DisconnectStep(f)
  \/ LinearRestart
  \/ \E t \in 1 .. Len(issued) : AccessTokenAges(t) \/ ReplayLapses(t)

LinearSpec == LinearInit /\ [][LinearNext]_linearVars

\* Polls go on and a request ends; nobody has to connect anything.
LinearFairness == \A p \in Polls : WF_linearVars(PollingStep(p))

-----------------------------------------------------------------------------
(* Properties.                                                             *)

\* The consent grant in the store can be renewed as long as its application is
\* the registered one and nobody revoked it - unless an answer, a write or a
\* process was lost and the replay window ran out.  Two overlapping polls never
\* strand it (inFlight, the write before the use).
Strandable(t) == issued[t].revoked \/ (t \in lost /\ issued[t].lapsed)
StoredGrantRenews ==
  HasGrant /\ issued[store.grant].type = "code" /\ issued[store.grant].client = store.app
    => Honoured(store.grant, store.app) \/ Strandable(store.grant)

\* A renewal that failed is not the last: a connection nobody disturbs, whose
\* token ran out, is renewed in the end, whatever was lost on the way.
Renewable ==
  /\ HasGrant /\ issued[store.grant].client = store.app
  /\ issued[store.grant].type = "app" \/ Honoured(store.grant, store.app)
StaleGrantIsRenewed ==
  [](/\ Renewable /\ issued[store.grant].aged /\ CanIssue
     => <>(~HasGrant \/ ~issued[store.grant].aged \/ ~Renewable \/ ~CanIssue))

\* "Pointing the project at a different application makes the stored tokens dead
\* on arrival ... and keeping them would leave a connection that reports as
\* healthy and 401s on the next poll" (setOAuthApp): the grant in the store is
\* always the registered application's.  It fails: a flow stores what it was given
\* for an application that was replaced while it asked.
GrantBelongsToItsApp == HasGrant => issued[store.grant].client = store.app
=============================================================================
