--------------------------- MODULE ConnectionReader ---------------------------
(***************************************************************************)
(* The cached application credential of one running job: connectionReader  *)
(* on the runner, which primes it, refreshes it behind the requests that   *)
(* use it, and keeps the last good one when a lookup fails.                *)
(*                                                                         *)
(* The store is the file the control plane writes (LinearConnection); here *)
(* it moves between its shapes on its own.  Tokens are numbered as issued, *)
(* and 0 is no token.                                                      *)
(***************************************************************************)
EXTENDS Naturals

CONSTANT MaxIssued      \* how many tokens are ever issued
ASSUME ReaderAssumption == MaxIssued \in Nat \ {0}

VARIABLES
  secret,      \* what the store says: a token, or a state with none to inject
  lapsed,      \* every token up to this one has expired
  cached,      \* the credential in memory
  primed,      \* provision() has awaited the first read
  fresh,       \* the last read began less than CONNECTION_TTL_MS ago
  refreshing   \* a read is under way

readerVars == <<secret, lapsed, cached, primed, fresh, refreshing>>

States == {"granted", "absent", "key"}   \* every refusal but an expiry is one

ReaderTypeOK ==
  /\ secret \in [state: States, token: 0 .. MaxIssued]
  /\ lapsed \in 0 .. MaxIssued
  /\ cached \in 0 .. MaxIssued
  /\ primed \in BOOLEAN
  /\ fresh \in BOOLEAN
  /\ refreshing \in BOOLEAN

ReaderInit ==
  /\ secret \in [state: {"granted"}, token: {1}] \cup [state: {"absent"}, token: {0}]
  /\ lapsed = 0
  /\ cached = 0
  /\ primed = FALSE
  /\ fresh = TRUE
  /\ refreshing = TRUE

(* linearConnection: only a grant that has not expired can be injected. *)
Usable == secret.state = "granted" /\ secret.token > lapsed
Expired == secret.state = "granted" /\ secret.token <= lapsed

(* Mutant: a credential that was found once is never looked up again. *)
LookedOnce == IF cached # 0 THEN cached ELSE IF Usable THEN secret.token ELSE 0

(* What the cache holds after a lookup: the new credential, nothing when   *)
(* the one in the store has expired, else the last good one.               *)
Looked ==
  IF Usable THEN secret.token ELSE IF Expired THEN 0 ELSE cached

Refresh ==
  /\ refreshing
  /\ cached' = Looked
  /\ refreshing' = FALSE
  /\ primed' = TRUE
  /\ UNCHANGED <<secret, lapsed, fresh>>

(* The read throws: the first one ends provision(), a later one is         *)
(* swallowed and the next request past the TTL tries again.                *)
RefreshThrows ==
  /\ refreshing
  /\ primed
  /\ refreshing' = FALSE
  /\ UNCHANGED <<secret, lapsed, cached, primed, fresh>>

(* The gateway prepares a request: it uses what is cached, and starts a    *)
(* refresh behind it once the TTL has passed.                              *)
StartsRefresh == ~fresh /\ ~refreshing

UseCredential ==
  /\ primed
  /\ StartsRefresh
  /\ refreshing' = TRUE
  /\ fresh' = TRUE
  /\ UNCHANGED <<secret, lapsed, cached, primed>>

TimeToLive ==
  /\ fresh
  /\ primed
  /\ fresh' = FALSE
  /\ UNCHANGED <<secret, lapsed, cached, primed, refreshing>>

(* The control plane renews or connects; disconnects, puts a personal key  *)
(* in its place, or is between the write and the rename; a token expires.  *)
Issue ==
  /\ secret.token < MaxIssued
  /\ secret' = [state |-> "granted", token |-> secret.token + 1]
  /\ UNCHANGED <<lapsed, cached, primed, fresh, refreshing>>

Withdraw ==
  /\ \E s \in {"absent", "key"} : secret' = [secret EXCEPT !.state = s]
  /\ UNCHANGED <<lapsed, cached, primed, fresh, refreshing>>

Reappear ==
  /\ secret.state = "absent"
  /\ secret.token > 0
  /\ secret' = [secret EXCEPT !.state = "granted"]
  /\ UNCHANGED <<lapsed, cached, primed, fresh, refreshing>>

Lapse ==
  /\ lapsed < secret.token
  /\ lapsed' = lapsed + 1
  /\ UNCHANGED <<secret, cached, primed, fresh, refreshing>>

ReaderNext ==
  \/ Refresh \/ RefreshThrows \/ UseCredential \/ TimeToLive
  \/ Issue \/ Withdraw \/ Reappear \/ Lapse

(* A read ends, time passes, and the job keeps calling the application; a  *)
(* read does not throw for ever.                                           *)
ReaderFairness ==
  /\ SF_readerVars(Refresh)
  /\ WF_readerVars(UseCredential)
  /\ WF_readerVars(TimeToLive)

ReaderSpec == ReaderInit /\ [][ReaderNext]_readerVars /\ ReaderFairness

-----------------------------------------------------------------------------
(* A grant that stays in the store and does not expire is the one a job    *)
(* ends up using, whatever the store said before, however the renewals     *)
(* crossed the reads, and although some reads threw.  (connections.ts      *)
(* connectionReader: the renewal reaches a sandbox that is already up)     *)
RenewalReachesTheSandbox ==
  <>[](Usable) => <>[](Usable => cached = secret.token)

(* "a genuinely dead connection stops working as soon as the token it last *)
(* held goes stale" (connections.ts connectionReader).  It fails: a store  *)
(* with nothing in it leaves the last good credential in the cache.        *)
DeadConnectionStops ==
  []<>(cached = 0 \/ cached > lapsed)
=============================================================================
