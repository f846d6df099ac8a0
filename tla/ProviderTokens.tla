---------------------------- MODULE ProviderTokens ----------------------------
(***************************************************************************)
(* The account aggregator's tokens (unaport-token.service.ts): one cache   *)
(* per process, shared by every request that calls the aggregator.  A      *)
(* caller runs without interruption up to its await, so looking at the     *)
(* cache and joining or starting the shared promise is one step.           *)
(***************************************************************************)
EXTENDS Naturals, FiniteSets

CONSTANTS
  Callers,         \* requests that need a token
  MaxAuthFailures  \* bound: refused or failed calls of the login service

ASSUME TokenAssumption == MaxAuthFailures \in Nat

VARIABLES
  cachedTokens,    \* "none", "valid", "stale" (only the refresh token is) or "expired"
  authCalls,       \* calls under way at the login service: <<caller that made it, kind>>
  promise,         \* the caller whose promise is tokenRefreshPromise, or none
  tokenCaller,     \* per caller: idle, the promise it awaits, or its answer
  authFailures

tokenVars == <<cachedTokens, authCalls, promise, tokenCaller, authFailures>>

TokenInit ==
  /\ cachedTokens = "none" /\ authCalls = {} /\ promise = {} /\ authFailures = 0
  /\ tokenCaller = [c \in Callers |-> [pc |-> "idle", on |-> {}]]

\* A valid cached token, the promise of another caller, or a promise of its own.
getValidTokens(c) ==
  /\ tokenCaller[c].pc = "idle"
  /\ CASE cachedTokens = "valid" ->
            /\ tokenCaller' = [tokenCaller EXCEPT ![c].pc = "token"]
            /\ UNCHANGED <<promise, authCalls>>
       [] cachedTokens # "valid" /\ promise # {} ->
            /\ tokenCaller' = [tokenCaller EXCEPT ![c] = [pc |-> "await", on |-> promise]]
            /\ UNCHANGED <<promise, authCalls>>
       [] OTHER ->
            /\ promise' = {c}
            /\ authCalls' = authCalls \cup {<<c, IF cachedTokens = "stale" THEN "refresh" ELSE "providerLogin">>}
            /\ tokenCaller' = [tokenCaller EXCEPT ![c] = [pc |-> "await", on |-> {c}]]
  /\ UNCHANGED <<cachedTokens, authFailures>>

\* Everyone on the promise of c gets its outcome; finally{} takes the promise away.
settle(c, outcome) ==
  /\ tokenCaller' = [d \in Callers |-> IF tokenCaller[d].on = {c} THEN [pc |-> outcome, on |-> {}] ELSE tokenCaller[d]]
  /\ promise' = {}

\* Refreshed, or refused: then the same promise goes on with a login.
refreshToken(c) ==
  /\ <<c, "refresh">> \in authCalls
  /\ \/ /\ authCalls' = authCalls \ {<<c, "refresh">>}
        /\ cachedTokens' = "valid"
        /\ settle(c, "token")
        /\ UNCHANGED authFailures
     \/ /\ authFailures < MaxAuthFailures
        /\ authFailures' = authFailures + 1
        /\ authCalls' = (authCalls \ {<<c, "refresh">>}) \cup {<<c, "providerLogin">>}
        /\ UNCHANGED <<cachedTokens, promise, tokenCaller>>

\* Mutant: a failed login leaves its promise in place.
loginKeepingPromise(c) ==
  /\ <<c, "providerLogin">> \in authCalls
  /\ authCalls' = authCalls \ {<<c, "providerLogin">>}
  /\ authFailures < MaxAuthFailures
  /\ authFailures' = authFailures + 1
  /\ tokenCaller' = [d \in Callers |-> IF tokenCaller[d].on = {c} THEN [pc |-> "error", on |-> {}] ELSE tokenCaller[d]]
  /\ UNCHANGED <<cachedTokens, promise>>

providerLogin(c) ==
  /\ <<c, "providerLogin">> \in authCalls
  /\ authCalls' = authCalls \ {<<c, "providerLogin">>}
  /\ \/ /\ cachedTokens' = "valid"
        /\ settle(c, "token")
        /\ UNCHANGED authFailures
     \/ /\ authFailures < MaxAuthFailures
        /\ authFailures' = authFailures + 1
        /\ settle(c, "error")
        /\ UNCHANGED cachedTokens

\* updateTokenCache() sets two ends of life; the access token's comes first.
ageTokens ==
  /\ cachedTokens \in {"valid", "stale"}
  /\ cachedTokens' = IF cachedTokens = "valid" THEN "stale" ELSE "expired"
  /\ UNCHANGED <<authCalls, promise, tokenCaller, authFailures>>

\* The request is over; the next one starts.
finishTokenCaller(c) ==
  /\ tokenCaller[c].pc \in {"token", "error"}
  /\ tokenCaller' = [tokenCaller EXCEPT ![c].pc = "idle"]
  /\ UNCHANGED <<cachedTokens, authCalls, promise, authFailures>>

TokenNext ==
  \/ \E c \in Callers : getValidTokens(c) \/ refreshToken(c) \/ providerLogin(c) \/ finishTokenCaller(c)
  \/ ageTokens

\* A call of the login service is answered or times out.
TokenFairness == \A c \in Callers : WF_tokenVars(refreshToken(c) \/ providerLogin(c))

TokenSpec == TokenInit /\ [][TokenNext]_tokenVars /\ TokenFairness

\* The comment on getValidTokens(): concurrent callers await the same promise, so the login
\* service never sees two calls of this process at once.
SingleLogin == Cardinality(authCalls) <= 1

\* A caller that joined a promise gets its outcome, whatever happens to the refresh.
CallerAnswered == \A c \in Callers : (tokenCaller[c].pc = "await") ~> (tokenCaller[c].pc # "await")
================================================================================
