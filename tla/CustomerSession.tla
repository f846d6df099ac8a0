----------------------------- MODULE CustomerSession -----------------------------
(***************************************************************************)
(* A signed-in customer's session: refreshCustomerSession() and            *)
(* revokeCustomerSessionByToken() of otp.service.ts, and the tabs of one   *)
(* browser (customerApi.js), which share the refresh cookie and            *)
(* localStorage but each run their own single-flight refresh.  A request   *)
(* carries the cookie of the moment it leaves; an answer may be lost.      *)
(***************************************************************************)
EXTENDS Naturals, Sequences, FiniteSets

CONSTANTS
  Pages,          \* pages (tabs) of one browser
  MaxTokens,     \* bound: refresh tokens of the session
  MaxLost,       \* bound: answers lost on the way back
  SlowNetwork    \* TRUE: an exchange may outlast the 15 s grace period

ASSUME SessAssumption ==
  MaxTokens \in Nat \ {0} /\ MaxLost \in Nat /\ SlowNetwork \in BOOLEAN

VARIABLES
  tokens,        \* CustomerRefreshToken rows in order of rotation
  revoked,       \* revokedReason of the CustomerSession row
  cookie,        \* the token in the browser's cookie, 0 when there is none
  stored,        \* localStorage holds customerSession
  call,          \* per tab: the refresh or logout in flight
  lost           \* answers lost so far

sessVars == <<tokens, revoked, cookie, stored, call, lost>>

NoCall == [pc |-> "idle", token |-> 0]
Fresh == [used |-> "no", revoked |-> FALSE]
Usable(tk) == tk.used = "no" /\ ~tk.revoked
InFlight(i) == \E t \in Pages : call[t].pc # "idle" /\ call[t].token = i

SessInit ==
  /\ tokens = <<Fresh>>
  /\ revoked = "none"
  /\ cookie = 1
  /\ stored = TRUE
  /\ call = [t \in Pages |-> NoCall]
  /\ lost = 0

\* A request was refused (401) or the tab became visible: doCustomerRefresh().
doCustomerRefresh(t) ==
  /\ stored
  /\ call[t].pc = "idle"
  /\ call' = [call EXCEPT ![t] = [pc |-> IF cookie = 0 THEN "invalid" ELSE "sent", token |-> cookie]]
  /\ UNCHANGED <<tokens, revoked, cookie, stored, lost>>

\* findUnique() of the token with its session and the refusals that follow from it.
readToken(t) ==
  LET tk == tokens[call[t].token]
  IN /\ call[t].pc = "sent"
     /\ call' = [call EXCEPT ![t].pc =
          CASE tk.used = "fresh" -> "invalid"
            [] tk.used = "old" -> "reuse"
            [] tk.used = "no" /\ (tk.revoked \/ revoked # "none") -> "invalid"
            [] OTHER -> "claim"]
     /\ UNCHANGED <<tokens, revoked, cookie, stored, lost>>

\* An old used token: the session row is revoked, then its tokens, in two statements.
revokeSessionForReuse(t) ==
  /\ call[t].pc = "reuse"
  /\ revoked' = "REFRESH_TOKEN_REUSE"
  /\ call' = [call EXCEPT ![t].pc = "revoke"]
  /\ UNCHANGED <<tokens, cookie, stored, lost>>

revokeTokens(t) ==
  /\ call[t].pc = "revoke"
  /\ tokens' = [i \in DOMAIN tokens |-> [tokens[i] EXCEPT !.revoked = TRUE]]
  /\ call' = [call EXCEPT ![t].pc = "invalid"]
  /\ UNCHANGED <<revoked, cookie, stored, lost>>

\* The transaction: updateMany() where usedAt and revokedAt are null, then the replacement.
\* The session row is not read again.
claimToken(t) ==
  /\ call[t].pc = "claim"
  /\ \/ /\ Usable(tokens[call[t].token])
        /\ Len(tokens) < MaxTokens
        /\ tokens' = Append([tokens EXCEPT ![call[t].token].used = "fresh"], Fresh)
        /\ call' = [call EXCEPT ![t] = [pc |-> "rotated", token |-> Len(tokens) + 1]]
     \/ /\ ~Usable(tokens[call[t].token])
        /\ call' = [call EXCEPT ![t].pc = "invalid"]
        /\ UNCHANGED tokens
  /\ UNCHANGED <<revoked, cookie, stored, lost>>

\* The answer carries the rotated cookie.
applyRotation(t) ==
  /\ call[t].pc = "rotated"
  /\ cookie' = call[t].token
  /\ stored' = TRUE
  /\ call' = [call EXCEPT ![t] = NoCall]
  /\ UNCHANGED <<tokens, revoked, lost>>

\* Mutant: the tab that is refused keeps what localStorage says.
keepCustomerSession(t) ==
  /\ call[t].pc = "invalid"
  /\ call' = [call EXCEPT ![t] = NoCall]
  /\ UNCHANGED <<tokens, revoked, cookie, stored, lost>>

\* AUTH_REFRESH_INVALID: shouldClearCustomerSession() holds, the tab goes to the login page.
clearCustomerSession(t) ==
  /\ call[t].pc = "invalid"
  /\ stored' = FALSE
  /\ call' = [call EXCEPT ![t] = NoCall]
  /\ UNCHANGED <<tokens, revoked, cookie, lost>>

\* A network error or the 15 s client timeout: the tab keeps what it has.
loseAnswer(t) ==
  /\ call[t].pc \in {"rotated", "invalid"}
  /\ lost < MaxLost
  /\ lost' = lost + 1
  /\ call' = [call EXCEPT ![t] = NoCall]
  /\ UNCHANGED <<tokens, revoked, cookie, stored>>

\* logout of the controller: the session of the cookie's token is revoked, its tokens are not.
revokeCustomerSessionByToken(t) ==
  /\ stored /\ cookie # 0
  /\ call[t].pc = "idle"
  /\ revoked' = "LOGOUT"
  /\ call' = [call EXCEPT ![t] = [pc |-> "loggedOut", token |-> cookie]]
  /\ UNCHANGED <<tokens, cookie, stored, lost>>

\* The answer clears the cookie; doCustomerLogout() clears the tab whatever the answer.
doCustomerLogout(t) ==
  /\ call[t].pc = "loggedOut"
  /\ cookie' = 0
  /\ stored' = FALSE
  /\ call' = [call EXCEPT ![t] = NoCall]
  /\ UNCHANGED <<tokens, revoked, lost>>

\* Fifteen seconds pass since a token was used.
GraceEnds(i) ==
  /\ tokens[i].used = "fresh"
  /\ SlowNetwork \/ \A t \in Pages : call[t].pc = "idle"
  /\ tokens' = [tokens EXCEPT ![i].used = "old"]
  /\ UNCHANGED <<revoked, cookie, stored, call, lost>>

SessServer(t) ==
  \/ readToken(t) \/ revokeSessionForReuse(t) \/ revokeTokens(t) \/ claimToken(t)
SessBrowser(t) == applyRotation(t) \/ clearCustomerSession(t) \/ doCustomerLogout(t)

SessNext ==
  \/ \E t \in Pages : \/ doCustomerRefresh(t) \/ SessServer(t) \/ SessBrowser(t)
                     \/ loseAnswer(t) \/ revokeCustomerSessionByToken(t)
  \/ \E i \in DOMAIN tokens : GraceEnds(i)

\* The server answers what reaches it, the browser applies what it gets, and an open tab
\* keeps asking: its pollers and visibility handler meet a 401 once the session is gone.
SessFairness ==
  \A t \in Pages : /\ WF_sessVars(SessServer(t)) /\ WF_sessVars(SessBrowser(t))
                  /\ WF_sessVars(doCustomerRefresh(t))

SessSpec == SessInit /\ [][SessNext]_sessVars /\ SessFairness

--------------------------------------------------------------------------------
\* Types of the rows, the browser and the calls.
SessTypeOK ==
  /\ tokens \in Seq([used : {"no", "fresh", "old"}, revoked : BOOLEAN])
  /\ Len(tokens) \in 1..MaxTokens
  /\ revoked \in {"none", "LOGOUT", "REFRESH_TOKEN_REUSE"}
  /\ cookie \in 0..Len(tokens)
  /\ stored \in BOOLEAN
  /\ call \in [Pages -> [pc : {"idle", "sent", "reuse", "revoke", "claim", "rotated", "invalid",
                              "loggedOut"}, token : 0..MaxTokens]]
  /\ lost \in 0..MaxLost

\* However many tabs refresh at once, one rotation wins: a session never has two refresh
\* tokens that could both be exchanged.
OneUsableToken ==
  \A i, j \in DOMAIN tokens : Usable(tokens[i]) /\ Usable(tokens[j]) => i = j

\* Pages racing each other are never taken for a replay: as long as no answer was lost and an
\* exchange takes less than the grace period, the session is not revoked for token reuse.
TabRaceIsNoReuse ==
  revoked = "REFRESH_TOKEN_REUSE" => lost > 0 \/ SlowNetwork

\* A revoked session ends in every tab, also when a rotation was under way at the logout and
\* its answer brings a fresh cookie afterwards.
RevokedEndsEverywhere == revoked # "none" ~> ~stored
==================================================================================
