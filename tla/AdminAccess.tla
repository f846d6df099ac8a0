------------------------------- MODULE AdminAccess -------------------------------
(***************************************************************************)
(* Sign-in of the back office (auth.service.ts, jwt.strategy.ts,           *)
(* sessions.service.ts) and the operations that end it (users.service.ts). *)
(* A handler reads, decides and then writes in one transaction; handlers   *)
(* of different browsers interleave between the read and the transaction.  *)
(* Of a user's roles only SUPERADMIN is kept; expiry of sessions is left   *)
(* out (it only ends access earlier).                                      *)
(***************************************************************************)
EXTENDS Naturals, Sequences, FiniteSets

CONSTANTS
  Users,
  Browsers,
  MaxSessions,   \* bound: Session rows
  MaxRefresh,    \* bound: RefreshToken rows
  MaxChanges,    \* bound: requests of the users controller
  Threshold      \* LOGIN_MAX_FAILED_ATTEMPTS

ASSUME AdmAssumption ==
  /\ Users # {} /\ MaxSessions \in Nat /\ MaxRefresh \in Nat
  /\ MaxChanges \in Nat /\ Threshold \in Nat \ {0}

VARIABLES
  user,          \* per user: status, authVersion, SUPERADMIN, failedLoginCount, locked
  sess,          \* Session rows: owner and whether revokedAt is set
  rtok,          \* RefreshToken rows: session, usedAt, revokedAt
  held,          \* per browser: the tokens and the profile it was given last
  req,           \* per browser: the request in flight with what it read
  changes,       \* requests of the users controller so far
  overlapped     \* history: two such requests decided on the same picture

admVars == <<user, sess, rtok, held, req, changes, overlapped>>

Nobody == [sess |-> 0, tok |-> 0, version |-> 0, super |-> FALSE]
NoReq == [pc |-> "idle", op |-> "none", who |-> "nobody", n |-> 0,
          version |-> 0, super |-> FALSE, ids |-> {}]
Free(b) == req[b].pc = "idle"
Grantable(i) == ~rtok[i].used /\ ~rtok[i].revoked
ActiveSuperadmins == {u \in Users : user[u].status = "ACTIVE" /\ user[u].super}

\* jwt.strategy.ts: the session is live, the user active, the version the current one.
validate(b) ==
  /\ held[b].sess # 0
  /\ ~sess[held[b].sess].revoked
  /\ LET u == user[sess[held[b].sess].owner]
     IN u.status = "ACTIVE" /\ u.version = held[b].version
Actor(b) == sess[held[b].sess].owner

AdmInit ==
  /\ \E s \in SUBSET Users :
       /\ s # {}
       /\ user = [u \in Users |-> [status |-> "ACTIVE", version |-> 1, super |-> u \in s,
                                   fails |-> 0, locked |-> FALSE]]
  /\ sess = <<>> /\ rtok = <<>>
  /\ held = [b \in Browsers |-> Nobody]
  /\ req = [b \in Browsers |-> NoReq]
  /\ changes = 0
  /\ overlapped = FALSE

\* login() up to its transaction: the user row is read before the password is verified.
login(b, u) ==
  /\ Free(b) /\ held[b] = Nobody
  /\ Len(sess) < MaxSessions /\ Len(rtok) < MaxRefresh
  /\ \/ \* the password is wrong
        req' = [req EXCEPT ![b] = [NoReq EXCEPT !.pc = "failure", !.who = u, !.n = user[u].fails]]
     \/ /\ user[u].status = "ACTIVE" /\ ~user[u].locked
        /\ req' = [req EXCEPT ![b] = [NoReq EXCEPT !.pc = "open", !.who = u,
                                        !.version = user[u].version, !.super = user[u].super]]
  /\ UNCHANGED <<user, sess, rtok, held, changes, overlapped>>

\* The threshold is compared with the count read, the increment applied to the row.
registerFailure(b) ==
  LET u == req[b].who
      lock == req[b].n + 1 >= Threshold
  IN /\ req[b].pc = "failure"
     /\ user' = [user EXCEPT ![u].fails = IF lock THEN 0 ELSE @ + 1, ![u].locked = @ \/ lock]
     /\ req' = [req EXCEPT ![b] = NoReq]
     /\ UNCHANGED <<sess, rtok, held, changes, overlapped>>

\* The transaction of login() and the access token, signed with the version read.
createSession(b) ==
  LET u == req[b].who
  IN /\ req[b].pc = "open"
     /\ Len(sess) < MaxSessions /\ Len(rtok) < MaxRefresh
     /\ user' = [user EXCEPT ![u].fails = 0, ![u].locked = FALSE]
     /\ sess' = Append(sess, [owner |-> u, revoked |-> FALSE])
     /\ rtok' = Append(rtok, [session |-> Len(sess) + 1, used |-> FALSE, revoked |-> FALSE])
     /\ held' = [held EXCEPT ![b] = [sess |-> Len(sess) + 1, tok |-> Len(rtok) + 1,
                                     version |-> req[b].version, super |-> req[b].super]]
     /\ req' = [req EXCEPT ![b] = NoReq]
     /\ UNCHANGED <<changes, overlapped>>

\* refresh(): the token with its session and user; a used one revokes, a dead one is refused.
refresh(b) ==
  LET i == held[b].tok
      s == sess[rtok[i].session]
      u == user[s.owner]
  IN /\ Free(b) /\ i # 0
     /\ req' = [req EXCEPT ![b] = [NoReq EXCEPT !.n = i, !.who = s.owner, !.version = u.version,
          !.super = u.super,
          !.pc = IF rtok[i].used THEN "reuse"
                 ELSE IF rtok[i].revoked \/ s.revoked \/ u.status # "ACTIVE" THEN "refused"
                 ELSE "claim"]]
     /\ UNCHANGED <<user, sess, rtok, held, changes, overlapped>>

\* Mutant: only the session row is revoked.
RevokeSessionRows(ids) ==
  /\ sess' = [s \in DOMAIN sess |-> [sess[s] EXCEPT !.revoked = @ \/ s \in ids]]
  /\ UNCHANGED rtok

\* Sessions and their tokens, in one transaction: every way a session ends.
Revoke(ids) ==
  /\ sess' = [s \in DOMAIN sess |-> [sess[s] EXCEPT !.revoked = @ \/ s \in ids]]
  /\ rtok' = [i \in DOMAIN rtok |-> [rtok[i] EXCEPT !.revoked = @ \/ rtok[i].session \in ids]]
SessionsOf(u) == {s \in DOMAIN sess : sess[s].owner = u /\ ~sess[s].revoked}

\* Mutant: usedAt is never written.
rotateKeepingParent(b) ==
  LET i == req[b].n
  IN /\ req[b].pc = "claim"
     /\ Grantable(i)
     /\ Len(rtok) < MaxRefresh
     /\ rtok' = Append(rtok, [session |-> rtok[i].session, used |-> FALSE, revoked |-> FALSE])
     /\ req' = [req EXCEPT ![b] = NoReq]
     /\ UNCHANGED <<user, sess, held, changes, overlapped>>

\* The claim: updateMany() where usedAt and revokedAt are null, and the replacement.  A claim
\* that finds nothing counts as reuse.
rotate(b) ==
  LET i == req[b].n
  IN /\ req[b].pc = "claim"
     /\ \/ /\ Grantable(i)
           /\ Len(rtok) < MaxRefresh
           /\ rtok' = Append([rtok EXCEPT ![i].used = TRUE],
                             [session |-> rtok[i].session, used |-> FALSE, revoked |-> FALSE])
           /\ held' = [held EXCEPT ![b] = [sess |-> rtok[i].session, tok |-> Len(rtok) + 1,
                                           version |-> req[b].version, super |-> req[b].super]]
           /\ req' = [req EXCEPT ![b] = NoReq]
        \/ /\ ~Grantable(i)
           /\ req' = [req EXCEPT ![b].pc = "reuse"]
           /\ UNCHANGED <<rtok, held>>
     /\ UNCHANGED <<user, sess, changes, overlapped>>

revokeForReuse(b) ==
  /\ req[b].pc = "reuse"
  /\ Revoke({rtok[req[b].n].session})
  /\ req' = [req EXCEPT ![b].pc = "refused"]
  /\ UNCHANGED <<user, held, changes, overlapped>>

\* AUTH_REFRESH_INVALID reaches the page: it forgets its tokens.
refused(b) ==
  /\ req[b].pc = "refused"
  /\ held' = [held EXCEPT ![b] = Nobody]
  /\ req' = [req EXCEPT ![b] = NoReq]
  /\ UNCHANGED <<user, sess, rtok, changes, overlapped>>

\* The same refresh token in a second place: a restored browser profile, a page that lost
\* the answer with the rotated cookie.
openTab(b, c) ==
  /\ Free(c) /\ held[b] # Nobody /\ held[c] = Nobody
  /\ held' = [held EXCEPT ![c] = held[b]]
  /\ UNCHANGED <<user, sess, rtok, req, changes, overlapped>>

\* logout() and revokeOwn() of one session by its owner.
logout(b, s) ==
  /\ Free(b) /\ validate(b)
  /\ s \in DOMAIN sess /\ sess[s].owner = Actor(b)
  /\ Revoke({s})
  /\ held' = [held EXCEPT ![b] = IF s = @.sess THEN Nobody ELSE @]
  /\ UNCHANGED <<user, req, changes, overlapped>>

\* revokeOthers() and revokeUserSessions() read the ids before their transaction.
revokeOthers(b) ==
  /\ Free(b) /\ validate(b)
  /\ req' = [req EXCEPT ![b] = [NoReq EXCEPT !.pc = "ids",
                                  !.ids = SessionsOf(Actor(b)) \ {held[b].sess}]]
  /\ UNCHANGED <<user, sess, rtok, held, changes, overlapped>>

revokeUserSessions(b, u) ==
  /\ Free(b) /\ validate(b) /\ user[Actor(b)].super
  /\ changes < MaxChanges
  /\ changes' = changes + 1
  /\ req' = [req EXCEPT ![b] = [NoReq EXCEPT !.pc = "ids", !.ids = SessionsOf(u)]]
  /\ UNCHANGED <<user, sess, rtok, held, overlapped>>

revokeIds(b) ==
  /\ req[b].pc = "ids"
  /\ Revoke(req[b].ids)
  /\ req' = [req EXCEPT ![b] = NoReq]
  /\ UNCHANGED <<user, held, changes, overlapped>>

\* The count of other active SUPERADMINs, asked only when this user loses the role or access.
LastSuperadmin(u) == user[u].super /\ ActiveSuperadmins \ {u} = {}

\* disableUser() up to its transaction: not oneself, not the last active SUPERADMIN.
disableUser(b, u) ==
  /\ Free(b) /\ validate(b) /\ user[Actor(b)].super
  /\ changes < MaxChanges
  /\ u # Actor(b)
  /\ ~LastSuperadmin(u)
  /\ changes' = changes + 1
  /\ req' = [req EXCEPT ![b] = [NoReq EXCEPT !.pc = "change", !.op = "disable", !.who = u]]
  /\ UNCHANGED <<user, sess, rtok, held, overlapped>>

\* replaceUserRoles() up to its transaction.
replaceUserRoles(b, u, super) ==
  /\ Free(b) /\ validate(b) /\ user[Actor(b)].super
  /\ changes < MaxChanges
  /\ ~super => ~(user[u].super /\ u = Actor(b)) /\ ~LastSuperadmin(u)
  /\ changes' = changes + 1
  /\ req' = [req EXCEPT ![b] = [NoReq EXCEPT !.pc = "change", !.who = u,
                                  !.op = IF super THEN "grant" ELSE "withdraw"]]
  /\ UNCHANGED <<user, sess, rtok, held, overlapped>>

\* Their transactions: the row and its version, then every live session of the user.
changeUser(b) ==
  LET u == req[b].who
  IN /\ req[b].pc = "change"
     /\ user' = [user EXCEPT ![u].super = (req[b].op = "grant") \/ (req[b].op = "disable" /\ @),
                             ![u].status = IF req[b].op = "disable" THEN "DISABLED" ELSE @,
                             ![u].version = @ + 1]
     /\ Revoke(SessionsOf(u))
     /\ overlapped' = (overlapped \/ \E c \in Browsers \ {b} : req[c].pc = "change")
     /\ req' = [req EXCEPT ![b] = NoReq]
     /\ UNCHANGED <<held, changes>>

\* activateUser(): status, counters and version; an active user is left alone.
activateUser(b, u) ==
  /\ Free(b) /\ validate(b) /\ user[Actor(b)].super
  /\ changes < MaxChanges
  /\ user[u].status = "DISABLED"
  /\ changes' = changes + 1
  /\ user' = [user EXCEPT ![u].status = "ACTIVE", ![u].version = @ + 1,
                          ![u].fails = 0, ![u].locked = FALSE]
  /\ UNCHANGED <<sess, rtok, held, req, overlapped>>

LockEnds(u) ==
  /\ user[u].locked
  /\ user' = [user EXCEPT ![u].locked = FALSE]
  /\ UNCHANGED <<sess, rtok, held, req, changes, overlapped>>

AdmNext ==
  \/ \E b \in Browsers :
       \/ \E u \in Users : \/ login(b, u) \/ revokeUserSessions(b, u) \/ disableUser(b, u)
                           \/ activateUser(b, u)
                           \/ \E super \in BOOLEAN : replaceUserRoles(b, u, super)
       \/ registerFailure(b) \/ createSession(b) \/ refresh(b) \/ rotate(b) \/ revokeForReuse(b)
       \/ refused(b) \/ revokeOthers(b) \/ revokeIds(b) \/ changeUser(b)
       \/ \E s \in DOMAIN sess : logout(b, s)
       \/ \E c \in Browsers : openTab(b, c)
  \/ \E u \in Users : LockEnds(u)

AdmSpec == AdmInit /\ [][AdmNext]_admVars

--------------------------------------------------------------------------------
\* Types of the rows, the browsers and the requests.
AdmTypeOK ==
  /\ user \in [Users -> [status : {"ACTIVE", "DISABLED"}, version : 1..MaxChanges + 1,
                         super : BOOLEAN, fails : 0..Threshold + Cardinality(Browsers),
                         locked : BOOLEAN]]
  /\ sess \in Seq([owner : Users, revoked : BOOLEAN])
  /\ rtok \in Seq([session : 1..MaxSessions, used : BOOLEAN, revoked : BOOLEAN])
  /\ held \in [Browsers -> [sess : 0..Len(sess), tok : 0..Len(rtok), version : 0..MaxChanges + 1,
                            super : BOOLEAN]]
  /\ \A b \in Browsers : req[b].who \in Users \cup {"nobody"} /\ req[b].ids \subseteq DOMAIN sess

\* A session that was ended, by its owner, by an administrator or by a replayed token, has no
\* refresh token left that could be exchanged, whatever refreshes were under way.
EndedSessionIsDead ==
  \A i \in DOMAIN rtok : sess[rtok[i].session].revoked => ~Grantable(i)

\* Refreshes from several tabs leave each session one exchangeable refresh token at most.
OneGrantPerSession ==
  \A i, j \in DOMAIN rtok :
    Grantable(i) /\ Grantable(j) /\ rtok[i].session = rtok[j].session => i = j

\* A page whose access token is accepted shows the SUPERADMIN role its user really has now,
\* also when the roles changed while the sign-in or the refresh was under way.
ProfileIsCurrent ==
  \A b \in Browsers : validate(b) => held[b].super = user[Actor(b)].super

\* Administrators who do not act at the same time always leave an active SUPERADMIN.
SuperadminRemains == overlapped \/ ActiveSuperadmins # {}
==================================================================================
