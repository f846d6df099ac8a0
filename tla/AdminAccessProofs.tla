-------------------------- MODULE AdminAccessProofs --------------------------
(***************************************************************************)
(* The back office's sessions, for any users, browsers, bounds and lock-   *)
(* out threshold: an ended session has no exchangeable token, a session    *)
(* has one at most, an accepted access token carries the current role, and *)
(* changes of users that do not overlap leave an active SUPERADMIN.        *)
(*                                                                         *)
(* The first two are inductive once rows and pages are well formed: tokens *)
(* point to sessions that exist, requests to tokens that exist.  The third *)
(* needs what pages and requests carry across a gap: a reading of a user   *)
(* whose version is not newer than the row's, and equal only if the role   *)
(* is.  The fourth needs what a guard that was asked earlier still means   *)
(* when its transaction runs.                                              *)
(***************************************************************************)
EXTENDS AdminAccess, SequenceTheorems, TLAPS

UserRows == [status : {"ACTIVE", "DISABLED"}, version : Nat, super : BOOLEAN,
             fails : Nat, locked : BOOLEAN]
SessionRows == [owner : Users, revoked : BOOLEAN]
TokenRows == [session : Nat, used : BOOLEAN, revoked : BOOLEAN]
Credentials == [sess : Nat, tok : Nat, version : Nat, super : BOOLEAN]
Requests ==
  [pc : {"idle", "failure", "open", "reuse", "refused", "claim", "ids", "change"},
   op : {"none", "disable", "grant", "withdraw"}, who : Users \cup {"nobody"}, n : Nat,
   version : Nat, super : BOOLEAN, ids : SUBSET Nat]

RowsOK ==
  /\ user \in [Users -> UserRows]
  /\ sess \in Seq(SessionRows)
  /\ rtok \in Seq(TokenRows)
  /\ \A i \in 1..Len(rtok) : rtok[i].session \in 1..Len(sess)

PageOK(b) ==
  /\ held[b].sess \in 0..Len(sess) /\ held[b].tok \in 0..Len(rtok)
  /\ req[b].pc \in {"claim", "reuse"} => req[b].n \in 1..Len(rtok)
  /\ req[b].pc \in {"failure", "open", "change"} => req[b].who \in Users

PagesOK ==
  /\ held \in [Browsers -> Credentials] /\ req \in [Browsers -> Requests]
  /\ \A b \in Browsers : PageOK(b)
  /\ changes \in Nat /\ overlapped \in BOOLEAN

Inv == RowsOK /\ PagesOK /\ EndedSessionIsDead /\ OneGrantPerSession

\* A version and a role read earlier: still the user's, or an older version.
Dated(v, super, u) ==
  v <= user[u].version /\ (v = user[u].version => (super <=> user[u].super))

ProfilesDated ==
  /\ \A b \in Browsers :
       held[b].sess # 0 => Dated(held[b].version, held[b].super, sess[held[b].sess].owner)
  /\ \A b \in Browsers :
       req[b].pc \in {"open", "claim"} => Dated(req[b].version, req[b].super, req[b].who)
  /\ \A b \in Browsers :
       req[b].pc = "claim" => req[b].who = sess[rtok[req[b].n].session].owner

SomebodyStays ==
  ~overlapped =>
    /\ ActiveSuperadmins # {}
    /\ \A b \in Browsers : req[b].pc = "change" /\ req[b].op # "grant" => ~LastSuperadmin(req[b].who)

\* Revoking keeps every row in its place and its session; what it touches is revoked.
LEMMA RevokeRows ==
  ASSUME RowsOK, NEW ids, Revoke(ids)
  PROVE  /\ sess' \in Seq(SessionRows) /\ Len(sess') = Len(sess)
         /\ rtok' \in Seq(TokenRows) /\ Len(rtok') = Len(rtok)
         /\ \A s \in 1..Len(sess) : /\ sess'[s].owner = sess[s].owner
                                    /\ sess'[s].revoked <=> (sess[s].revoked \/ s \in ids)
         /\ \A i \in 1..Len(rtok) :
              /\ rtok'[i].session = rtok[i].session /\ (rtok'[i].used <=> rtok[i].used)
              /\ rtok'[i].revoked <=> (rtok[i].revoked \/ rtok[i].session \in ids)
<1>1. /\ DOMAIN sess = 1..Len(sess) /\ Len(sess) \in Nat /\ \A s \in 1..Len(sess) : sess[s] \in SessionRows
      /\ DOMAIN rtok = 1..Len(rtok) /\ Len(rtok) \in Nat /\ \A i \in 1..Len(rtok) : rtok[i] \in TokenRows
  BY LenProperties, ElementOfSeq DEF RowsOK
<1>2. /\ sess' = [s \in 1..Len(sess) |-> [sess[s] EXCEPT !.revoked = @ \/ s \in ids]]
      /\ rtok' = [i \in 1..Len(rtok) |-> [rtok[i] EXCEPT !.revoked = @ \/ rtok[i].session \in ids]]
  BY <1>1 DEF Revoke
<1>3. sess' \in [1..Len(sess) -> SessionRows] /\ rtok' \in [1..Len(rtok) -> TokenRows]
  BY <1>1, <1>2 DEF SessionRows, TokenRows
<1>4. sess' \in Seq(SessionRows) /\ Len(sess') = Len(sess) /\ rtok' \in Seq(TokenRows) /\ Len(rtok') = Len(rtok)
  BY <1>1, <1>3
<1>5. QED
  BY <1>1, <1>2, <1>4 DEF SessionRows, TokenRows

\* Ending sessions together with their tokens keeps what is said of the rows.
LEMMA RevokeInv ==
  ASSUME RowsOK, EndedSessionIsDead, OneGrantPerSession, NEW ids, Revoke(ids), user' \in [Users -> UserRows]
  PROVE  RowsOK' /\ EndedSessionIsDead' /\ OneGrantPerSession'
<1>1. DOMAIN rtok = 1..Len(rtok) /\ DOMAIN rtok' = 1..Len(rtok)
  BY RevokeRows, LenProperties DEF RowsOK
<1>0. \A i \in 1..Len(rtok) : rtok[i] \in TokenRows
  BY ElementOfSeq DEF RowsOK
<1>2. RowsOK'
  BY RevokeRows DEF RowsOK
<1>3. EndedSessionIsDead'
  BY <1>1, <1>0, RevokeRows DEF RowsOK, EndedSessionIsDead, Grantable, TokenRows
<1>4. OneGrantPerSession'
  BY <1>1, <1>0, RevokeRows DEF OneGrantPerSession, Grantable, TokenRows
<1>5. QED
  BY <1>2, <1>3, <1>4

\* Sequences of rows as functions, the form in which the provers can use them.
LEMMA Rows ==
  ASSUME RowsOK
  PROVE  /\ Len(sess) \in Nat /\ DOMAIN sess = 1..Len(sess)
         /\ Len(rtok) \in Nat /\ DOMAIN rtok = 1..Len(rtok)
         /\ \A s \in 1..Len(sess) : sess[s] \in SessionRows
         /\ \A i \in 1..Len(rtok) : rtok[i] \in TokenRows
  BY LenProperties, ElementOfSeq DEF RowsOK

\* A sign-in opens a session of its own with its first token.
LEMMA CreateSessionRows ==
  ASSUME Inv, NEW b \in Browsers, createSession(b)
  PROVE  RowsOK' /\ EndedSessionIsDead' /\ OneGrantPerSession'
<1> DEFINE u == req[b].who
           s == [owner |-> u, revoked |-> FALSE]
           t == [session |-> Len(sess) + 1, used |-> FALSE, revoked |-> FALSE]
<1>1. /\ u \in Users /\ sess' = Append(sess, s) /\ rtok' = Append(rtok, t)
      /\ user' = [user EXCEPT ![u].fails = 0, ![u].locked = FALSE]
  BY DEF createSession, Inv, PagesOK, PageOK
<1>2. /\ Len(sess) \in Nat /\ sess \in Seq(SessionRows) /\ s \in SessionRows
      /\ Len(rtok) \in Nat /\ rtok \in Seq(TokenRows) /\ t \in TokenRows
  BY <1>1, Rows DEF Inv, RowsOK, SessionRows, TokenRows
<1>3. /\ sess' \in Seq(SessionRows) /\ Len(sess') = Len(sess) + 1 /\ sess'[Len(sess) + 1] = s
      /\ \A k \in 1..Len(sess) : sess'[k] = sess[k]
  BY <1>1, <1>2, AppendProperties
<1>4. /\ rtok' \in Seq(TokenRows) /\ Len(rtok') = Len(rtok) + 1 /\ rtok'[Len(rtok) + 1] = t
      /\ \A k \in 1..Len(rtok) : rtok'[k] = rtok[k]
  BY <1>1, <1>2, AppendProperties
<1>5. \A k \in 1..Len(rtok') : k = Len(rtok) + 1 \/ k \in 1..Len(rtok)
  BY <1>2, <1>4
<1>6. DOMAIN rtok = 1..Len(rtok) /\ DOMAIN rtok' = 1..Len(rtok')
  BY <1>2, <1>4, LenProperties
<1>7. \A k \in 1..Len(rtok) : rtok[k].session \in 1..Len(sess)
  BY DEF Inv, RowsOK
<1>8. user' \in [Users -> UserRows]
  BY <1>1 DEF Inv, RowsOK, UserRows
<1>9. RowsOK'
  BY <1>2, <1>3, <1>4, <1>5, <1>7, <1>8 DEF RowsOK
<1>10. EndedSessionIsDead'
  BY <1>2, <1>3, <1>4, <1>5, <1>6, <1>7 DEF Inv, EndedSessionIsDead, Grantable
<1>11. OneGrantPerSession'
  BY <1>2, <1>4, <1>5, <1>6, <1>7 DEF Inv, OneGrantPerSession, Grantable
<1>12. QED
  BY <1>9, <1>10, <1>11

\* Spending a token changes nothing else.
LEMMA SpendToken ==
  ASSUME NEW q \in Seq(TokenRows), NEW i \in 1..Len(q), NEW p, p = [q EXCEPT ![i].used = TRUE]
  PROVE  /\ p \in Seq(TokenRows) /\ Len(p) = Len(q)
         /\ \A k \in 1..Len(q) :
              /\ p[k].session = q[k].session
              /\ (p[k].used <=> q[k].used \/ k = i)
              /\ (p[k].revoked <=> q[k].revoked)
<1>1. Len(q) \in Nat /\ q \in [1..Len(q) -> TokenRows]
  BY LenProperties
<1>2. p \in [1..Len(q) -> TokenRows]
  BY <1>1 DEF TokenRows
<1>3. p \in Seq(TokenRows) /\ Len(p) = Len(q)
  BY <1>1, <1>2
<1>4. QED
  BY <1>1, <1>3 DEF TokenRows

\* A rotation spends the token it claims and puts one in its place.
LEMMA RotateRows ==
  ASSUME Inv, NEW i \in 1..Len(rtok), Grantable(i),
         NEW spent \in Seq(TokenRows), Len(spent) = Len(rtok),
         \A k \in 1..Len(rtok) :
              /\ spent[k].session = rtok[k].session
              /\ (spent[k].used <=> rtok[k].used \/ k = i)
              /\ (spent[k].revoked <=> rtok[k].revoked),
         NEW t \in TokenRows, t.session = rtok[i].session,
         rtok' = Append(spent, t),
         UNCHANGED <<user, sess>>
  PROVE  RowsOK' /\ EndedSessionIsDead' /\ OneGrantPerSession' /\ Len(rtok') = Len(rtok) + 1
<1>1. /\ Len(rtok) \in Nat /\ rtok \in Seq(TokenRows)
      /\ rtok[i] \in TokenRows /\ rtok[i].session \in 1..Len(sess) /\ DOMAIN rtok = 1..Len(rtok)
  BY Rows DEF Inv, RowsOK
<1>4. /\ Append(spent, t) \in Seq(TokenRows) /\ Len(Append(spent, t)) = Len(spent) + 1
      /\ \A k \in 1..Len(spent) : Append(spent, t)[k] = spent[k]
      /\ Append(spent, t)[Len(spent) + 1] = t
  BY AppendProperties
<1>5. /\ rtok' \in Seq(TokenRows) /\ Len(rtok') = Len(rtok) + 1 /\ rtok'[Len(rtok) + 1] = t
      /\ \A k \in 1..Len(rtok) : rtok'[k] = spent[k]
  BY <1>1, <1>4
<1>6. \A k \in 1..Len(rtok') : k = Len(rtok) + 1 \/ k \in 1..Len(rtok)
  BY <1>1, <1>5
<1>7. DOMAIN rtok' = 1..Len(rtok')
  BY <1>5, LenProperties
<1>8. \A k \in 1..Len(rtok) : /\ rtok[k] \in TokenRows /\ rtok'[k].session = rtok[k].session
                              /\ (Grantable(k)' => Grantable(k) /\ k # i)
  BY <1>1, <1>5, Rows DEF Inv, TokenRows, Grantable
<1>9. rtok'[Len(rtok) + 1].session = rtok[i].session
  BY <1>5
<1>10. ~sess[rtok[i].session].revoked
  BY <1>1 DEF Inv, EndedSessionIsDead
<1>11. RowsOK'
  BY <1>1, <1>5, <1>6, <1>8, <1>9 DEF Inv, RowsOK
<1>12. EndedSessionIsDead'
  BY <1>1, <1>6, <1>7, <1>8, <1>9, <1>10 DEF Inv, EndedSessionIsDead
<1>13. OneGrantPerSession'
  <2> SUFFICES ASSUME NEW k \in 1..Len(rtok'), NEW l \in 1..Len(rtok'), Grantable(k)', Grantable(l)',
                      rtok'[k].session = rtok'[l].session
               PROVE  k = l
    BY <1>7 DEF OneGrantPerSession
  <2>1. CASE k \in 1..Len(rtok) /\ l \in 1..Len(rtok)
    BY <2>1, <1>1, <1>8 DEF Inv, OneGrantPerSession
  <2>2. CASE k = Len(rtok) + 1 /\ l \in 1..Len(rtok)
    BY <2>2, <1>1, <1>8, <1>9 DEF Inv, OneGrantPerSession
  <2>3. CASE l = Len(rtok) + 1 /\ k \in 1..Len(rtok)
    BY <2>3, <1>1, <1>8, <1>9 DEF Inv, OneGrantPerSession
  <2>4. QED
    BY <1>6, <2>1, <2>2, <2>3
<1>14. QED
  BY <1>5, <1>11, <1>12, <1>13

\* What one handler leaves behind: one browser's tokens and request change, rows are only added.
LEMMA PageStep ==
  ASSUME Inv, NEW b \in Browsers,
         Len(sess') \in Nat, Len(sess) <= Len(sess'), Len(rtok') \in Nat, Len(rtok) <= Len(rtok'),
         held' \in [Browsers -> Credentials], req' \in [Browsers -> Requests],
         \A c \in Browsers \ {b} : held'[c] = held[c] /\ req'[c] = req[c],
         PageOK(b)', changes' \in Nat, overlapped' \in BOOLEAN
  PROVE  PagesOK'
<1>1. \A c \in Browsers \ {b} : PageOK(c)'
  BY Rows DEF Inv, PagesOK, PageOK, Credentials
<1>2. QED
  BY <1>1 DEF PagesOK

\* A page without tokens and a browser without a request.
LEMMA EmptyPage ==
  /\ Nobody \in Credentials /\ Nobody.sess = 0 /\ Nobody.tok = 0
  /\ NoReq \in Requests /\ NoReq.pc = "idle"
  BY DEF Nobody, Credentials, NoReq, Requests

\* Nothing was signed in before the first request.
LEMMA InitInv == AdmInit => Inv
<1> SUFFICES ASSUME AdmInit PROVE Inv
  OBVIOUS
<1>1. sess = <<>> /\ rtok = <<>> /\ Len(sess) = 0 /\ Len(rtok) = 0 /\ DOMAIN rtok = 1..0
  BY DEF AdmInit
<1>2. user \in [Users -> UserRows]
  BY DEF AdmInit, UserRows
<1>3. RowsOK /\ EndedSessionIsDead /\ OneGrantPerSession
  BY <1>1, <1>2 DEF RowsOK, EndedSessionIsDead, OneGrantPerSession
<1>4. \A b \in Browsers : held[b] = Nobody /\ req[b] = NoReq
  BY DEF AdmInit
<1>5. held \in [Browsers -> Credentials] /\ req \in [Browsers -> Requests]
  BY EmptyPage DEF AdmInit
<1>6. \A b \in Browsers : PageOK(b)
  BY <1>1, <1>4, EmptyPage DEF PageOK
<1>7. PagesOK
  BY <1>5, <1>6 DEF AdmInit, PagesOK
<1>8. QED
  BY <1>3, <1>7 DEF Inv

\* A handler that writes no row only has to keep its page in order.
LEMMA RowsKept ==
  ASSUME Inv, NEW b \in Browsers, UNCHANGED <<user, sess, rtok>>,
         held' \in [Browsers -> Credentials], req' \in [Browsers -> Requests],
         \A c \in Browsers \ {b} : held'[c] = held[c] /\ req'[c] = req[c],
         PageOK(b)', changes' \in Nat, overlapped' \in BOOLEAN
  PROVE  Inv'
<1>1. RowsOK' /\ EndedSessionIsDead' /\ OneGrantPerSession'
  BY DEF Inv, RowsOK, EndedSessionIsDead, OneGrantPerSession, Grantable
<1>2. PagesOK'
  BY Rows, PageStep DEF Inv
<1>3. QED
  BY <1>1, <1>2 DEF Inv

\* login() remembers what it read of the user.
LEMMA LoginInv ==
  ASSUME Inv, NEW b \in Browsers, NEW u \in Users, login(b, u)
  PROVE  Inv'
<1>1. UNCHANGED <<user, sess, rtok, held, changes, overlapped>>
  BY DEF login
<1>2. user[u].version \in Nat /\ user[u].fails \in Nat /\ user[u].super \in BOOLEAN
  BY DEF Inv, RowsOK, UserRows
<1>3. PICK r \in Requests : req' = [req EXCEPT ![b] = r] /\ r.pc \in {"failure", "open"} /\ r.who = u
  <2>1. CASE req' = [req EXCEPT ![b] = [NoReq EXCEPT !.pc = "failure", !.who = u, !.n = user[u].fails]]
    <3> DEFINE r == [NoReq EXCEPT !.pc = "failure", !.who = u, !.n = user[u].fails]
    <3>1. r \in Requests /\ r.pc = "failure" /\ r.who = u
      BY <1>2 DEF NoReq, Requests
    <3> HIDE DEF r
    <3>2. QED
      BY <2>1, <3>1 DEF r
  <2>2. CASE req' = [req EXCEPT ![b] = [NoReq EXCEPT !.pc = "open", !.who = u,
                                        !.version = user[u].version, !.super = user[u].super]]
    <3> DEFINE r == [NoReq EXCEPT !.pc = "open", !.who = u, !.version = user[u].version, !.super = user[u].super]
    <3>1. r \in Requests /\ r.pc = "open" /\ r.who = u
      BY <1>2 DEF NoReq, Requests
    <3>2. req' = [req EXCEPT ![b] = r]
      BY <2>2
    <3> HIDE DEF r
    <3>3. QED
      BY <3>2, <3>1
  <2>3. QED
    BY <2>1, <2>2 DEF login
<1>4. PageOK(b)' /\ req' \in [Browsers -> Requests] /\ \A c \in Browsers \ {b} : req'[c] = req[c]
  BY <1>1, <1>3 DEF Inv, PagesOK, PageOK
<1>5. QED
  BY <1>1, <1>4, RowsKept DEF Inv, PagesOK

\* A handler that ends sessions.
LEMMA RevokeKept ==
  ASSUME Inv, NEW b \in Browsers, NEW ids, Revoke(ids), user' \in [Users -> UserRows],
         held' \in [Browsers -> Credentials], req' \in [Browsers -> Requests],
         \A c \in Browsers \ {b} : held'[c] = held[c] /\ req'[c] = req[c],
         PageOK(b)', changes' \in Nat, overlapped' \in BOOLEAN
  PROVE  Inv'
<1>1. RowsOK' /\ EndedSessionIsDead' /\ OneGrantPerSession'
  BY RevokeInv DEF Inv
<1>2. Len(sess') = Len(sess) /\ Len(rtok') = Len(rtok)
  BY RevokeRows DEF Inv
<1>3. PagesOK'
  BY <1>2, Rows, PageStep DEF Inv
<1>4. QED
  BY <1>1, <1>3 DEF Inv

\* A handler that writes the user's row alone.
LEMMA UserWritten ==
  ASSUME Inv, NEW b \in Browsers, UNCHANGED <<sess, rtok, held>>, user' \in [Users -> UserRows],
         req' \in [Browsers -> Requests],
         \A c \in Browsers \ {b} : req'[c] = req[c],
         PageOK(b)', changes' \in Nat, overlapped' \in BOOLEAN
  PROVE  Inv'
<1>1. RowsOK' /\ EndedSessionIsDead' /\ OneGrantPerSession'
  BY DEF Inv, RowsOK, EndedSessionIsDead, OneGrantPerSession, Grantable
<1>2. PagesOK'
  BY Rows, PageStep DEF Inv, PagesOK
<1>3. QED
  BY <1>1, <1>2 DEF Inv

\* A request that is answered leaves its browser free.
LEMMA Answered ==
  ASSUME Inv, NEW b \in Browsers, req' = [req EXCEPT ![b] = NoReq],
         held' \in [Browsers -> Credentials], \A c \in Browsers \ {b} : held'[c] = held[c],
         held'[b].sess \in 0..Len(sess'), held'[b].tok \in 0..Len(rtok')
  PROVE  /\ req' \in [Browsers -> Requests] /\ PageOK(b)'
         /\ \A c \in Browsers \ {b} : held'[c] = held[c] /\ req'[c] = req[c]
<1>1. /\ req' \in [Browsers -> Requests] /\ req'[b].pc = "idle"
      /\ \A c \in Browsers \ {b} : req'[c] = req[c]
  BY EmptyPage DEF Inv, PagesOK
<1>2. PageOK(b)'
  BY <1>1 DEF PageOK
<1>3. QED
  BY <1>1, <1>2

\* registerFailure() counts and locks; no session is touched.
LEMMA RegisterFailureInv ==
  ASSUME Inv, NEW b \in Browsers, registerFailure(b)
  PROVE  Inv'
<1>1. /\ UNCHANGED <<sess, rtok, held, changes, overlapped>> /\ req' = [req EXCEPT ![b] = NoReq]
      /\ req[b].who \in Users
  BY DEF registerFailure, Inv, PagesOK, PageOK
<1>2. user' \in [Users -> UserRows]
  <2> DEFINE u == req[b].who
             lock == req[b].n + 1 >= Threshold
             count == IF lock THEN 0 ELSE user[u].fails + 1
             state == user[u].locked \/ lock
  <2>1. user' = [user EXCEPT ![u].fails = count, ![u].locked = state]
    BY DEF registerFailure
  <2>2. u \in Users /\ user \in [Users -> UserRows]
    BY <1>1 DEF Inv, RowsOK
  <2>3. count \in Nat /\ state \in BOOLEAN
    BY <2>2 DEF UserRows
  <2> HIDE DEF count, state, u
  <2>4. QED
    BY <2>1, <2>2, <2>3 DEF UserRows
<1>3. held \in [Browsers -> Credentials] /\ held[b].sess \in 0..Len(sess) /\ held[b].tok \in 0..Len(rtok)
  BY DEF Inv, PagesOK, PageOK
<1>4. /\ req' \in [Browsers -> Requests] /\ PageOK(b)'
      /\ \A c \in Browsers \ {b} : req'[c] = req[c]
  BY <1>1, <1>3, Answered
<1>5. QED
  BY <1>1, <1>2, <1>4, UserWritten DEF Inv, PagesOK

\* The sign-in's transaction.
LEMMA CreateSessionInv ==
  ASSUME Inv, NEW b \in Browsers, createSession(b)
  PROVE  Inv'
<1> DEFINE h == [sess |-> Len(sess) + 1, tok |-> Len(rtok) + 1,
                 version |-> req[b].version, super |-> req[b].super]
<1>1. RowsOK' /\ EndedSessionIsDead' /\ OneGrantPerSession'
  BY CreateSessionRows
<1>2. Len(sess) \in Nat /\ Len(rtok) \in Nat /\ Len(sess') = Len(sess) + 1 /\ Len(rtok') = Len(rtok) + 1
  BY Rows, AppendProperties DEF createSession, Inv
<1>3. req[b] \in Requests
  BY DEF Inv, PagesOK
<1>4. h \in Credentials /\ h.sess = Len(sess) + 1 /\ h.tok = Len(rtok) + 1
  BY <1>2, <1>3 DEF Credentials, Requests
<1>5. /\ held' = [held EXCEPT ![b] = h] /\ req' = [req EXCEPT ![b] = NoReq]
      /\ UNCHANGED <<changes, overlapped>>
  BY DEF createSession
<1> HIDE DEF h
<1>6. /\ held' \in [Browsers -> Credentials] /\ held'[b] = h
      /\ \A c \in Browsers \ {b} : held'[c] = held[c]
  BY <1>4, <1>5 DEF Inv, PagesOK
<1>7. held'[b].sess \in 0..Len(sess') /\ held'[b].tok \in 0..Len(rtok')
  BY <1>2, <1>4, <1>6
<1>8. /\ req' \in [Browsers -> Requests] /\ PageOK(b)'
      /\ \A c \in Browsers \ {b} : held'[c] = held[c] /\ req'[c] = req[c]
  BY <1>5, <1>6, <1>7, Answered
<1>9. PagesOK'
  BY <1>2, <1>5, <1>6, <1>8, PageStep DEF Inv, PagesOK
<1>10. QED
  BY <1>1, <1>9 DEF Inv

\* refresh() remembers the token and the profile it read.
LEMMA RefreshInv ==
  ASSUME Inv, NEW b \in Browsers, refresh(b)
  PROVE  Inv'
<1> DEFINE i == held[b].tok
           s == sess[rtok[i].session]
           u == user[s.owner]
           p == IF rtok[i].used THEN "reuse"
                ELSE IF rtok[i].revoked \/ s.revoked \/ u.status # "ACTIVE" THEN "refused" ELSE "claim"
           r == [NoReq EXCEPT !.n = i, !.who = s.owner, !.version = u.version, !.super = u.super, !.pc = p]
<1>1. req' = [req EXCEPT ![b] = r] /\ UNCHANGED <<user, sess, rtok, held, changes, overlapped>> /\ i # 0
  BY DEF refresh
<1>2. i \in 1..Len(rtok) /\ i \in Nat
  BY <1>1, Rows DEF Inv, PagesOK, PageOK
<1>3. s.owner \in Users
  BY <1>2, Rows DEF Inv, RowsOK, SessionRows
<1>4. u.version \in Nat /\ u.super \in BOOLEAN
  BY <1>3 DEF Inv, RowsOK, UserRows
<1>5. p \in {"reuse", "refused", "claim"}
  OBVIOUS
<1> HIDE DEF p, u, s, i
<1>6. r \in Requests /\ r.pc = p /\ r.n = i
  BY <1>2, <1>3, <1>4, <1>5 DEF NoReq, Requests
<1> HIDE DEF r
<1>7. PageOK(b)' /\ req' \in [Browsers -> Requests] /\ \A c \in Browsers \ {b} : req'[c] = req[c]
  BY <1>1, <1>2, <1>5, <1>6 DEF Inv, PagesOK, PageOK
<1>8. QED
  BY <1>1, <1>7, RowsKept DEF Inv, PagesOK

\* The claim: a grant that is still good is replaced, any other is reuse.
LEMMA RotateInv ==
  ASSUME Inv, NEW b \in Browsers, rotate(b)
  PROVE  Inv'
<1> DEFINE i == req[b].n
           spent == [rtok EXCEPT ![i].used = TRUE]
           t == [session |-> rtok[i].session, used |-> FALSE, revoked |-> FALSE]
           h == [sess |-> rtok[i].session, tok |-> Len(rtok) + 1,
                 version |-> req[b].version, super |-> req[b].super]
<1>1. /\ req[b].pc = "claim" /\ UNCHANGED <<user, sess, changes, overlapped>>
      /\ req[b] \in Requests /\ i \in 1..Len(rtok)
  BY DEF rotate, Inv, PagesOK, PageOK
<1>2. CASE ~Grantable(i)
  <2>1. req' = [req EXCEPT ![b].pc = "reuse"] /\ UNCHANGED <<rtok, held>>
    BY <1>2 DEF rotate
  <2>2. /\ req' \in [Browsers -> Requests] /\ req'[b].n = i /\ req'[b].pc = "reuse"
        /\ \A c \in Browsers \ {b} : req'[c] = req[c]
    BY <1>1, <2>1 DEF Inv, PagesOK, Requests
  <2>3. PageOK(b)'
    BY <1>1, <2>1, <2>2 DEF Inv, PagesOK, PageOK
  <2>4. QED
    BY <1>1, <2>1, <2>2, <2>3, RowsKept DEF Inv, PagesOK
<1>3. CASE Grantable(i)
  <2>1. /\ rtok' = Append(spent, t) /\ held' = [held EXCEPT ![b] = h] /\ req' = [req EXCEPT ![b] = NoReq]
    BY <1>3 DEF rotate
  <2>2. /\ Len(rtok) \in Nat /\ rtok \in [1..Len(rtok) -> TokenRows]
        /\ rtok[i].session \in 1..Len(sess) /\ Len(sess) \in Nat
    BY <1>1, Rows DEF Inv, RowsOK
  <2>3. spent \in [1..Len(rtok) -> TokenRows]
    BY <1>1, <2>2 DEF TokenRows
  <2>4. spent \in Seq(TokenRows) /\ Len(spent) = Len(rtok)
    BY <2>2, <2>3
  <2>5. \A k \in 1..Len(rtok) :
          /\ spent[k].session = rtok[k].session
          /\ (spent[k].used <=> rtok[k].used \/ k = i)
          /\ (spent[k].revoked <=> rtok[k].revoked)
    BY <1>1, <2>2 DEF TokenRows
  <2>6. t \in TokenRows /\ t.session = rtok[i].session
    BY <2>2 DEF TokenRows
  <2>7. h \in Credentials /\ h.sess = rtok[i].session /\ h.tok = Len(rtok) + 1
    BY <1>1, <2>2 DEF Credentials, Requests
  <2> HIDE DEF spent, t, h
  <2>8. RowsOK' /\ EndedSessionIsDead' /\ OneGrantPerSession' /\ Len(rtok') = Len(rtok) + 1
    BY <1>1, <1>3, <2>1, <2>4, <2>5, <2>6, RotateRows
  <2>9. /\ held' \in [Browsers -> Credentials] /\ held'[b] = h
        /\ \A c \in Browsers \ {b} : held'[c] = held[c]
    BY <2>1, <2>7 DEF Inv, PagesOK
  <2>10. held'[b].sess \in 0..Len(sess') /\ held'[b].tok \in 0..Len(rtok')
    BY <1>1, <2>2, <2>7, <2>8, <2>9
  <2>11. /\ req' \in [Browsers -> Requests] /\ PageOK(b)'
         /\ \A c \in Browsers \ {b} : held'[c] = held[c] /\ req'[c] = req[c]
    BY <2>1, <2>9, <2>10, Answered
  <2>12. PagesOK'
    BY <1>1, <2>2, <2>8, <2>9, <2>11, PageStep DEF Inv, PagesOK
  <2>13. QED
    BY <2>8, <2>12 DEF Inv
<1>4. QED
  BY <1>2, <1>3

\* A used token was presented: its whole session ends.
LEMMA RevokeForReuseInv ==
  ASSUME Inv, NEW b \in Browsers, revokeForReuse(b)
  PROVE  Inv'
<1>1. /\ Revoke({rtok[req[b].n].session}) /\ req' = [req EXCEPT ![b].pc = "refused"]
      /\ UNCHANGED <<user, held, changes, overlapped>> /\ req[b] \in Requests
  BY DEF revokeForReuse, Inv, PagesOK
<1>2. /\ req' \in [Browsers -> Requests] /\ req'[b].pc = "refused"
      /\ \A c \in Browsers \ {b} : req'[c] = req[c]
  BY <1>1 DEF Inv, PagesOK, Requests
<1>3. Len(sess') = Len(sess) /\ Len(rtok') = Len(rtok)
  BY <1>1, RevokeRows DEF Inv
<1>4. PageOK(b)'
  BY <1>1, <1>2, <1>3 DEF Inv, PagesOK, PageOK
<1>5. user' \in [Users -> UserRows] /\ held' \in [Browsers -> Credentials]
      /\ changes' \in Nat /\ overlapped' \in BOOLEAN
  BY <1>1 DEF Inv, RowsOK, PagesOK
<1>6. QED
  BY <1>1, <1>2, <1>4, <1>5, RevokeKept

\* The page forgets its tokens.
LEMMA RefusedInv ==
  ASSUME Inv, NEW b \in Browsers, refused(b)
  PROVE  Inv'
<1>1. /\ held' = [held EXCEPT ![b] = Nobody] /\ req' = [req EXCEPT ![b] = NoReq]
      /\ UNCHANGED <<user, sess, rtok, changes, overlapped>>
  BY DEF refused
<1>2. /\ held' \in [Browsers -> Credentials] /\ held'[b] = Nobody
      /\ \A c \in Browsers \ {b} : held'[c] = held[c]
  BY <1>1, EmptyPage DEF Inv, PagesOK
<1>3. held'[b].sess \in 0..Len(sess') /\ held'[b].tok \in 0..Len(rtok')
  BY <1>1, <1>2, Rows, EmptyPage DEF Inv
<1>4. /\ req' \in [Browsers -> Requests] /\ PageOK(b)'
      /\ \A c \in Browsers \ {b} : held'[c] = held[c] /\ req'[c] = req[c]
  BY <1>1, <1>2, <1>3, Answered
<1>5. QED
  BY <1>1, <1>2, <1>4, RowsKept DEF Inv, PagesOK

\* A page opened with the tokens of another.
LEMMA OpenTabInv ==
  ASSUME Inv, NEW b \in Browsers, NEW c \in Browsers, openTab(b, c)
  PROVE  Inv'
<1>1. /\ held' = [held EXCEPT ![c] = held[b]] /\ req[c].pc = "idle"
      /\ UNCHANGED <<user, sess, rtok, req, changes, overlapped>>
  BY DEF openTab, Free
<1>2. /\ held' \in [Browsers -> Credentials] /\ held'[c] = held[b]
      /\ \A d \in Browsers \ {c} : held'[d] = held[d]
  BY <1>1 DEF Inv, PagesOK
<1>3. PageOK(c)'
  BY <1>1, <1>2 DEF Inv, PagesOK, PageOK
<1>4. QED
  BY <1>1, <1>2, <1>3, RowsKept DEF Inv, PagesOK

\* One session ended by its owner; this page forgets it if it was its own.
LEMMA LogoutInv ==
  ASSUME Inv, NEW b \in Browsers, NEW s \in DOMAIN sess, logout(b, s)
  PROVE  Inv'
<1>1. /\ Revoke({s}) /\ held' = [held EXCEPT ![b] = IF s = @.sess THEN Nobody ELSE @]
      /\ UNCHANGED <<user, req, changes, overlapped>>
  BY DEF logout
<1>2. /\ held' \in [Browsers -> Credentials] /\ held'[b] \in {Nobody, held[b]}
      /\ \A d \in Browsers \ {b} : held'[d] = held[d]
  BY <1>1, EmptyPage DEF Inv, PagesOK
<1>3. Len(sess') = Len(sess) /\ Len(rtok') = Len(rtok)
  BY <1>1, RevokeRows DEF Inv
<1>4. PageOK(b)'
  BY <1>1, <1>2, <1>3, Rows, EmptyPage DEF Inv, PagesOK, PageOK
<1>5. QED
  BY <1>1, <1>2, <1>4, RevokeKept DEF Inv, PagesOK, RowsOK

\* The three requests that only read and decide before their transaction.
LEMMA DecisionInv ==
  ASSUME Inv, NEW b \in Browsers,
         revokeOthers(b) \/ \E u \in Users : \/ revokeUserSessions(b, u) \/ disableUser(b, u)
                                             \/ \E super \in BOOLEAN : replaceUserRoles(b, u, super)
  PROVE  Inv'
<1>1. UNCHANGED <<user, sess, rtok, held, overlapped>> /\ changes' \in {changes, changes + 1}
  BY DEF revokeOthers, revokeUserSessions, disableUser, replaceUserRoles
<1>2. \A u : SessionsOf(u) \in SUBSET Nat
  BY Rows DEF SessionsOf, Inv
<1>3. PICK r \in Requests : /\ req' = [req EXCEPT ![b] = r]
                            /\ r.pc \in {"ids", "change"} /\ (r.pc = "change" => r.who \in Users)
  <2>1. CASE revokeOthers(b) \/ \E u \in Users : revokeUserSessions(b, u)
    <3>1. PICK ids \in SUBSET Nat : req' = [req EXCEPT ![b] = [NoReq EXCEPT !.pc = "ids", !.ids = ids]]
      BY <2>1, <1>2 DEF revokeOthers, revokeUserSessions
    <3> DEFINE r == [NoReq EXCEPT !.pc = "ids", !.ids = ids]
    <3>2. r \in Requests /\ r.pc = "ids"
      BY DEF NoReq, Requests
    <3>3. req' = [req EXCEPT ![b] = r]
      BY <3>1
    <3> HIDE DEF r
    <3>4. QED
      BY <3>2, <3>3
  <2>2. CASE \E u \in Users : disableUser(b, u)
    <3>1. PICK u \in Users :
            req' = [req EXCEPT ![b] = [NoReq EXCEPT !.pc = "change", !.op = "disable", !.who = u]]
      BY <2>2 DEF disableUser
    <3> DEFINE r == [NoReq EXCEPT !.pc = "change", !.op = "disable", !.who = u]
    <3>2. r \in Requests /\ r.pc = "change" /\ r.who = u
      BY DEF NoReq, Requests
    <3>3. req' = [req EXCEPT ![b] = r]
      BY <3>1
    <3> HIDE DEF r
    <3>4. QED
      BY <3>2, <3>3
  <2>3. CASE \E u \in Users : \E super \in BOOLEAN : replaceUserRoles(b, u, super)
    <3>1. PICK u \in Users, super \in BOOLEAN : replaceUserRoles(b, u, super)
      BY <2>3
    <3> DEFINE op == IF super THEN "grant" ELSE "withdraw"
               r == [NoReq EXCEPT !.pc = "change", !.who = u, !.op = op]
    <3>2. op \in {"grant", "withdraw"}
      OBVIOUS
    <3>3. req' = [req EXCEPT ![b] = r]
      BY <3>1 DEF replaceUserRoles
    <3> HIDE DEF op
    <3>4. r \in Requests /\ r.pc = "change" /\ r.who = u
      BY <3>2 DEF NoReq, Requests
    <3> HIDE DEF r
    <3>5. QED
      BY <3>3, <3>4
  <2>4. QED
    BY <2>1, <2>2, <2>3
<1>4. PageOK(b)' /\ req' \in [Browsers -> Requests] /\ \A c \in Browsers \ {b} : req'[c] = req[c]
  BY <1>1, <1>3 DEF Inv, PagesOK, PageOK
<1>5. QED
  BY <1>1, <1>4, RowsKept DEF Inv, PagesOK

\* The transaction that ends the sessions whose ids were read before.
LEMMA RevokeIdsInv ==
  ASSUME Inv, NEW b \in Browsers, revokeIds(b)
  PROVE  Inv'
<1>1. /\ Revoke(req[b].ids) /\ req' = [req EXCEPT ![b] = NoReq]
      /\ UNCHANGED <<user, held, changes, overlapped>>
  BY DEF revokeIds
<1>2. Len(sess') = Len(sess) /\ Len(rtok') = Len(rtok)
  BY <1>1, RevokeRows DEF Inv
<1>3. held \in [Browsers -> Credentials] /\ held[b].sess \in 0..Len(sess') /\ held[b].tok \in 0..Len(rtok')
  BY <1>2 DEF Inv, PagesOK, PageOK
<1>4. /\ req' \in [Browsers -> Requests] /\ PageOK(b)'
      /\ \A c \in Browsers \ {b} : req'[c] = req[c]
  BY <1>1, <1>3, Answered
<1>5. QED
  BY <1>1, <1>4, RevokeKept DEF Inv, PagesOK, RowsOK

\* A change of a user: the row, its version and every live session of the user.
LEMMA ChangeUserInv ==
  ASSUME Inv, NEW b \in Browsers, changeUser(b)
  PROVE  Inv'
<1> DEFINE u == req[b].who
           super == (req[b].op = "grant") \/ (req[b].op = "disable" /\ user[u].super)
           status == IF req[b].op = "disable" THEN "DISABLED" ELSE user[u].status
<1>1. /\ Revoke(SessionsOf(u)) /\ req' = [req EXCEPT ![b] = NoReq]
      /\ user' = [user EXCEPT ![u].super = super, ![u].status = status, ![u].version = @ + 1]
      /\ UNCHANGED <<held, changes>> /\ overlapped' \in BOOLEAN
  BY DEF changeUser, Inv, PagesOK
<1>2. u \in Users /\ user \in [Users -> UserRows]
  BY DEF changeUser, Inv, RowsOK, PagesOK, PageOK
<1>3. super \in BOOLEAN /\ status \in {"ACTIVE", "DISABLED"}
  BY <1>2 DEF UserRows
<1> HIDE DEF u, super, status
<1>4. user' \in [Users -> UserRows]
  BY <1>1, <1>2, <1>3 DEF UserRows
<1>5. Len(sess') = Len(sess) /\ Len(rtok') = Len(rtok)
  BY <1>1, RevokeRows DEF Inv
<1>6. held \in [Browsers -> Credentials] /\ held[b].sess \in 0..Len(sess') /\ held[b].tok \in 0..Len(rtok')
  BY <1>5 DEF Inv, PagesOK, PageOK
<1>7. /\ req' \in [Browsers -> Requests] /\ PageOK(b)'
      /\ \A c \in Browsers \ {b} : req'[c] = req[c]
  BY <1>1, <1>6, Answered
<1>8. QED
  BY <1>1, <1>4, <1>7, RevokeKept DEF Inv, PagesOK

\* activateUser() writes the row alone.
LEMMA ActivateUserInv ==
  ASSUME Inv, NEW b \in Browsers, NEW u \in Users, activateUser(b, u)
  PROVE  Inv'
<1>1. UNCHANGED <<sess, rtok, held, req, overlapped>> /\ changes' = changes + 1
  BY DEF activateUser
<1>2. user' = [user EXCEPT ![u].status = "ACTIVE", ![u].version = @ + 1, ![u].fails = 0, ![u].locked = FALSE]
  BY DEF activateUser
<1>3. user' \in [Users -> UserRows]
  <2> DEFINE row == [status |-> "ACTIVE", version |-> user[u].version + 1, super |-> user[u].super,
                     fails |-> 0, locked |-> FALSE]
  <2>1. user \in [Users -> UserRows]
    BY DEF Inv, RowsOK
  <2>2. row \in UserRows
    BY <2>1 DEF UserRows
  <2>3. user' = [user EXCEPT ![u] = row]
    BY <1>2, <2>1 DEF UserRows
  <2> HIDE DEF row
  <2>4. QED
    BY <2>1, <2>2, <2>3
<1>4. PageOK(b)'
  BY <1>1 DEF Inv, PagesOK, PageOK
<1>5. QED
  BY <1>1, <1>3, <1>4, UserWritten DEF Inv, PagesOK

\* The lock-out ends; with no browser the invariant has nothing to say of pages.
LEMMA LockEndsInv ==
  ASSUME Inv, NEW u \in Users, LockEnds(u)
  PROVE  Inv'
<1>1. UNCHANGED <<sess, rtok, held, req, changes, overlapped>>
  BY DEF LockEnds
<1>2. user' \in [Users -> UserRows]
  BY DEF LockEnds, Inv, RowsOK, UserRows
<1>3. QED
  BY <1>1, <1>2 DEF Inv, RowsOK, PagesOK, PageOK, EndedSessionIsDead, OneGrantPerSession, Grantable

\* Every step keeps the invariant.
LEMMA NextInv == Inv /\ [AdmNext]_admVars => Inv'
<1> SUFFICES ASSUME Inv, [AdmNext]_admVars PROVE Inv'
  OBVIOUS
<1>1. CASE UNCHANGED admVars
  BY <1>1 DEF admVars, Inv, RowsOK, PagesOK, PageOK, EndedSessionIsDead, OneGrantPerSession, Grantable
<1>2. ASSUME NEW b \in Browsers, NEW u \in Users,
             \/ login(b, u) \/ revokeUserSessions(b, u) \/ disableUser(b, u) \/ activateUser(b, u)
             \/ \E super \in BOOLEAN : replaceUserRoles(b, u, super)
      PROVE  Inv'
  BY <1>2, LoginInv, DecisionInv, ActivateUserInv
<1>3. ASSUME NEW b \in Browsers,
             \/ registerFailure(b) \/ createSession(b) \/ refresh(b) \/ rotate(b)
             \/ revokeForReuse(b) \/ refused(b) \/ revokeOthers(b) \/ revokeIds(b) \/ changeUser(b)
      PROVE  Inv'
  BY <1>3, RegisterFailureInv, CreateSessionInv, RefreshInv, RotateInv, RevokeForReuseInv,
     RefusedInv, DecisionInv, RevokeIdsInv, ChangeUserInv
<1>4. ASSUME NEW b \in Browsers, (\E s \in DOMAIN sess : logout(b, s)) \/ \E c \in Browsers : openTab(b, c)
      PROVE  Inv'
  BY <1>4, LogoutInv, OpenTabInv
<1>5. ASSUME NEW u \in Users, LockEnds(u)
      PROVE  Inv'
  BY <1>5, LockEndsInv
<1>6. QED
  BY <1>1, <1>2, <1>3, <1>4, <1>5 DEF AdmNext

\* Rows, pages and requests are well formed and grants are sound in every reachable state.
THEOREM InvAlways == AdmSpec => []Inv
<1>1. AdmInit => Inv
  BY InitInv
<1>2. Inv /\ [AdmNext]_admVars => Inv'
  BY NextInv
<1>3. QED
  BY <1>1, <1>2, PTL DEF AdmSpec

\* A session ended by its owner, an administrator or a replayed token has no token left
\* that refresh() would exchange, for any number of browsers, sessions and refreshes.
THEOREM EndedSessionStaysDead == AdmSpec => []EndedSessionIsDead
<1>1. Inv => EndedSessionIsDead
  BY DEF Inv
<1>2. QED
  BY <1>1, InvAlways, PTL

\* However many tabs refresh at once, each session has one exchangeable token at most.
THEOREM SessionHasOneGrant == AdmSpec => []OneGrantPerSession
<1>1. Inv => OneGrantPerSession
  BY DEF Inv
<1>2. QED
  BY <1>1, InvAlways, PTL

--------------------------------------------------------------------------------
(***************************************************************************)
(* What a page believes.  A profile read earlier may be old, but then its  *)
(* version is too, and the strategy refuses it; every change of the role   *)
(* raises the version, so an equal version means an equal role.            *)
(***************************************************************************)

\* A role only changes together with the version, which never falls.
LEMMA VersionGuardsRole ==
  ASSUME Inv, [AdmNext]_admVars
  PROVE  \A u \in Users : /\ user[u].version \in Nat /\ user'[u].version \in Nat
                          /\ user[u].version <= user'[u].version
                          /\ user'[u].version = user[u].version => (user'[u].super <=> user[u].super)
<1>1. \A u \in Users : user[u] \in UserRows /\ user[u].version \in Nat
  BY DEF Inv, RowsOK, UserRows
<1>2. CASE user' = user
  BY <1>1, <1>2
<1>3. CASE \E b \in Browsers : registerFailure(b) \/ createSession(b)
  <2>1. PICK b \in Browsers : registerFailure(b) \/ createSession(b)
    BY <1>3
  <2> DEFINE w == req[b].who
  <2>2. PICK f, l : user' = [user EXCEPT ![w].fails = f, ![w].locked = l]
    BY <2>1 DEF registerFailure, createSession
  <2> HIDE DEF w
  <2>3. QED
    BY <1>1, <2>2 DEF Inv, RowsOK, UserRows
<1>4. CASE \E b \in Browsers : changeUser(b)
  <2>1. PICK b \in Browsers : changeUser(b)
    BY <1>4
  <2> DEFINE w == req[b].who
  <2>2. PICK f, l : user' = [user EXCEPT ![w].super = f, ![w].status = l, ![w].version = @ + 1]
    BY <2>1 DEF changeUser
  <2> HIDE DEF w
  <2>3. QED
    BY <1>1, <2>2 DEF Inv, RowsOK, UserRows
<1>5. CASE \E u \in Users : LockEnds(u) \/ \E b \in Browsers : activateUser(b, u)
  <2>1. PICK w \in Users : LockEnds(w) \/ \E b \in Browsers : activateUser(b, w)
    BY <1>5
  <2>2. CASE LockEnds(w)
    BY <1>1, <2>2 DEF LockEnds, Inv, RowsOK, UserRows
  <2>3. CASE \E b \in Browsers : activateUser(b, w)
    <3>1. user' = [user EXCEPT ![w].status = "ACTIVE", ![w].version = @ + 1, ![w].fails = 0, ![w].locked = FALSE]
      BY <2>3 DEF activateUser
    <3>2. QED
      BY <1>1, <3>1 DEF Inv, RowsOK, UserRows
  <2>4. QED
    BY <2>1, <2>2, <2>3
<1>6. QED
  BY <1>2, <1>3, <1>4, <1>5
     DEF AdmNext, admVars, login, refresh, rotate, revokeForReuse, refused, revokeOthers, revokeIds,
         revokeUserSessions, disableUser, replaceUserRoles, logout, openTab

\* An older reading stays an older reading.
LEMMA DatedKept ==
  ASSUME Inv, [AdmNext]_admVars, NEW u \in Users, NEW v \in Nat, NEW s, Dated(v, s, u)
  PROVE  Dated(v, s, u)'
  BY VersionGuardsRole DEF Dated

\* A session keeps its owner and a token its session; rows are never deleted.
LEMMA OwnersStay ==
  ASSUME Inv, [AdmNext]_admVars
  PROVE  /\ \A s \in 1..Len(sess) : sess'[s].owner = sess[s].owner
         /\ \A i \in 1..Len(rtok) : rtok'[i].session = rtok[i].session
         /\ Len(sess) <= Len(sess') /\ Len(rtok) <= Len(rtok')
<1>1. Len(sess) \in Nat /\ Len(rtok) \in Nat
  BY Rows DEF Inv
<1>2. CASE \E ids : Revoke(ids)
  BY <1>1, <1>2, RevokeRows DEF Inv
<1>3. CASE UNCHANGED <<sess, rtok>>
  BY <1>1, <1>3
<1>4. CASE \E b \in Browsers : createSession(b)
  <2>1. PICK s \in SessionRows, t \in TokenRows : sess' = Append(sess, s) /\ rtok' = Append(rtok, t)
    <3>1. PICK b \in Browsers : createSession(b)
      BY <1>4
    <3> DEFINE s == [owner |-> req[b].who, revoked |-> FALSE]
               t == [session |-> Len(sess) + 1, used |-> FALSE, revoked |-> FALSE]
    <3>2. sess' = Append(sess, s) /\ rtok' = Append(rtok, t) /\ req[b].who \in Users
      BY <3>1 DEF createSession, Inv, PagesOK, PageOK
    <3>3. s \in SessionRows /\ t \in TokenRows
      BY <1>1, <3>2 DEF SessionRows, TokenRows
    <3> HIDE DEF s, t
    <3>4. QED
      BY <3>2, <3>3
  <2>2. /\ Len(Append(sess, s)) = Len(sess) + 1 /\ \A k \in 1..Len(sess) : Append(sess, s)[k] = sess[k]
        /\ Len(Append(rtok, t)) = Len(rtok) + 1 /\ \A k \in 1..Len(rtok) : Append(rtok, t)[k] = rtok[k]
    BY AppendProperties DEF Inv, RowsOK
  <2>3. QED
    BY <1>1, <2>1, <2>2
<1>5. CASE \E b \in Browsers : rotate(b) /\ Grantable(req[b].n)
  <2>1. PICK b \in Browsers : rotate(b) /\ Grantable(req[b].n)
    BY <1>5
  <2> DEFINE i == req[b].n
             spent == [rtok EXCEPT ![i].used = TRUE]
             t == [session |-> rtok[i].session, used |-> FALSE, revoked |-> FALSE]
  <2>2. rtok' = Append(spent, t) /\ UNCHANGED sess /\ req[b].pc = "claim"
    BY <2>1 DEF rotate
  <2> HIDE DEF spent, t
  <2> i \in 1..Len(rtok)
    BY <2>2 DEF Inv, PagesOK, PageOK
  <2> USE DEF spent, t
  <2>3. rtok \in [1..Len(rtok) -> TokenRows] /\ rtok[i].session \in Nat
    BY <1>1, <2>2, Rows DEF Inv, RowsOK, TokenRows
  <2>4. spent \in [1..Len(rtok) -> TokenRows] /\ t \in TokenRows
    BY <2>3 DEF TokenRows
  <2>5. \A k \in 1..Len(rtok) : spent[k].session = rtok[k].session
    BY <2>3 DEF TokenRows
  <2> HIDE DEF spent, t
  <2>6. spent \in Seq(TokenRows) /\ Len(spent) = Len(rtok)
    BY <1>1, <2>4
  <2>7. Len(Append(spent, t)) = Len(spent) + 1 /\ \A k \in 1..Len(spent) : Append(spent, t)[k] = spent[k]
    BY <2>4, <2>6, AppendProperties
  <2>8. QED
    BY <1>1, <2>2, <2>5, <2>6, <2>7
<1>6. ASSUME NEW b \in Browsers, NEW u \in Users,
             \/ login(b, u) \/ revokeUserSessions(b, u) \/ disableUser(b, u) \/ activateUser(b, u)
             \/ \E super \in BOOLEAN : replaceUserRoles(b, u, super)
      PROVE  UNCHANGED <<sess, rtok>>
  BY <1>6 DEF login, revokeUserSessions, disableUser, activateUser, replaceUserRoles
<1>7. ASSUME NEW b \in Browsers,
             \/ registerFailure(b) \/ refresh(b) \/ refused(b) \/ revokeOthers(b)
             \/ (rotate(b) /\ ~Grantable(req[b].n)) \/ \E c \in Browsers : openTab(b, c)
      PROVE  UNCHANGED <<sess, rtok>>
  BY <1>7 DEF registerFailure, refresh, refused, revokeOthers, rotate, openTab
<1>8. ASSUME NEW b \in Browsers,
             \/ revokeForReuse(b) \/ revokeIds(b) \/ changeUser(b) \/ \E s \in DOMAIN sess : logout(b, s)
      PROVE  \E ids : Revoke(ids)
  BY <1>8 DEF revokeForReuse, revokeIds, changeUser, logout
<1>9. ASSUME UNCHANGED admVars \/ \E u \in Users : LockEnds(u)
      PROVE  UNCHANGED <<sess, rtok>>
  BY <1>9 DEF admVars, LockEnds
<1>10. QED
  BY <1>2, <1>3, <1>4, <1>5, <1>6, <1>7, <1>8, <1>9 DEF AdmNext

\* What a page holds after a step is what some page held, or was read by its own request.
LEMMA HeldAfter ==
  ASSUME Inv, [AdmNext]_admVars, NEW b \in Browsers
  PROVE  \/ held'[b] = Nobody
         \/ \E c \in Browsers : held'[b] = held[c]
         \/ /\ createSession(b) \/ (rotate(b) /\ Grantable(req[b].n))
            /\ req[b].pc \in {"open", "claim"}
            /\ held'[b].version = req[b].version /\ held'[b].super = req[b].super
<1>1. held \in [Browsers -> Credentials]
  BY DEF Inv, PagesOK
<1>2. ASSUME NEW c \in Browsers, createSession(c) \/ (rotate(c) /\ Grantable(req[c].n))
      PROVE  \/ c # b /\ held'[b] = held[b]
             \/ /\ createSession(b) \/ (rotate(b) /\ Grantable(req[b].n))
                /\ req[b].pc \in {"open", "claim"}
                /\ held'[b].version = req[b].version /\ held'[b].super = req[b].super
  <2>1. PICK n, k : held' = [held EXCEPT ![c] = [sess |-> n, tok |-> k, version |-> req[c].version,
                                                 super |-> req[c].super]]
    BY <1>2 DEF createSession, rotate
  <2>2. req[c].pc \in {"open", "claim"}
    BY <1>2 DEF createSession, rotate
  <2>3. held'[b] = IF c = b THEN [sess |-> n, tok |-> k, version |-> req[c].version, super |-> req[c].super]
                            ELSE held[b]
    BY <1>1, <2>1
  <2>4. QED
    BY <1>2, <2>2, <2>3
<1>3. ASSUME NEW c \in Browsers, rotate(c) /\ ~Grantable(req[c].n)
      PROVE  UNCHANGED held
  BY <1>3 DEF rotate
<1>4. ASSUME NEW c \in Browsers, refused(c) \/ (\E s \in DOMAIN sess : logout(c, s)) \/ \E d \in Browsers : openTab(c, d)
      PROVE  held'[b] = Nobody \/ \E d \in Browsers : held'[b] = held[d]
  BY <1>1, <1>4 DEF refused, logout, openTab
<1>5. ASSUME NEW c \in Browsers, NEW u \in Users,
             \/ login(c, u) \/ revokeUserSessions(c, u) \/ disableUser(c, u) \/ activateUser(c, u)
             \/ \E super \in BOOLEAN : replaceUserRoles(c, u, super)
      PROVE  UNCHANGED held
  BY <1>5 DEF login, revokeUserSessions, disableUser, activateUser, replaceUserRoles
<1>6. ASSUME NEW c \in Browsers,
             \/ registerFailure(c) \/ refresh(c) \/ revokeForReuse(c) \/ revokeOthers(c)
             \/ revokeIds(c) \/ changeUser(c)
      PROVE  UNCHANGED held
  BY <1>6 DEF registerFailure, refresh, revokeForReuse, revokeOthers, revokeIds, changeUser
<1>7. ASSUME UNCHANGED admVars \/ \E u \in Users : LockEnds(u)
      PROVE  UNCHANGED held
  BY <1>7 DEF admVars, LockEnds
<1>8. QED
  BY <1>2, <1>3, <1>4, <1>5, <1>6, <1>7 DEF AdmNext

\* What a request waits with after a step is what it waited with, or was read just now.
LEMMA RequestAfter ==
  ASSUME Inv, [AdmNext]_admVars, NEW b \in Browsers, req'[b].pc \in {"open", "claim"}
  PROVE  \/ req'[b] = req[b]
         \/ /\ UNCHANGED <<user, sess, rtok>>
            /\ req'[b].who \in Users
            /\ req'[b].version = user[req'[b].who].version /\ req'[b].super = user[req'[b].who].super
            /\ req'[b].pc = "claim" =>
                 req'[b].n \in 1..Len(rtok) /\ req'[b].who = sess[rtok[req'[b].n].session].owner
<1>1. req \in [Browsers -> Requests]
  BY DEF Inv, PagesOK
<1>2. ASSUME NEW c \in Browsers, NEW r, req' = [req EXCEPT ![c] = r], r.pc \notin {"open", "claim"}
      PROVE  req'[b] = req[b]
  BY <1>1, <1>2
<1>3. ASSUME NEW c \in Browsers, req' = [req EXCEPT ![c] = NoReq]
      PROVE  req'[b] = req[b]
  BY <1>2, <1>3, EmptyPage
<1>4. ASSUME NEW c \in Browsers, NEW u \in Users, login(c, u)
      PROVE  \/ req'[b] = req[b]
             \/ /\ UNCHANGED <<user, sess, rtok>>
                /\ req'[b].who = u /\ req'[b].pc = "open"
                /\ req'[b].version = user[u].version /\ req'[b].super = user[u].super
  <2>1. UNCHANGED <<user, sess, rtok>>
    BY <1>4 DEF login
  <2>2. CASE req' = [req EXCEPT ![c] = [NoReq EXCEPT !.pc = "failure", !.who = u, !.n = user[u].fails]]
    <3> DEFINE r == [NoReq EXCEPT !.pc = "failure", !.who = u, !.n = user[u].fails]
    <3>1. r.pc = "failure"
      BY DEF NoReq
    <3>2. req' = [req EXCEPT ![c] = r]
      BY <2>2
    <3> HIDE DEF r
    <3>3. QED
      BY <1>2, <3>1, <3>2
  <2>3. CASE req' = [req EXCEPT ![c] = [NoReq EXCEPT !.pc = "open", !.who = u,
                                        !.version = user[u].version, !.super = user[u].super]]
    <3> DEFINE r == [NoReq EXCEPT !.pc = "open", !.who = u, !.version = user[u].version, !.super = user[u].super]
    <3>1. r.pc = "open" /\ r.who = u /\ r.version = user[u].version /\ r.super = user[u].super
      BY DEF NoReq
    <3>2. req' = [req EXCEPT ![c] = r]
      BY <2>3
    <3> HIDE DEF r
    <3>3. QED
      BY <1>1, <2>1, <3>1, <3>2
  <2>4. QED
    BY <1>4, <2>2, <2>3 DEF login
<1>5. ASSUME NEW c \in Browsers, refresh(c)
      PROVE  \/ req'[b] = req[b]
             \/ /\ UNCHANGED <<user, sess, rtok>> /\ req'[b].who \in Users
                /\ req'[b].n \in 1..Len(rtok) /\ req'[b].who = sess[rtok[req'[b].n].session].owner
                /\ req'[b].version = user[req'[b].who].version /\ req'[b].super = user[req'[b].who].super
  <2> DEFINE i == held[c].tok
             s == sess[rtok[i].session]
             u == user[s.owner]
             p == IF rtok[i].used THEN "reuse"
                  ELSE IF rtok[i].revoked \/ s.revoked \/ u.status # "ACTIVE" THEN "refused" ELSE "claim"
             r == [NoReq EXCEPT !.n = i, !.who = s.owner, !.version = u.version, !.super = u.super, !.pc = p]
  <2>1. req' = [req EXCEPT ![c] = r] /\ UNCHANGED <<user, sess, rtok>>
    BY <1>5 DEF refresh
  <2> i # 0
    BY <1>5 DEF refresh
  <2> HIDE DEF r
  <2>2. i \in 1..Len(rtok)
    BY Rows DEF Inv, PagesOK, PageOK
  <2> USE DEF r
  <2>3. r.n = i /\ r.who = s.owner /\ r.version = u.version /\ r.super = u.super
    BY DEF NoReq
  <2> HIDE DEF r
  <2>30. s.owner \in Users
    BY <2>2, Rows DEF Inv, RowsOK, SessionRows
  <2>31. /\ r.n \in 1..Len(rtok) /\ r.who \in Users /\ r.who = sess[rtok[r.n].session].owner
        /\ r.version = user[r.who].version /\ r.super = user[r.who].super
    BY <2>2, <2>3, <2>30
  <2> HIDE DEF i, s, u, p
  <2>4. req'[b] = req[b] \/ req'[b] = r
    BY <1>1, <2>1
  <2>5. QED
    BY <2>1, <2>31, <2>4
<1>6. ASSUME NEW c \in Browsers, NEW ids, req' = [req EXCEPT ![c] = [NoReq EXCEPT !.pc = "ids", !.ids = ids]]
      PROVE  req'[b] = req[b]
  <2> DEFINE r == [NoReq EXCEPT !.pc = "ids", !.ids = ids]
  <2>1. r.pc = "ids"
    BY DEF NoReq
  <2>2. req' = [req EXCEPT ![c] = r]
    BY <1>6
  <2> HIDE DEF r
  <2>3. QED
    BY <1>2, <2>1, <2>2
<1>7. ASSUME NEW c \in Browsers, revokeOthers(c) \/ \E u \in Users : revokeUserSessions(c, u)
      PROVE  req'[b] = req[b]
  BY <1>6, <1>7 DEF revokeOthers, revokeUserSessions
<1>8. ASSUME NEW c \in Browsers, NEW u \in Users, disableUser(c, u)
      PROVE  req'[b] = req[b]
  <2> DEFINE r == [NoReq EXCEPT !.pc = "change", !.op = "disable", !.who = u]
  <2>1. r.pc = "change"
    BY DEF NoReq
  <2>2. req' = [req EXCEPT ![c] = r]
    BY <1>8 DEF disableUser
  <2> HIDE DEF r
  <2>3. QED
    BY <1>2, <2>1, <2>2
<1>9. ASSUME NEW c \in Browsers, NEW u \in Users, NEW super \in BOOLEAN, replaceUserRoles(c, u, super)
      PROVE  req'[b] = req[b]
  <2> DEFINE op == IF super THEN "grant" ELSE "withdraw"
             r == [NoReq EXCEPT !.pc = "change", !.who = u, !.op = op]
  <2>1. req' = [req EXCEPT ![c] = r]
    BY <1>9 DEF replaceUserRoles
  <2> HIDE DEF op
  <2>2. r.pc = "change"
    BY DEF NoReq
  <2> HIDE DEF r
  <2>3. QED
    BY <1>2, <2>1, <2>2
<1>10. ASSUME NEW c \in Browsers, registerFailure(c) \/ createSession(c) \/ refused(c) \/ revokeIds(c) \/ changeUser(c)
      PROVE  req'[b] = req[b]
  BY <1>3, <1>10 DEF registerFailure, createSession, refused, revokeIds, changeUser
<1>11. ASSUME NEW c \in Browsers, rotate(c) \/ revokeForReuse(c)
      PROVE  req'[b] = req[b]
  <2>1. CASE req' = [req EXCEPT ![c] = NoReq]
    BY <1>3, <2>1
  <2>2. CASE \E p \in {"reuse", "refused"} : req' = [req EXCEPT ![c].pc = p]
    BY <1>1, <2>2 DEF Requests
  <2>3. QED
    BY <1>11, <2>1, <2>2 DEF rotate, revokeForReuse
<1>12. ASSUME NEW c \in Browsers,
             \/ \E u \in Users : activateUser(c, u)
             \/ (\E s \in DOMAIN sess : logout(c, s)) \/ \E d \in Browsers : openTab(c, d)
      PROVE  req'[b] = req[b]
  BY <1>12 DEF activateUser, logout, openTab
<1>13. ASSUME UNCHANGED admVars \/ \E u \in Users : LockEnds(u)
       PROVE  req'[b] = req[b]
  BY <1>13 DEF admVars, LockEnds
<1>14. QED
  BY <1>4, <1>5, <1>7, <1>8, <1>9, <1>10, <1>11, <1>12, <1>13 DEF AdmNext

\* What pages hold and requests carry stays a dated reading of its user.
LEMMA ProfilesStep ==
  ASSUME Inv, ProfilesDated, [AdmNext]_admVars
  PROVE  ProfilesDated'
<1>1. Inv'
  BY NextInv
<1>2. /\ held \in [Browsers -> Credentials] /\ req \in [Browsers -> Requests]
      /\ Len(sess) \in Nat /\ Len(rtok) \in Nat
      /\ \A s \in 1..Len(sess) : sess[s].owner \in Users
      /\ \A u \in Users : user[u].version \in Nat
  BY Rows DEF Inv, PagesOK, RowsOK, SessionRows, UserRows
<1>3. ASSUME NEW b \in Browsers, held'[b].sess # 0
      PROVE  Dated(held[b].version, held[b].super, sess[held[b].sess].owner)'
  <2>1. held'[b] # Nobody
    BY <1>3, EmptyPage
  <2>2. CASE \E c \in Browsers : held'[b] = held[c]
    <3>1. PICK c \in Browsers : held'[b] = held[c]
      BY <2>2
    <3>2. /\ held[c].sess \in 1..Len(sess) /\ held[c].version \in Nat
          /\ Dated(held[c].version, held[c].super, sess[held[c].sess].owner)
      BY <1>2, <1>3, <3>1 DEF ProfilesDated, Inv, PagesOK, PageOK, Credentials
    <3>3. sess'[held[c].sess].owner = sess[held[c].sess].owner /\ sess[held[c].sess].owner \in Users
      BY <1>2, <3>2, OwnersStay
    <3>4. Dated(held[c].version, held[c].super, sess[held[c].sess].owner)
            => /\ held[c].version <= user'[sess[held[c].sess].owner].version
               /\ held[c].version = user'[sess[held[c].sess].owner].version
                     => (held[c].super <=> user'[sess[held[c].sess].owner].super)
      BY <3>2, <3>3, VersionGuardsRole DEF Dated
    <3>5. QED
      BY <3>1, <3>2, <3>3, <3>4 DEF Dated
  <2>3. ASSUME req[b].pc \in {"open", "claim"}, UNCHANGED <<user>> \/ createSession(b),
               held'[b].version = req[b].version, held'[b].super = req[b].super,
               sess'[held'[b].sess].owner = req[b].who, req[b].who \in Users
        PROVE  Dated(held[b].version, held[b].super, sess[held[b].sess].owner)'
    <3>1. Dated(req[b].version, req[b].super, req[b].who) /\ req[b].version \in Nat
      BY <1>2, <2>3 DEF ProfilesDated, Requests
    <3>2. QED
      BY <2>3, <3>1, VersionGuardsRole DEF Dated
  <2>4. CASE createSession(b)
    <3> DEFINE s == [owner |-> req[b].who, revoked |-> FALSE]
               n == Len(sess) + 1
    <3>1. sess' = Append(sess, s) /\ req[b].pc = "open" /\ req[b].who \in Users /\ s.owner = req[b].who
      BY <2>4 DEF createSession, Inv, PagesOK, PageOK
    <3>2. s \in SessionRows
      BY <3>1 DEF SessionRows
    <3>3. held'[b].sess = n /\ held'[b].version = req[b].version /\ held'[b].super = req[b].super
      <4>1. held' = [held EXCEPT ![b] = [sess |-> n, tok |-> Len(rtok) + 1,
                                         version |-> req[b].version, super |-> req[b].super]]
        BY <2>4 DEF createSession
      <4>2. QED
        BY <1>2, <4>1
    <3> HIDE DEF s
    <3>4. Append(sess, s)[n] = s
      BY <1>2, <3>2, AppendProperties DEF Inv, RowsOK
    <3>5. sess'[held'[b].sess].owner = req[b].who
      BY <3>1, <3>3, <3>4
    <3>6. QED
      BY <2>3, <2>4, <3>1, <3>3, <3>5
  <2>5. CASE rotate(b) /\ Grantable(req[b].n)
    <3>1. req[b].pc = "claim" /\ UNCHANGED <<user, sess>>
      BY <2>5 DEF rotate
    <3>2. req[b].n \in 1..Len(rtok) /\ rtok[req[b].n].session \in 1..Len(sess)
          /\ req[b].who = sess[rtok[req[b].n].session].owner
      BY <3>1 DEF Inv, PagesOK, PageOK, RowsOK, ProfilesDated
    <3>3. held'[b].sess = rtok[req[b].n].session /\ held'[b].version = req[b].version /\ held'[b].super = req[b].super
      <4>1. held' = [held EXCEPT ![b] = [sess |-> rtok[req[b].n].session, tok |-> Len(rtok) + 1,
                                         version |-> req[b].version, super |-> req[b].super]]
        BY <2>5 DEF rotate
      <4>2. QED
        BY <1>2, <4>1
    <3>4. QED
      BY <1>2, <2>3, <3>1, <3>2, <3>3
  <2>6. QED
    BY <2>1, <2>2, <2>4, <2>5, HeldAfter
<1>4. ASSUME NEW b \in Browsers, req'[b].pc \in {"open", "claim"}
      PROVE  /\ Dated(req[b].version, req[b].super, req[b].who)'
             /\ req'[b].pc = "claim" => req'[b].who = sess'[rtok'[req'[b].n].session].owner
  <2>1. CASE req'[b] = req[b]
    <3>1. req[b].pc \in {"open", "claim"} /\ req[b].version \in Nat
      BY <1>2, <1>4, <2>1 DEF Requests
    <3>2. Dated(req[b].version, req[b].super, req[b].who)
      BY <3>1 DEF ProfilesDated
    <3>3. req[b].pc = "claim" => /\ req[b].n \in 1..Len(rtok) /\ rtok[req[b].n].session \in 1..Len(sess)
                                 /\ req[b].who = sess[rtok[req[b].n].session].owner
      BY DEF Inv, PagesOK, PageOK, RowsOK, ProfilesDated
    <3>4. req[b].who \in Users
      BY <1>2, <3>1, <3>3 DEF Inv, PagesOK, PageOK
    <3>5. Dated(req[b].version, req[b].super, req[b].who)'
      BY <2>1, <3>1, <3>2, <3>4, VersionGuardsRole DEF Dated
    <3>6. QED
      BY <2>1, <3>3, <3>5, OwnersStay
  <2>2. CASE req'[b] # req[b]
    <3>1. /\ UNCHANGED <<user, sess, rtok>> /\ req'[b].who \in Users
          /\ req'[b].version = user[req'[b].who].version /\ req'[b].super = user[req'[b].who].super
          /\ req'[b].pc = "claim" => req'[b].who = sess[rtok[req'[b].n].session].owner
      BY <1>4, <2>2, RequestAfter
    <3>2. QED
      BY <1>2, <3>1 DEF Dated
  <2>3. QED
    BY <2>1, <2>2
<1>5. QED
  BY <1>3, <1>4 DEF ProfilesDated

\* A page whose access token is accepted shows the role its user has now: whatever changed
\* between the read of the user and the answer to the page, the version gives it away.
THEOREM AcceptedProfileIsCurrent == AdmSpec => []ProfileIsCurrent
<1>1. AdmInit => ProfilesDated
  <2> SUFFICES ASSUME AdmInit PROVE ProfilesDated
    OBVIOUS
  <2>1. \A b \in Browsers : held[b] = Nobody /\ req[b] = NoReq
    BY DEF AdmInit
  <2>2. QED
    BY <2>1, EmptyPage DEF ProfilesDated
<1>2. Inv /\ ProfilesDated /\ [AdmNext]_admVars => ProfilesDated'
  BY ProfilesStep
<1>3. Inv /\ ProfilesDated => ProfileIsCurrent
  <2> SUFFICES ASSUME Inv, ProfilesDated, NEW b \in Browsers, validate(b)
               PROVE  held[b].super = user[Actor(b)].super
    BY DEF ProfileIsCurrent
  <2>1. held[b].sess # 0 /\ held[b].version = user[Actor(b)].version
    BY DEF validate, Actor
  <2>2. held[b].super <=> user[Actor(b)].super
    BY <2>1 DEF ProfilesDated, Dated, Actor
  <2>3. held[b].super \in BOOLEAN /\ user[Actor(b)].super \in BOOLEAN
    <3>1. held[b] \in Credentials /\ held[b].sess \in 1..Len(sess)
      BY <2>1, Rows DEF Inv, PagesOK, PageOK
    <3>2. user[Actor(b)] \in UserRows
      BY <3>1, Rows DEF Inv, RowsOK, SessionRows, Actor
    <3>3. QED
      BY <3>1, <3>2 DEF Credentials, UserRows
  <2>4. QED
    BY <2>2, <2>3
<1>4. QED
  BY <1>1, <1>2, <1>3, InvAlways, PTL DEF AdmSpec

--------------------------------------------------------------------------------
(***************************************************************************)
(* The last SUPERADMIN.  The guards of the users controller are asked      *)
(* before its transaction; as long as no two of them overlap, what a guard *)
(* found is still so when its transaction runs.                            *)
(***************************************************************************)

\* Everything but the users controller's transactions leaves the active SUPERADMINs there.
LEMMA SuperadminsKept ==
  ASSUME Inv, [AdmNext]_admVars, \A b \in Browsers : ~changeUser(b)
  PROVE  /\ ActiveSuperadmins \subseteq ActiveSuperadmins'
         /\ \A u \in Users : user'[u].super <=> user[u].super
         /\ overlapped' = overlapped
<1>1. user \in [Users -> UserRows]
  BY DEF Inv, RowsOK
<1>2. CASE UNCHANGED <<user, overlapped>>
  BY <1>2 DEF ActiveSuperadmins
<1>3. ASSUME NEW w, NEW f, NEW l, user' = [user EXCEPT ![w].fails = f, ![w].locked = l], UNCHANGED overlapped
      PROVE  /\ ActiveSuperadmins \subseteq ActiveSuperadmins'
             /\ \A u \in Users : user'[u].super <=> user[u].super
             /\ overlapped' = overlapped
  BY <1>1, <1>3 DEF ActiveSuperadmins, UserRows
<1>4. CASE \E b \in Browsers : registerFailure(b) \/ createSession(b)
  <2>1. PICK b \in Browsers : registerFailure(b) \/ createSession(b)
    BY <1>4
  <2>2. CASE registerFailure(b)
    BY <1>3, <2>2 DEF registerFailure
  <2>3. CASE createSession(b)
    BY <1>3, <2>3 DEF createSession
  <2>4. QED
    BY <2>1, <2>2, <2>3
<1>5. CASE \E u \in Users : LockEnds(u)
  BY <1>1, <1>5 DEF LockEnds, ActiveSuperadmins, UserRows
<1>6. CASE \E b \in Browsers, u \in Users : activateUser(b, u)
  <2>1. PICK w \in Users : user' = [user EXCEPT ![w].status = "ACTIVE", ![w].version = @ + 1,
                                                ![w].fails = 0, ![w].locked = FALSE]
    BY <1>6 DEF activateUser
  <2>2. UNCHANGED overlapped
    BY <1>6 DEF activateUser
  <2>3. QED
    BY <1>1, <2>1, <2>2 DEF ActiveSuperadmins, UserRows
<1>7. ASSUME NEW b \in Browsers, NEW u \in Users,
             \/ login(b, u) \/ revokeUserSessions(b, u) \/ disableUser(b, u)
             \/ \E super \in BOOLEAN : replaceUserRoles(b, u, super)
      PROVE  UNCHANGED <<user, overlapped>>
  BY <1>7 DEF login, revokeUserSessions, disableUser, replaceUserRoles
<1>8. ASSUME NEW b \in Browsers,
             \/ refresh(b) \/ rotate(b) \/ revokeForReuse(b) \/ refused(b) \/ revokeOthers(b) \/ revokeIds(b)
             \/ (\E s \in DOMAIN sess : logout(b, s)) \/ \E c \in Browsers : openTab(b, c)
      PROVE  UNCHANGED <<user, overlapped>>
  BY <1>8 DEF refresh, rotate, revokeForReuse, refused, revokeOthers, revokeIds, logout, openTab
<1>9. ASSUME UNCHANGED admVars
      PROVE  UNCHANGED <<user, overlapped>>
  BY <1>9 DEF admVars
<1>10. QED
  BY <1>2, <1>4, <1>5, <1>6, <1>7, <1>8, <1>9 DEF AdmNext

\* A request that waits for its transaction was waiting, or its guard was just asked.
LEMMA ChangeAfter ==
  ASSUME Inv, [AdmNext]_admVars, NEW b \in Browsers, req'[b].pc = "change"
  PROVE  \/ req'[b] = req[b]
         \/ /\ UNCHANGED user /\ req'[b].who \in Users
            /\ req'[b].op # "grant" => ~LastSuperadmin(req'[b].who)
<1>1. req \in [Browsers -> Requests]
  BY DEF Inv, PagesOK
<1>2. ASSUME NEW c \in Browsers, NEW r, req' = [req EXCEPT ![c] = r], r.pc # "change"
      PROVE  req'[b] = req[b]
  BY <1>1, <1>2
<1>3. ASSUME NEW c \in Browsers, req' = [req EXCEPT ![c] = NoReq]
      PROVE  req'[b] = req[b]
  BY <1>2, <1>3, EmptyPage
<1>4. ASSUME NEW c \in Browsers, NEW u \in Users, login(c, u)
      PROVE  req'[b] = req[b]
  <2>1. CASE req' = [req EXCEPT ![c] = [NoReq EXCEPT !.pc = "failure", !.who = u, !.n = user[u].fails]]
    <3> DEFINE r == [NoReq EXCEPT !.pc = "failure", !.who = u, !.n = user[u].fails]
    <3>1. r.pc = "failure"
      BY DEF NoReq
    <3>2. req' = [req EXCEPT ![c] = r]
      BY <2>1
    <3> HIDE DEF r
    <3>3. QED
      BY <1>2, <3>1, <3>2
  <2>2. CASE req' = [req EXCEPT ![c] = [NoReq EXCEPT !.pc = "open", !.who = u,
                                        !.version = user[u].version, !.super = user[u].super]]
    <3> DEFINE r == [NoReq EXCEPT !.pc = "open", !.who = u, !.version = user[u].version, !.super = user[u].super]
    <3>1. r.pc = "open"
      BY DEF NoReq
    <3>2. req' = [req EXCEPT ![c] = r]
      BY <2>2
    <3> HIDE DEF r
    <3>3. QED
      BY <1>2, <3>1, <3>2
  <2>3. QED
    BY <1>4, <2>1, <2>2 DEF login
<1>5. ASSUME NEW c \in Browsers, refresh(c)
      PROVE  req'[b] = req[b]
  <2> DEFINE i == held[c].tok
             s == sess[rtok[i].session]
             u == user[s.owner]
             p == IF rtok[i].used THEN "reuse"
                  ELSE IF rtok[i].revoked \/ s.revoked \/ u.status # "ACTIVE" THEN "refused" ELSE "claim"
             r == [NoReq EXCEPT !.n = i, !.who = s.owner, !.version = u.version, !.super = u.super, !.pc = p]
  <2>1. req' = [req EXCEPT ![c] = r]
    BY <1>5 DEF refresh
  <2>2. p # "change"
    OBVIOUS
  <2> HIDE DEF p, u, s, i
  <2>3. r.pc = p
    BY DEF NoReq
  <2> HIDE DEF r
  <2>4. QED
    BY <1>2, <2>1, <2>2, <2>3
<1>6. ASSUME NEW c \in Browsers, NEW ids, req' = [req EXCEPT ![c] = [NoReq EXCEPT !.pc = "ids", !.ids = ids]]
      PROVE  req'[b] = req[b]
  <2> DEFINE r == [NoReq EXCEPT !.pc = "ids", !.ids = ids]
  <2>1. r.pc = "ids"
    BY DEF NoReq
  <2>2. req' = [req EXCEPT ![c] = r]
    BY <1>6
  <2> HIDE DEF r
  <2>3. QED
    BY <1>2, <2>1, <2>2
<1>7. ASSUME NEW c \in Browsers, revokeOthers(c) \/ \E u \in Users : revokeUserSessions(c, u)
      PROVE  req'[b] = req[b]
  BY <1>6, <1>7 DEF revokeOthers, revokeUserSessions
<1>8. ASSUME NEW c \in Browsers, NEW u \in Users, NEW r, req' = [req EXCEPT ![c] = r], r.who = u,
             r.op # "grant" => ~LastSuperadmin(u), UNCHANGED user
      PROVE  \/ req'[b] = req[b]
             \/ /\ UNCHANGED user /\ req'[b].who \in Users
                /\ req'[b].op # "grant" => ~LastSuperadmin(req'[b].who)
  BY <1>1, <1>8
<1>9. ASSUME NEW c \in Browsers, NEW u \in Users, disableUser(c, u)
      PROVE  \/ req'[b] = req[b]
             \/ /\ UNCHANGED user /\ req'[b].who \in Users
                /\ req'[b].op # "grant" => ~LastSuperadmin(req'[b].who)
  <2> DEFINE r == [NoReq EXCEPT !.pc = "change", !.op = "disable", !.who = u]
  <2>1. r.who = u
    BY DEF NoReq
  <2>2. req' = [req EXCEPT ![c] = r]
    BY <1>9 DEF disableUser
  <2>3. ~LastSuperadmin(u) /\ UNCHANGED user
    BY <1>9 DEF disableUser
  <2> HIDE DEF r
  <2>4. QED
    BY <1>8, <2>1, <2>2, <2>3
<1>10. ASSUME NEW c \in Browsers, NEW u \in Users, NEW super \in BOOLEAN, replaceUserRoles(c, u, super)
       PROVE  \/ req'[b] = req[b]
              \/ /\ UNCHANGED user /\ req'[b].who \in Users
                 /\ req'[b].op # "grant" => ~LastSuperadmin(req'[b].who)
  <2> DEFINE op == IF super THEN "grant" ELSE "withdraw"
             r == [NoReq EXCEPT !.pc = "change", !.who = u, !.op = op]
  <2>1. req' = [req EXCEPT ![c] = r]
    BY <1>10 DEF replaceUserRoles
  <2>2. (op # "grant" => ~LastSuperadmin(u)) /\ UNCHANGED user
    BY <1>10 DEF replaceUserRoles
  <2> HIDE DEF op
  <2>3. r.who = u /\ r.op = op
    BY DEF NoReq
  <2> HIDE DEF r
  <2>4. QED
    BY <1>8, <2>1, <2>2, <2>3
<1>11. ASSUME NEW c \in Browsers, registerFailure(c) \/ createSession(c) \/ refused(c) \/ revokeIds(c) \/ changeUser(c)
       PROVE  req'[b] = req[b]
  BY <1>3, <1>11 DEF registerFailure, createSession, refused, revokeIds, changeUser
<1>12. ASSUME NEW c \in Browsers, rotate(c) \/ revokeForReuse(c)
       PROVE  req'[b] = req[b]
  <2>1. CASE req' = [req EXCEPT ![c] = NoReq]
    BY <1>3, <2>1
  <2>2. CASE \E p \in {"reuse", "refused"} : req' = [req EXCEPT ![c].pc = p]
    BY <1>1, <2>2 DEF Requests
  <2>3. QED
    BY <1>12, <2>1, <2>2 DEF rotate, revokeForReuse
<1>13. ASSUME NEW c \in Browsers,
              \/ \E u \in Users : activateUser(c, u)
              \/ (\E s \in DOMAIN sess : logout(c, s)) \/ \E d \in Browsers : openTab(c, d)
       PROVE  req'[b] = req[b]
  BY <1>13 DEF activateUser, logout, openTab
<1>14. ASSUME UNCHANGED admVars \/ \E u \in Users : LockEnds(u)
       PROVE  req'[b] = req[b]
  BY <1>14 DEF admVars, LockEnds
<1>15. QED
  BY <1>4, <1>5, <1>7, <1>9, <1>10, <1>11, <1>12, <1>13, <1>14 DEF AdmNext

\* The invariant of the guards, step by step.
LEMMA SomebodyStaysStep ==
  ASSUME Inv, SomebodyStays, [AdmNext]_admVars
  PROVE  SomebodyStays'
<1>1. CASE \A b \in Browsers : ~changeUser(b)
  <2> SUFFICES ASSUME ~overlapped' PROVE SomebodyStays'
    BY DEF SomebodyStays
  <2>1. /\ ActiveSuperadmins \subseteq ActiveSuperadmins' /\ ActiveSuperadmins # {}
        /\ \A u \in Users : user'[u].super <=> user[u].super
        /\ \A b \in Browsers : req[b].pc = "change" /\ req[b].op # "grant" => ~LastSuperadmin(req[b].who)
    BY <1>1, SuperadminsKept DEF SomebodyStays
  <2>2. \A u \in Users : ~LastSuperadmin(u) => ~LastSuperadmin(u)'
    BY <2>1 DEF LastSuperadmin
  <2>3. ASSUME NEW b \in Browsers, req'[b].pc = "change", req'[b].op # "grant"
        PROVE  ~LastSuperadmin(req[b].who)'
    <3>1. CASE req'[b] = req[b]
      BY <2>1, <2>2, <2>3, <3>1 DEF Inv, PagesOK, PageOK
    <3>2. CASE req'[b] # req[b]
      <4>1. UNCHANGED user /\ req'[b].who \in Users /\ ~LastSuperadmin(req'[b].who)
        BY <2>3, <3>2, ChangeAfter
      <4>2. QED
        BY <4>1 DEF LastSuperadmin, ActiveSuperadmins
    <3>3. QED
      BY <3>1, <3>2
  <2>4. QED
    BY <2>1, <2>3 DEF SomebodyStays
<1>2. ASSUME NEW b \in Browsers, changeUser(b)
      PROVE  SomebodyStays'
  <2> SUFFICES ASSUME ~overlapped' PROVE SomebodyStays'
    BY DEF SomebodyStays
  <2>1. ~overlapped /\ \A c \in Browsers \ {b} : req[c].pc # "change"
    BY <1>2 DEF changeUser
  <2>2. \A c \in Browsers : req'[c].pc # "change"
    <3>1. req' = [req EXCEPT ![b] = NoReq]
      BY <1>2 DEF changeUser
    <3>2. QED
      BY <2>1, <3>1, EmptyPage DEF Inv, PagesOK
  <2>3. ActiveSuperadmins' # {}
    <3> DEFINE u == req[b].who
               super == (req[b].op = "grant") \/ (req[b].op = "disable" /\ user[u].super)
               status == IF req[b].op = "disable" THEN "DISABLED" ELSE user[u].status
    <3>1. user' = [user EXCEPT ![u].super = super, ![u].status = status, ![u].version = @ + 1]
      BY <1>2 DEF changeUser
    <3>2. /\ u \in Users /\ user \in [Users -> UserRows]
          /\ req[b].pc = "change" /\ req[b] \in Requests
      BY <1>2 DEF changeUser, Inv, RowsOK, PagesOK, PageOK
    <3>3. ActiveSuperadmins # {} /\ (req[b].op # "grant" => ~LastSuperadmin(u))
      BY <2>1, <3>2 DEF SomebodyStays
    <3>4. (req[b].op = "grant") => super /\ status = user[u].status
      OBVIOUS
    <3> HIDE DEF super, status
    <3>5. /\ \A v \in Users \ {u} : v \in ActiveSuperadmins => v \in ActiveSuperadmins'
          /\ user'[u].super = super /\ user'[u].status = status
      BY <3>1, <3>2 DEF ActiveSuperadmins, UserRows
    <3>6. CASE req[b].op = "grant"
      BY <3>2, <3>3, <3>4, <3>5, <3>6 DEF ActiveSuperadmins
    <3>7. CASE req[b].op # "grant"
      BY <3>3, <3>5, <3>7 DEF LastSuperadmin, ActiveSuperadmins
    <3>8. QED
      BY <3>6, <3>7
  <2>4. QED
    BY <2>2, <2>3 DEF SomebodyStays
<1>3. QED
  BY <1>1, <1>2

\* As long as no two changes of users overlap, an active SUPERADMIN remains, whatever the
\* changes are.
THEOREM SuperadminAlwaysRemains == AdmSpec => []SuperadminRemains
<1>1. AdmInit => SomebodyStays
  <2> SUFFICES ASSUME AdmInit PROVE SomebodyStays
    OBVIOUS
  <2>1. \A b \in Browsers : req[b].pc = "idle"
    BY EmptyPage DEF AdmInit
  <2>2. PICK s \in SUBSET Users :
          /\ s # {}
          /\ user = [u \in Users |-> [status |-> "ACTIVE", version |-> 1, super |-> u \in s,
                                      fails |-> 0, locked |-> FALSE]]
    BY DEF AdmInit
  <2>3. \A u \in s : user[u].status = "ACTIVE" /\ user[u].super
    BY <2>2
  <2>4. ActiveSuperadmins # {}
    BY <2>2, <2>3 DEF ActiveSuperadmins
  <2>5. QED
    BY <2>1, <2>4 DEF SomebodyStays
<1>2. Inv /\ SomebodyStays /\ [AdmNext]_admVars => SomebodyStays'
  BY SomebodyStaysStep
<1>3. SomebodyStays => SuperadminRemains
  BY DEF SomebodyStays, SuperadminRemains
<1>4. QED
  BY <1>1, <1>2, <1>3, InvAlways, PTL DEF AdmSpec

================================================================================
