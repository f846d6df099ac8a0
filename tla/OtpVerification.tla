---------------------------- MODULE OtpVerification ----------------------------
(***************************************************************************)
(* One-time passwords of otp.service.ts and the sign-in page that asks for *)
(* them.  One customer, one purpose: the mobile number (sign-in) or her    *)
(* e-mail addresses (verification).  A tab has at most one request in      *)
(* flight (isSubmitting); requests of different tabs interleave between    *)
(* the queries of a handler.  The fixed code of the app-store test number  *)
(* is left out.                                                            *)
(***************************************************************************)
EXTENDS Naturals, Sequences, FiniteSets

CONSTANTS
  Tabs,          \* browser tabs of the customer
  Emails,        \* e-mail addresses she may enter
  MaxOtps,       \* bound: OtpSession rows
  MaxTries,      \* OTP_MAX_ATTEMPTS
  Arrivals       \* sets of channels a visit to the site can carry

ASSUME OtpAssumption == MaxOtps \in Nat /\ MaxTries \in Nat \ {0}

VARIABLES
  purpose,       \* MOBILE_VERIFICATION or EMAIL_VERIFICATION
  otps,          \* the OtpSession rows in order of creation
  tab,           \* per tab: the page's step and the request in flight
  customer,      \* accountStatus, verified e-mail, first and last touch, referral mapping
  signIns        \* CustomerSession rows created, by the row that was verified

otpVars == <<purpose, otps, tab, customer, signIns>>

Targets == IF purpose = "MOBILE" THEN {"mobile"} ELSE Emails
Rows == DOMAIN otps
Live(o) == ~o.verified /\ ~o.dead
Idle(t) == tab[t].pc = "idle"
\* The page of a tab with nothing in flight.
Page(step) == [step |-> step, pc |-> "idle", target |-> "none", row |-> 0, tries |-> 0, right |-> FALSE]

Sources == {"WEBSITE", "RM", "PARTNER", "REFERRAL", "GOOGLE", "META", "MARKETING", "ORGANIC", "OTHER"}
\* The order in which resolveAcquisitionSource() asks for the channels.
Priority == <<"RM", "PARTNER", "REFERRAL", "GOOGLE", "META", "MARKETING", "ORGANIC", "OTHER">>

\* The first channel of the list whose marks the visit carries, WEBSITE when none does.
resolveAcquisitionSource(visit) ==
  LET hits == {i \in DOMAIN Priority : Priority[i] \in visit}
  IN IF hits = {} THEN "WEBSITE"
     ELSE Priority[CHOOSE i \in hits : \A j \in hits : i <= j]

\* First touch is written once; an unassigned WEBSITE first touch is filled later; any
\* other visit with marks replaces the last touch.
recordCustomerAttribution(c, visit) ==
  LET source == resolveAcquisitionSource(visit)
  IN IF c.first = "none" \/ (c.first = "WEBSITE" /\ source # "WEBSITE")
     THEN [c EXCEPT !.first = source]
     ELSE IF source # "WEBSITE" THEN [c EXCEPT !.last = source] ELSE c

\* The mapping is written on another connection than the transaction that creates the
\* customer: it needs a row committed before, and any error is swallowed.
recordReferralRegistration(c, visit) ==
  IF "REFERRAL" \in visit /\ c.account # "none" /\ ~c.referred
  THEN {c, [c EXCEPT !.referred = TRUE]}
  ELSE {c}

OtpInit ==
  /\ purpose \in {"MOBILE", "EMAIL"}
  /\ otps = <<>>
  /\ tab = [t \in Tabs |-> Page("MOBILE")]
  /\ customer = [account |-> IF purpose = "EMAIL" THEN "ACTIVE" ELSE "none", email |-> "none",
                 first |-> "none", last |-> "none", referred |-> FALSE]
  /\ signIns = <<>>

\* No row of this target was sent within OTP_RESEND_SECONDS.
enforceResendCooldown(target) ==
  \A i \in Rows : otps[i].target = target => otps[i].clock # "cooling"

\* sendEmailOtp() (sendMobileOtp() alike) up to its last check: blocked account, an address
\* that is verified already, the cooldown.
sendEmailOtp(target) ==
  /\ customer.account # "BLOCKED"
  /\ customer.email # target
  /\ enforceResendCooldown(target)

\* handleOtpRequest() and handleResendOtp() of the page.
handleOtpRequest(t, target) ==
  /\ Idle(t)
  /\ target \in Targets
  /\ sendEmailOtp(target)
  /\ Len(otps) < MaxOtps
  /\ tab' = [tab EXCEPT ![t].pc = "invalidate", ![t].target = target]
  /\ UNCHANGED <<purpose, otps, customer, signIns>>

\* updateMany() over every live row of the customer and purpose, whatever the address.
invalidateActiveSessions(t) ==
  /\ tab[t].pc = "invalidate"
  /\ otps' = [i \in Rows |-> [otps[i] EXCEPT !.dead = @ \/ Live(otps[i])]]
  /\ tab' = [tab EXCEPT ![t].pc = "create"]
  /\ UNCHANGED <<purpose, customer, signIns>>

createOtpSession(t) ==
  /\ tab[t].pc = "create"
  /\ Len(otps) < MaxOtps
  /\ otps' = Append(otps, [target |-> tab[t].target, attempts |-> 0, verified |-> FALSE,
                           dead |-> FALSE, clock |-> "cooling", sent |-> "sending"])
  /\ tab' = [tab EXCEPT ![t].pc = "sending", ![t].row = Len(otps) + 1]
  /\ UNCHANGED <<purpose, customer, signIns>>

\* The gateway answers in time: the page shows the code boxes, or the row is invalidated.
sendOtp(t) ==
  /\ tab[t].pc = "sending"
  /\ \E ok \in BOOLEAN :
       /\ otps' = [otps EXCEPT ![tab[t].row].sent = IF ok THEN "sent" ELSE "failed",
                               ![tab[t].row].dead = @ \/ ~ok]
       /\ tab' = [tab EXCEPT ![t] = Page(IF ok THEN "OTP" ELSE @.step)]
  /\ UNCHANGED <<purpose, customer, signIns>>

\* The SMTP handshake takes longer than the deadline: success is answered, the send goes on.
raceWithDeadline(t) ==
  /\ tab[t].pc = "sending"
  /\ purpose = "EMAIL"
  /\ otps' = [otps EXCEPT ![tab[t].row].sent = "background"]
  /\ tab' = [tab EXCEPT ![t] = Page("OTP")]
  /\ UNCHANGED <<purpose, customer, signIns>>

backgroundSend(i) ==
  /\ otps[i].sent = "background"
  /\ \E ok \in BOOLEAN :
       otps' = [otps EXCEPT ![i].sent = IF ok THEN "sent" ELSE "failed", ![i].dead = @ \/ ~ok]
  /\ UNCHANGED <<purpose, tab, customer, signIns>>

\* Mutant: the address is not part of the query.
ActiveRowsAnyAddress(target) == {i \in Rows : Live(otps[i])}

\* The rows findFirst() ranges over: verified and invalidated ones and those of another
\* address are left out, expired ones are not.
ActiveRows(target) == {i \in Rows : otps[i].target = target /\ Live(otps[i])}
getActiveOtpSession(target) ==
  CHOOSE i \in ActiveRows(target) : \A j \in ActiveRows(target) : j <= i

\* The reads of verifyMobileOtp() and verifyEmailOtp(): the newest active row is copied; the
\* digits typed are the ones this row was sent with, or not.
readOtpSession(t, target, right) ==
  /\ ActiveRows(target) # {}
  /\ purpose = "EMAIL" => customer.account # "BLOCKED"
  /\ LET i == getActiveOtpSession(target)
     IN tab' = [tab EXCEPT ![t].pc = "validate", ![t].target = target, ![t].row = i,
                           ![t].tries = otps[i].attempts, ![t].right = right]

\* handleOtpVerification() of the page: all six boxes are filled.
handleOtpVerification(t, target, right) ==
  /\ Idle(t)
  /\ tab[t].step = "OTP"
  /\ target \in Targets
  /\ readOtpSession(t, target, right)
  /\ UNCHANGED <<purpose, otps, customer, signIns>>

\* validateOtpSession() on the copy: expiry and the attempt limit invalidate the row; a
\* wrong code writes the copied count plus one and clears or sets invalidatedAt.
validateOtpSession(t) ==
  LET i == tab[t].row
      next == tab[t].tries + 1
  IN /\ tab[t].pc = "validate"
     /\ \/ /\ otps[i].clock = "expired" \/ tab[t].tries >= MaxTries
           /\ otps' = [otps EXCEPT ![i].dead = TRUE]
           /\ tab' = [tab EXCEPT ![t] = Page("OTP")]
        \/ /\ otps[i].clock # "expired" /\ tab[t].tries < MaxTries
           /\ tab[t].right
           /\ tab' = [tab EXCEPT ![t].pc = "commit"]
           /\ UNCHANGED otps
        \/ /\ otps[i].clock # "expired" /\ tab[t].tries < MaxTries
           /\ ~tab[t].right
           /\ otps' = [otps EXCEPT ![i].attempts = next, ![i].dead = next >= MaxTries]
           /\ tab' = [tab EXCEPT ![t] = Page("OTP")]
     /\ UNCHANGED <<purpose, customer, signIns>>

\* Both transactions: the row is verified by id, every other live row is invalidated.
consumeOtp(i, tries) ==
  otps' = [j \in Rows |-> IF j = i
                          THEN [otps[j] EXCEPT !.verified = TRUE, !.attempts = tries + 1]
                          ELSE [otps[j] EXCEPT !.dead = @ \/ Live(otps[j])]]

\* The transaction of verifyMobileOtp(): a blocked account stops it; otherwise the customer,
\* her attribution and a session with its refresh token are written.
verifyMobileOtp(t) ==
  /\ tab[t].pc = "commit"
  /\ purpose = "MOBILE"
  /\ tab' = [tab EXCEPT ![t] = Page("MOBILE")]
  /\ \/ /\ customer.account = "BLOCKED"
        /\ UNCHANGED <<otps, customer, signIns>>
     \/ /\ customer.account # "BLOCKED"
        /\ \E visit \in Arrivals :
             \E c \in recordReferralRegistration(customer, visit) :
               customer' = [recordCustomerAttribution(c, visit) EXCEPT !.account = "ACTIVE"]
        /\ consumeOtp(tab[t].row, tab[t].tries)
        /\ signIns' = Append(signIns, tab[t].row)
  /\ UNCHANGED purpose

verifyEmailOtp(t) ==
  /\ tab[t].pc = "commit"
  /\ purpose = "EMAIL"
  /\ consumeOtp(tab[t].row, tab[t].tries)
  /\ customer' = [customer EXCEPT !.email = tab[t].target]
  /\ tab' = [tab EXCEPT ![t] = Page("MOBILE")]
  /\ UNCHANGED <<purpose, signIns>>

\* "Change number": the page goes back, nothing is sent.
handleChangeMobileNumber(t) ==
  /\ Idle(t) /\ tab[t].step = "OTP"
  /\ tab' = [tab EXCEPT ![t] = Page("MOBILE")]
  /\ UNCHANGED <<purpose, otps, customer, signIns>>

\* The resend cooldown, then the expiry of a row pass.
OtpClock(i) ==
  /\ otps[i].clock # "expired"
  /\ otps' = [otps EXCEPT ![i].clock = IF @ = "cooling" THEN "open" ELSE "expired"]
  /\ UNCHANGED <<purpose, tab, customer, signIns>>

\* An account is blocked in the database; no code path of the application does it.
BlockAccount ==
  /\ customer.account = "ACTIVE"
  /\ customer' = [customer EXCEPT !.account = "BLOCKED"]
  /\ UNCHANGED <<purpose, otps, tab, signIns>>

OtpNext ==
  \/ \E t \in Tabs :
       \/ \E target \in Targets : handleOtpRequest(t, target)
       \/ invalidateActiveSessions(t) \/ createOtpSession(t) \/ sendOtp(t) \/ raceWithDeadline(t)
       \/ \E target \in Targets, right \in BOOLEAN : handleOtpVerification(t, target, right)
       \/ validateOtpSession(t) \/ verifyMobileOtp(t) \/ verifyEmailOtp(t)
       \/ handleChangeMobileNumber(t)
  \/ \E i \in Rows : backgroundSend(i) \/ OtpClock(i)
  \/ BlockAccount

OtpSpec == OtpInit /\ [][OtpNext]_otpVars

--------------------------------------------------------------------------------
\* Types of the rows, the tabs and the customer.
OtpTypeOK ==
  /\ purpose \in {"MOBILE", "EMAIL"}
  /\ otps \in Seq([target : {"mobile"} \cup Emails, attempts : 0..MaxTries + 1, verified : BOOLEAN,
                   dead : BOOLEAN, clock : {"cooling", "open", "expired"},
                   sent : {"sending", "sent", "background", "failed"}])
  /\ Len(otps) <= MaxOtps
  /\ tab \in [Tabs -> [step : {"MOBILE", "OTP"},
                       pc : {"idle", "invalidate", "create", "sending", "validate", "commit"},
                       target : {"none", "mobile"} \cup Emails, row : 0..MaxOtps,
                       tries : 0..MaxTries + 1, right : BOOLEAN]]
  /\ customer \in [account : {"none", "ACTIVE", "BLOCKED"}, email : {"none"} \cup Emails,
                   first : {"none"} \cup Sources, last : {"none"} \cup Sources, referred : BOOLEAN]
  /\ signIns \in Seq(1..MaxOtps)

\* The code the customer was told about last can be entered: the newest row that did go out
\* is live unless it expired, ran out of attempts, was used, gave way to a verification of
\* another row, or a further send is between its invalidation and its insert.
NewestCodeLive ==
  LET n == Len(otps)
  IN n > 0 => \/ Live(otps[n])
              \/ otps[n].sent = "failed" \/ otps[n].clock = "expired"
              \/ otps[n].attempts >= MaxTries
              \/ \E i \in Rows : otps[i].verified
              \/ \E t \in Tabs : tab[t].pc = "create"

\* An account blocked at any moment before the verification transaction opens no session:
\* the transaction reads the status again.
BlockedOpensNoSession ==
  [][signIns' # signIns => customer.account # "BLOCKED"]_otpVars

\* A first touch that names a channel is never replaced by a later sign-in.
FirstTouchKept ==
  [][customer.first \notin {"none", "WEBSITE"} => customer'.first = customer.first]_otpVars

\* The address stored as verified is one whose own code was entered, however the two
\* addresses' codes were requested and typed.
VerifiedEmailProven ==
  customer.email # "none" => \E i \in Rows : otps[i].verified /\ otps[i].target = customer.email
================================================================================
