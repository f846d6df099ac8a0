------------------------- MODULE CustomerJourneyProofs -------------------------
(***************************************************************************)
(* The customer's way through the two journeys: one application at a time  *)
(* up to the lender's decision (ApplicationJourney), a bank statement that *)
(* counts only with evidence behind it (BankStatement), a mandate that is  *)
(* counted only when the bank authorised one (PostApproval), and a PAN     *)
(* number and an e-mail address that are verified only when they were      *)
(* (PanVerification, OtpVerification): there the write comes several calls *)
(* after the evidence, so the invariant says what a call under way has.    *)
(***************************************************************************)
EXTENDS ApplicationJourney, PostApproval, BankStatement, PanVerification, OtpVerification,
        SequenceTheorems, FiniteSetTheorems, WellFoundedInduction, TLAPS

--------------------------------------------------------------------------------
(* Applications.                                                            *)

AppRow == [status: JnStatuses, emp: BOOLEAN, live: BOOLEAN, kyc: BOOLEAN, perm: BOOLEAN,
           curr: BOOLEAN, aa: BOOLEAN, consents: BOOLEAN, event: {"sent", "FAILED", "replayed"}]

\* A table of applications with one active application at most.
OneActiveIn(apps) ==
  /\ apps \in Seq(AppRow)
  /\ \A i, j \in 1..Len(apps) :
       i # j => ~(apps[i].status \in ActiveAnywhere /\ apps[j].status \in ActiveAnywhere)

\* An update of a row that is not there changes nothing.
LEMMA NoSuchRow ==
  ASSUME NEW apps \in Seq(AppRow), NEW n, n \notin 1..Len(apps), NEW row
  PROVE  [apps EXCEPT ![n] = row] = apps
<1>1. DOMAIN apps = 1..Len(apps) /\ apps = [i \in DOMAIN apps |-> apps[i]]
  BY LenProperties
<1>2. [apps EXCEPT ![n] = row] = [i \in DOMAIN apps |-> apps[i]]
  BY <1>1
<1>3. QED
  BY <1>1, <1>2

\* The update of one application keeps one active, unless it revives that one.
LEMMA OneUpdated ==
  ASSUME NEW apps, OneActiveIn(apps), NEW n, NEW row,
         n \in 1..Len(apps) =>
           row \in AppRow /\ (row.status \in ActiveAnywhere => apps[n].status \in ActiveAnywhere)
  PROVE  OneActiveIn([apps EXCEPT ![n] = row]) /\ Len([apps EXCEPT ![n] = row]) = Len(apps)
<1> DEFINE new == [apps EXCEPT ![n] = row]
<1>1. CASE n \in 1..Len(apps)
  <2>1. /\ new \in Seq(AppRow) /\ Len(new) = Len(apps)
        /\ \A i \in 1..Len(apps) : new[i] = IF i = n THEN row ELSE apps[i]
    BY <1>1, ExceptSeq DEF OneActiveIn
  <2> HIDE DEF new
  <2>2. \A i \in 1..Len(apps) : new[i].status \in ActiveAnywhere => apps[i].status \in ActiveAnywhere
    BY <1>1, <2>1
  <2>3. QED
    BY <2>1, <2>2 DEF OneActiveIn, new
<1>2. CASE n \notin 1..Len(apps)
  BY <1>2, NoSuchRow DEF OneActiveIn
<1>3. QED
  BY <1>1, <1>2

\* A row of the table, when there is one.
LEMMA RowOf ==
  ASSUME NEW apps, OneActiveIn(apps), NEW n \in 1..Len(apps)
  PROVE  apps[n] \in AppRow
  BY ElementOfSeq DEF OneActiveIn

\* findById() takes over the KYC of an earlier application and no status.
LEMMA KycKeepsOne == ASSUME NEW apps, OneActiveIn(apps) PROVE OneActiveIn(withKyc(apps))
<1> DEFINE n == Len(apps)
<1> DEFINE row == [apps[n] EXCEPT !.kyc = TRUE]
<1>1. n \in 1..n => row \in AppRow /\ row.status = apps[n].status
  BY RowOf DEF AppRow
<1>2. withKyc(apps) = [apps EXCEPT ![n] = row] \/ withKyc(apps) = apps
  BY DEF withKyc
<1> HIDE DEF row
<1>3. QED
  BY <1>1, <1>2, OneUpdated

\* saveApplicationAddress() writes the addresses of the latest application.
LEMMA AddressKeepsOne == ASSUME NEW apps, OneActiveIn(apps) PROVE OneActiveIn(saveCurrent(apps))
<1> DEFINE n == Len(apps)
<1> DEFINE found == (\E i \in 1..n : apps[i].perm) \/ jnCust.residence
<1> DEFINE row == [apps[n] EXCEPT !.perm = @ \/ found, !.curr = TRUE]
<1>1. n \in 1..n => row \in AppRow /\ row.status = apps[n].status
  <2> HIDE DEF found
  <2>1. QED
    BY RowOf DEF AppRow
<1>2. saveCurrent(apps) = [apps EXCEPT ![n] = row]
  <2>1. saveCurrent(apps) = [apps EXCEPT ![n].perm = @ \/ found, ![n].curr = TRUE]
    BY DEF saveCurrent
  <2>2. apps \in [1..n -> AppRow]
    BY LenProperties DEF OneActiveIn
  <2> HIDE DEF found
  <2>3. QED
    BY <2>1, <2>2
<1> HIDE DEF row, found
<1>3. OneActiveIn([apps EXCEPT ![n] = row])
  BY <1>1, OneUpdated
<1>4. QED
  BY <1>2, <1>3, Zenon

\* createOrResumeApplication() creates an application only where none is active.
LEMMA CreateKeepsOne == ASSUME OneActiveIn(jnApps) PROVE OneActiveIn(createOrResumeApplication)
<1>1. CASE createOrResumeApplication = jnApps
  BY <1>1
<1>2. CASE createOrResumeApplication # jnApps
  <2>1. /\ createOrResumeApplication = Append(jnApps, NewApp)
        /\ \A i \in 1..Len(jnApps) : jnApps[i].status \notin ActiveAnywhere
    BY <1>2 DEF createOrResumeApplication, ActiveStatuses, ActiveAnywhere, JnNow
  <2>2. NewApp \in AppRow
    BY DEF NewApp, AppRow, JnStatuses
  <2>3. /\ Append(jnApps, NewApp) \in Seq(AppRow)
        /\ Len(Append(jnApps, NewApp)) = Len(jnApps) + 1 /\ Len(jnApps) \in Nat
        /\ \A i \in 1..Len(jnApps) : Append(jnApps, NewApp)[i] = jnApps[i]
    BY <2>2, AppendProperties, LenProperties DEF OneActiveIn
  <2>4. QED
    BY <2>1, <2>3 DEF OneActiveIn
<1>3. QED
  BY <1>1, <1>2

\* What a step of the journey completes on an application is no status.
LEMMA FlagsKeepOne ==
  ASSUME NEW apps, OneActiveIn(apps), NEW n
  PROVE  /\ OneActiveIn([apps EXCEPT ![n].emp = TRUE])
         /\ OneActiveIn([apps EXCEPT ![n].live = TRUE])
         /\ OneActiveIn([apps EXCEPT ![n].perm = TRUE])
         /\ OneActiveIn([apps EXCEPT ![n].aa = TRUE])
         /\ OneActiveIn([apps EXCEPT ![n].consents = TRUE])
<1>1. OneActiveIn([apps EXCEPT ![n].emp = TRUE])
  <2> DEFINE row == [apps[n] EXCEPT !.emp = TRUE]
  <2>1. n \in 1..Len(apps) => row \in AppRow /\ row.status = apps[n].status
    BY RowOf DEF AppRow
  <2> HIDE DEF row
  <2>2. OneActiveIn([apps EXCEPT ![n] = row])
    BY <2>1, OneUpdated
  <2>3. QED
    BY <2>2 DEF row
<1>2. OneActiveIn([apps EXCEPT ![n].live = TRUE])
  <2> DEFINE row == [apps[n] EXCEPT !.live = TRUE]
  <2>1. n \in 1..Len(apps) => row \in AppRow /\ row.status = apps[n].status
    BY RowOf DEF AppRow
  <2> HIDE DEF row
  <2>2. OneActiveIn([apps EXCEPT ![n] = row])
    BY <2>1, OneUpdated
  <2>3. QED
    BY <2>2 DEF row
<1>3. OneActiveIn([apps EXCEPT ![n].perm = TRUE])
  <2> DEFINE row == [apps[n] EXCEPT !.perm = TRUE]
  <2>1. n \in 1..Len(apps) => row \in AppRow /\ row.status = apps[n].status
    BY RowOf DEF AppRow
  <2> HIDE DEF row
  <2>2. OneActiveIn([apps EXCEPT ![n] = row])
    BY <2>1, OneUpdated
  <2>3. QED
    BY <2>2 DEF row
<1>4. OneActiveIn([apps EXCEPT ![n].aa = TRUE])
  <2> DEFINE row == [apps[n] EXCEPT !.aa = TRUE]
  <2>1. n \in 1..Len(apps) => row \in AppRow /\ row.status = apps[n].status
    BY RowOf DEF AppRow
  <2> HIDE DEF row
  <2>2. OneActiveIn([apps EXCEPT ![n] = row])
    BY <2>1, OneUpdated
  <2>3. QED
    BY <2>2 DEF row
<1>5. OneActiveIn([apps EXCEPT ![n].consents = TRUE])
  <2> DEFINE row == [apps[n] EXCEPT !.consents = TRUE]
  <2>1. n \in 1..Len(apps) => row \in AppRow /\ row.status = apps[n].status
    BY RowOf DEF AppRow
  <2> HIDE DEF row
  <2>2. OneActiveIn([apps EXCEPT ![n] = row])
    BY <2>1, OneUpdated
  <2>3. QED
    BY <2>2 DEF row
<1>6. QED
  BY <1>1, <1>2, <1>3, <1>4, <1>5

LEMMA EventKeepsOne ==
  ASSUME NEW apps, OneActiveIn(apps), NEW n, NEW e \in {"sent", "FAILED", "replayed"}
  PROVE  OneActiveIn([apps EXCEPT ![n].event = e])
<1> DEFINE row == [apps[n] EXCEPT !.event = e]
<1>1. n \in 1..Len(apps) => row \in AppRow /\ row.status = apps[n].status
  BY RowOf DEF AppRow
<1> HIDE DEF row
<1>2. OneActiveIn([apps EXCEPT ![n] = row])
  BY <1>1, OneUpdated
<1>3. QED
  BY <1>2 DEF row

\* A status is written over an active one only.
LEMMA StatusKeepsOne ==
  ASSUME NEW apps, OneActiveIn(apps), NEW n, NEW s \in JnStatuses,
         n \in 1..Len(apps) => apps[n].status \in ActiveAnywhere
  PROVE  OneActiveIn([apps EXCEPT ![n].status = s])
<1> DEFINE row == [apps[n] EXCEPT !.status = s]
<1>1. n \in 1..Len(apps) => row \in AppRow
  BY RowOf DEF AppRow
<1> HIDE DEF row
<1>2. OneActiveIn([apps EXCEPT ![n] = row])
  BY <1>1, OneUpdated
<1>3. QED
  BY <1>2 DEF row

\* Every load of a page repairs the rows it read.
LEMMA FetchedKeepsOne ==
  ASSUME NEW t, NEW apps, NEW loadPhoto, OneActiveIn(apps), fetched(t, apps, loadPhoto)
  PROVE  OneActiveIn(jnApps)'
  BY KycKeepsOne DEF fetched

\* The customer's steps, on any page.
LEMMA CustomerKeepsOne ==
  ASSUME OneActiveIn(jnApps), NEW t \in JnTabs, customerActs(t) \/ handleRetake(t) \/ fetchCustomer(t)
  PROVE  OneActiveIn(jnApps)'
<1>1. CASE resumeAndPay(t)
  <2> DEFINE apps == createOrResumeApplication
  <2> DEFINE n == Len(apps)
  <2> DEFINE paid == IF n > 0 /\ apps[n].status = "DRAFT"
                     THEN [apps EXCEPT ![n].status = "ASSESSMENT_FEE_PAID"] ELSE apps
  <2>1. OneActiveIn(apps)
    BY CreateKeepsOne
  <2>2. fetched(t, paid, TRUE)
    BY <1>1 DEF resumeAndPay
  <2> HIDE DEF apps
  <2>3. OneActiveIn(paid)
    BY <2>1, StatusKeepsOne DEF JnStatuses, ActiveAnywhere
  <2> HIDE DEF paid
  <2>4. QED
    BY <2>2, <2>3, FetchedKeepsOne
<1>2. CASE handleApplyAgain(t) \/ fetchCustomer(t)
  BY <1>2, CreateKeepsOne, FetchedKeepsOne DEF handleApplyAgain, fetchCustomer
<1>3. CASE capturePhoto(t)
  BY <1>3, FlagsKeepOne DEF capturePhoto
<1>4. CASE handleProfileContinue(t)
  BY <1>4, FlagsKeepOne, KycKeepsOne DEF handleProfileContinue, updateProfile
<1>5. CASE kycVerified(t)
  <2>1. PICK addressed \in BOOLEAN :
          jnApps' = [jnApps EXCEPT ![JnNow].kyc = TRUE, ![JnNow].perm = @ \/ addressed]
    BY <1>5 DEF kycVerified
  <2>2. JnNow \in 1..Len(jnApps) /\ jnApps \in [1..Len(jnApps) -> AppRow]
    BY <1>5, LenProperties DEF kycVerified, OnStep, JnNow, OneActiveIn
  <2> DEFINE row == [jnApps[JnNow] EXCEPT !.kyc = TRUE, !.perm = @ \/ addressed]
  <2>3. row \in AppRow /\ row.status = jnApps[JnNow].status
    BY <2>2, RowOf DEF AppRow
  <2>4. jnApps' = [jnApps EXCEPT ![JnNow] = row]
    BY <2>1, <2>2
  <2> HIDE DEF row
  <2>5. OneActiveIn([jnApps EXCEPT ![JnNow] = row])
    BY <2>2, <2>3, OneUpdated
  <2>6. QED
    BY <2>4, <2>5
<1>6. CASE saveAddress(t)
  <2> DEFINE confirmed == [jnApps EXCEPT ![JnNow].perm = TRUE]
  <2>1. OneActiveIn(confirmed)
    BY FlagsKeepOne
  <2>2. fetched(t, saveCurrent(confirmed), TRUE)
    BY <1>6 DEF saveAddress
  <2> HIDE DEF confirmed
  <2>3. QED
    BY <2>1, <2>2, AddressKeepsOne, FetchedKeepsOne
<1>7. CASE statementDone(t)
  <2>1. OneActiveIn([jnApps EXCEPT ![JnNow].aa = TRUE])
    BY FlagsKeepOne
  <2>2. QED
    BY <1>7, <2>1, FetchedKeepsOne DEF statementDone
<1>8. CASE handleSubmitApplication(t)
  BY <1>8, AddressKeepsOne DEF handleSubmitApplication
<1>9. CASE acceptDecisionConsents(t)
  BY <1>9, FlagsKeepOne DEF acceptDecisionConsents
<1>10. CASE submitApplication(t)
  <2> DEFINE apps == IF JnLatest.status = "ASSESSMENT_FEE_PAID"
                     THEN [jnApps EXCEPT ![JnNow].status = "SUBMITTED"] ELSE jnApps
  <2>1. OneActiveIn(apps)
    BY StatusKeepsOne DEF JnLatest, JnStatuses, ActiveAnywhere
  <2>2. fetched(t, apps, TRUE)
    BY <1>10 DEF submitApplication
  <2> HIDE DEF apps
  <2>3. QED
    BY <2>1, <2>2, FetchedKeepsOne
<1>11. CASE handleRetryLenderSubmission(t)
  <2> DEFINE apps == IF JnLatest.event = "FAILED" THEN retryLenderSubmission(jnApps) ELSE jnApps
  <2>1. OneActiveIn(apps)
    BY EventKeepsOne DEF retryLenderSubmission
  <2>2. fetched(t, apps, TRUE)
    BY <1>11 DEF handleRetryLenderSubmission
  <2> HIDE DEF apps
  <2>3. QED
    BY <2>1, <2>2, FetchedKeepsOne
<1>12. CASE handleRetake(t)
  BY <1>12 DEF handleRetake
<1>13. QED
  BY <1>1, <1>2, <1>3, <1>4, <1>5, <1>6, <1>7, <1>8, <1>9, <1>10, <1>11, <1>12 DEF customerActs

\* The lender, the loan and the clock.
LEMMA LenderKeepsOne ==
  ASSUME OneActiveIn(jnApps), lenderEventFails \/ lenderDecides \/ loanProceeds \/ dayPasses
  PROVE  OneActiveIn(jnApps)'
<1>1. CASE lenderEventFails
  BY <1>1, EventKeepsOne DEF lenderEventFails
<1>2. CASE lenderDecides
  <2>1. PICK s \in {"LENDER_PRE_APPROVED", "LENDER_REJECTED"} :
          jnApps' = [jnApps EXCEPT ![JnNow].status = s]
    BY <1>2 DEF lenderDecides
  <2>2. jnApps[JnNow].status \in ActiveAnywhere /\ s \in JnStatuses
    BY <1>2 DEF lenderDecides, JnLatest, ActiveAnywhere, JnStatuses
  <2>3. QED
    BY <2>1, <2>2, StatusKeepsOne
<1>3. CASE loanProceeds
  <2>1. PICK s \in {"LENDER_APPROVED", "LOAN_CLOSED"} : jnApps' = [jnApps EXCEPT ![JnNow].status = s]
    BY <1>3 DEF loanProceeds
  <2>2. jnApps[JnNow].status \in ActiveAnywhere /\ s \in JnStatuses
    BY <1>3 DEF loanProceeds, JnLatest, ActiveAnywhere, JnStatuses
  <2>3. QED
    BY <2>1, <2>2, StatusKeepsOne
<1>4. CASE dayPasses
  BY <1>4 DEF dayPasses
<1>5. QED
  BY <1>1, <1>2, <1>3, <1>4

\* A customer has one active application, for any number of tabs, of applications one after
\* another and of days to wait.
THEOREM OneActiveApplicationHolds == JnSpec => []OneActiveApplication
<1>1. JnInit => OneActiveIn(jnApps)
  BY DEF JnInit, OneActiveIn
<1>2. OneActiveIn(jnApps) /\ [JnNext]_jnVars => OneActiveIn(jnApps)'
  <2>1. UNCHANGED jnVars /\ OneActiveIn(jnApps) => OneActiveIn(jnApps)'
    BY DEF jnVars
  <2>2. QED
    BY <2>1, CustomerKeepsOne, LenderKeepsOne DEF JnNext
<1>3. OneActiveIn(jnApps) => OneActiveApplication
  BY DEF OneActiveIn, OneActiveApplication, JnNow
<1>4. QED
  BY <1>1, <1>2, <1>3, PTL DEF JnSpec

--------------------------------------------------------------------------------
(* The mandate.                                                             *)

PaPageRow == [pc: {"load", "idle", "bank", "keying", "wait", "asking", "away", "closed"},
              seen: LoanRow, auth: BOOLEAN, step: PaSteps, call: StatusCall]

\* The customer authorised an attempt at the bank.
AuthorizedIn(bank) == \E a \in Attempts : bank[a] = "authorized"
SomeRow(row) == \E a \in Attempts : row[a] # "none"

\* What a page that waits for the bank has: an attempt, and, once it asked, an answer about
\* an attempt, which is "authorized" only when one was.
Waits(page, row, bank) ==
  /\ page.pc \in {"wait", "asking"} => SomeRow(row)
  /\ page.pc = "asking" =>
       /\ page.call.at \in Attempts /\ row[page.call.at] # "none"
       /\ page.call.told # "none"
       /\ page.call.told = "authorized" => AuthorizedIn(bank)

\* The table and the bank know the same attempts.
SameAttempts == \A a \in Attempts : paRow[a] = "none" <=> paBank[a] = "none"
\* Every record of an authorised mandate has an authorised attempt behind it: the loan's
\* column, the rows, the notices under way, the answers the pages wait on.
LoanBacked == paLoan.mandate => AuthorizedIn(paBank)
RowsBacked == (\E a \in Attempts : paRow[a] = "AUTHORIZED") => AuthorizedIn(paBank)
NoticesBacked == \A n \in paNotices : n[2] = "authorized" => AuthorizedIn(paBank)
PagesBacked == \A t \in PaTabs : Waits(paTab[t], paRow, paBank)

PaShape ==
  /\ paLoan \in LoanRow
  /\ paRow \in [Attempts -> RowStatuses]
  /\ paBank \in [Attempts -> Provided]
  /\ paNotices \subseteq Attempts \X {"initiated", "authorized", "failed"}
  /\ paTab \in [PaTabs -> PaPageRow]

PaInv == PaShape /\ SameAttempts /\ LoanBacked /\ RowsBacked /\ NoticesBacked /\ PagesBacked

\* A nonempty set of attempts has a newest one.
LEMMA LargestAttempt ==
  ASSUME NEW n \in Nat, NEW T \in SUBSET (1..n), T # {}
  PROVE  \E i \in T : \A j \in T : j <= i
<1> DEFINE Above(i) == {j \in T : j > i}
<1> DEFINE Family == {Above(i) : i \in T}
<1>1. IsWellFoundedOn(StrictSubsetOrdering(1..n), FiniteSubsetsOf(1..n))
  BY FS_StrictSubsetOrderingWellFounded
<1>2. IsFiniteSet(1..n)
  BY FS_Interval
<1>3. \A U \in SUBSET (1..n) : U \in FiniteSubsetsOf(1..n)
  BY <1>2, FS_Subset DEF FiniteSubsetsOf
<1>4. Family \subseteq FiniteSubsetsOf(1..n) /\ Family # {}
  BY <1>3
<1>5. PICK U \in Family : \A V \in Family : <<V, U>> \notin StrictSubsetOrdering(1..n)
  <2> HIDE DEF Family
  <2>1. QED
    BY <1>1, <1>4, WFMin
<1>6. PICK i \in T : U = Above(i)
  BY <1>5
<1>7. ASSUME NEW j \in T, j > i PROVE FALSE
  <2>0. j > i /\ i \in Int /\ j \in Int /\ \A k \in T : k \in Int
    BY <1>7
  <2>1. j \in Above(i) /\ j \notin Above(j) /\ Above(j) \subseteq Above(i)
    <3>1. \A k \in T : k > j => k > i
      BY <2>0
    <3>2. j \in Above(i) /\ Above(j) \subseteq Above(i)
      BY <2>0, <3>1
    <3>3. ~(j > j)
      BY <2>0
    <3>4. QED
      BY <3>2, <3>3
  <2>2. Above(j) \in Family
    OBVIOUS
  <2>3. <<Above(j), U>> \in StrictSubsetOrdering(1..n)
    BY <1>6, <2>1 DEF StrictSubsetOrdering
  <2>4. QED
    BY <1>5, <2>2, <2>3
<1>8. QED
  BY <1>7, \A k \in T : k \in Int, \A k \in T : k \in Int

\* mandates[0] is the newest attempt with a row, and the next number has none.
LEMMA NewestAttempt ==
  ASSUME PaShape
  PROVE  /\ newestAttempt \in Nat
         /\ SomeRow(paRow) => newestAttempt \in Attempts /\ paRow[newestAttempt] # "none"
         /\ ~SomeRow(paRow) => newestAttempt = 0
         /\ newestAttempt + 1 \in Attempts => paRow[newestAttempt + 1] = "none"
<1> DEFINE T == {a \in Attempts : paRow[a] # "none"}
<1>1. CASE SomeRow(paRow)
  <2>1. T \in SUBSET (1..MaxAttempts) /\ T # {} /\ MaxAttempts \in Nat
    BY <1>1, PaAssumption DEF SomeRow, Attempts
  <2>2. PICK m \in T : \A j \in T : j <= m
    BY <2>1, LargestAttempt
  <2>3. \A b \in Attempts : b > m => paRow[b] = "none"
    BY <2>2 DEF Attempts
  <2>4. \E a \in Attempts : paRow[a] # "none" /\ \A b \in Attempts : b > a => paRow[b] = "none"
    BY <2>2, <2>3
  <2>5. /\ newestAttempt \in Attempts /\ paRow[newestAttempt] # "none"
        /\ \A b \in Attempts : b > newestAttempt => paRow[b] = "none"
    BY <1>1, <2>4 DEF newestAttempt, SomeRow
  <2>6. QED
    BY <1>1, <2>5 DEF Attempts
<1>2. CASE ~SomeRow(paRow)
  <2>1. newestAttempt = 0
    BY <1>2 DEF newestAttempt, SomeRow
  <2>2. QED
    BY <1>2, <2>1 DEF SomeRow
<1>3. QED
  BY <1>1, <1>2

\* How the tables move: an attempt keeps its row, and an authorised one stays so.
AttemptsKept ==
  /\ paRow' \in [Attempts -> RowStatuses]
  /\ paBank' \in [Attempts -> Provided]
  /\ \A a \in Attempts : /\ paRow[a] # "none" => paRow'[a] # "none"
                         /\ paBank[a] = "authorized" => paBank'[a] = "authorized"

\* How the pages move: each is as it was, or has what it waits for.
PagesMove ==
  /\ paTab' \in [PaTabs -> PaPageRow]
  /\ \A t \in PaTabs : paTab'[t] = paTab[t] \/ Waits(paTab'[t], paRow', paBank')

\* Then what the pages wait for stays there.
LEMMA PagesStayBacked == PaInv /\ AttemptsKept /\ PagesMove => PagesBacked'
<1> SUFFICES ASSUME PaInv, AttemptsKept, PagesMove, NEW t \in PaTabs
             PROVE  Waits(paTab'[t], paRow', paBank')
  BY DEF PagesBacked
<1>1. SomeRow(paRow) => SomeRow(paRow')
  BY DEF SomeRow, AttemptsKept
<1>2. AuthorizedIn(paBank) => AuthorizedIn(paBank')
  BY DEF AuthorizedIn, AttemptsKept
<1>3. CASE paTab'[t] = paTab[t]
  BY <1>1, <1>2, <1>3 DEF PaInv, PagesBacked, Waits, AttemptsKept
<1>4. QED
  BY <1>3 DEF PagesMove

\* Steps of a page that leave the attempts and the loan's mandate alone.
LEMMA AttemptsAlone ==
  ASSUME PaInv, UNCHANGED <<paRow, paBank, paNotices>>, PagesMove,
         paLoan' \in LoanRow, paLoan'.mandate = paLoan.mandate
  PROVE  PaInv'
<1>1. AttemptsKept
  BY DEF AttemptsKept, PaInv, PaShape
<1>2. PagesBacked'
  BY <1>1, PagesStayBacked
<1>3. PaShape'
  BY DEF PaInv, PaShape, PagesMove
<1>4. SameAttempts' /\ LoanBacked' /\ RowsBacked' /\ NoticesBacked'
  BY DEF PaInv, SameAttempts, LoanBacked, RowsBacked, NoticesBacked, AuthorizedIn
<1>5. QED
  BY <1>2, <1>3, <1>4 DEF PaInv

\* One page changes and does not wait for the bank then.
LEMMA OnePageMoves ==
  ASSUME PaInv, NEW t \in PaTabs, NEW page, page \in PaPageRow, page.pc \notin {"wait", "asking"},
         paTab' = [paTab EXCEPT ![t] = page]
  PROVE  PagesMove
<1>1. Waits(page, paRow', paBank')
  BY DEF Waits
<1>2. QED
  BY <1>1 DEF PagesMove, PaInv, PaShape

\* In particular when it only leaves its step.
LEMMA PageLeaves ==
  ASSUME PaInv, NEW t \in PaTabs, NEW pc, pc \in {"load", "idle", "bank", "keying", "away"},
         paTab' = [paTab EXCEPT ![t].pc = pc] \/ paTab' = paTab
  PROVE  PagesMove
<1>1. CASE paTab' = paTab
  BY <1>1 DEF PagesMove, PaInv, PaShape
<1>2. CASE paTab' = [paTab EXCEPT ![t].pc = pc]
  <2> DEFINE page == [paTab[t] EXCEPT !.pc = pc]
  <2>1. page \in PaPageRow /\ page.pc = pc
    BY DEF PaInv, PaShape, PaPageRow
  <2>2. paTab' = [paTab EXCEPT ![t] = page]
    BY <1>2
  <2> HIDE DEF page
  <2>3. QED
    BY <2>1, <2>2, OnePageMoves
<1>3. QED
  BY <1>1, <1>2

\* At the start the lender has approved and nothing was done yet.
LEMMA PaInitInv == PaInit => PaInv
<1> SUFFICES ASSUME PaInit PROVE PaInv
  OBVIOUS
<1>1. paLoan \in LoanRow /\ ~paLoan.mandate
  BY DEF PaInit, LoanRow
<1>2. NoCall \in StatusCall
  BY PaAssumption DEF NoCall, StatusCall, RowStatuses, Provided
<1>3. paTab \in [PaTabs -> PaPageRow] /\ \A t \in PaTabs : paTab[t].pc \in {"load", "closed"}
  <2>1. PICK open \in SUBSET PaTabs :
          paTab = [t \in PaTabs |-> [pc |-> IF t \in open THEN "load" ELSE "closed", seen |-> paLoan,
                                     auth |-> FALSE, step |-> "APPROVAL_SUMMARY", call |-> NoCall]]
    BY DEF PaInit
  <2>2. QED
    BY <1>1, <1>2, <2>1 DEF PaPageRow, PaSteps
<1>4. PaShape
  BY <1>1, <1>3 DEF PaInit, PaShape, RowStatuses, Provided
<1>5. SameAttempts /\ LoanBacked /\ RowsBacked /\ NoticesBacked
  BY <1>1 DEF PaInit, SameAttempts, LoanBacked, RowsBacked, NoticesBacked
<1>6. PagesBacked
  BY <1>3 DEF PagesBacked, Waits
<1>7. QED
  BY <1>4, <1>5, <1>6 DEF PaInv

\* The loan's other columns.
LEMMA LoanColumns ==
  ASSUME NEW l \in LoanRow
  PROVE  /\ backFilled(l) \in LoanRow /\ backFilled(l).mandate = l.mandate
         /\ [l EXCEPT !.offer = TRUE] \in LoanRow /\ [l EXCEPT !.offer = TRUE].mandate = l.mandate
         /\ [l EXCEPT !.kfs = TRUE] \in LoanRow /\ [l EXCEPT !.kfs = TRUE].mandate = l.mandate
         /\ [l EXCEPT !.esign = TRUE] \in LoanRow /\ [l EXCEPT !.esign = TRUE].mandate = l.mandate
         /\ [l EXCEPT !.requested = TRUE] \in LoanRow /\ [l EXCEPT !.requested = TRUE].mandate = l.mandate
  BY DEF backFilled, LoanRow

\* The penny drop's columns, whatever it found.
LEMMA BankColumns ==
  ASSUME paLoan \in LoanRow, NEW out \in pennyDrop
  PROVE  bankWritten(out) \in LoanRow /\ bankWritten(out).mandate = paLoan.mandate
<1>1. CASE out = "VERIFIED"
  <2>1. bankWritten(out) = [paLoan EXCEPT !.bank = TRUE, !.cancelled = FALSE]
    BY <1>1 DEF bankWritten
  <2>2. QED
    BY <2>1 DEF LoanRow
<1>2. CASE out = "NAME_MISMATCH"
  <2>1. bankWritten(out) = [paLoan EXCEPT !.bank = FALSE, !.cancelled = TRUE]
    BY <1>2 DEF bankWritten
  <2>2. QED
    BY <2>1 DEF LoanRow
<1>3. CASE out = "FAILED"
  <2>1. bankWritten(out) = [paLoan EXCEPT !.bank = FALSE]
    BY <1>3 DEF bankWritten
  <2>2. QED
    BY <2>1 DEF LoanRow
<1>4. QED
  BY <1>1, <1>2, <1>3 DEF pennyDrop

\* Loading the journey and choosing a step.
LEMMA ShowInv ==
  ASSUME PaInv, NEW t \in PaTabs, getPostApprovalJourney(t) \/ selectStep(t)
  PROVE  PaInv'
<1>1. CASE getPostApprovalJourney(t)
  <2> DEFINE page == [paTab[t] EXCEPT !.pc = "idle", !.seen = backFilled(paLoan), !.auth = isAuthorized,
                                      !.step = deriveCurrentStep(backFilled(paLoan))]
  <2>1. paLoan' \in LoanRow /\ paLoan'.mandate = paLoan.mandate /\ paLoan' = backFilled(paLoan)
    BY <1>1, LoanColumns DEF getPostApprovalJourney, PaInv, PaShape
  <2>2. isAuthorized \in BOOLEAN
    BY DEF isAuthorized, PaInv, PaShape, LoanRow
  <2>3. deriveCurrentStep(backFilled(paLoan)) \in PaSteps
    BY DEF deriveCurrentStep, PaSteps
  <2>4. page \in PaPageRow /\ page.pc = "idle"
    BY <2>1, <2>2, <2>3 DEF PaInv, PaShape, PaPageRow
  <2>5. paTab' = [paTab EXCEPT ![t] = page]
    BY <1>1, <2>1 DEF getPostApprovalJourney
  <2> HIDE DEF page
  <2>6. PagesMove
    BY <2>4, <2>5, OnePageMoves
  <2>7. UNCHANGED <<paRow, paBank, paNotices>>
    BY <1>1 DEF getPostApprovalJourney
  <2>8. QED
    BY <2>1, <2>6, <2>7, AttemptsAlone
<1>2. CASE selectStep(t)
  <2>1. PICK s \in PaSteps : paTab' = [paTab EXCEPT ![t].step = s]
    BY <1>2 DEF selectStep, missingSteps
  <2> DEFINE page == [paTab[t] EXCEPT !.step = s]
  <2>2. page \in PaPageRow /\ page.pc = "idle"
    BY <1>2 DEF PaInv, PaShape, PaPageRow, selectStep
  <2>3. paTab' = [paTab EXCEPT ![t] = page]
    BY <2>1
  <2> HIDE DEF page
  <2>4. PagesMove
    BY <2>2, <2>3, OnePageMoves
  <2>5. UNCHANGED <<paLoan, paRow, paBank, paNotices>>
    BY <1>2 DEF selectStep
  <2>6. QED
    BY <2>4, <2>5, AttemptsAlone DEF PaInv, PaShape
<1>3. QED
  BY <1>1, <1>2

\* Offer, account, key fact statement, e-sign, request: none of them touches the mandate.
LEMMA OtherStepsInv ==
  ASSUME PaInv, NEW t \in PaTabs,
         \/ acceptOffer(t) \/ handleVerify(t) \/ verifyCustomerBankAccount(t) \/ acceptKfs(t)
         \/ esignCompleted(t) \/ handleRequest(t)
  PROVE  PaInv'
<1>s. paLoan \in LoanRow
  BY DEF PaInv, PaShape
<1>1. paLoan' \in LoanRow /\ paLoan'.mandate = paLoan.mandate
  <2>1. CASE acceptOffer(t) \/ acceptKfs(t) \/ esignCompleted(t) \/ handleRequest(t)
    BY <1>s, <2>1, LoanColumns DEF acceptOffer, acceptKfs, esignCompleted, handleRequest
  <2>2. CASE handleVerify(t)
    BY <1>s, <2>2 DEF handleVerify
  <2>3. CASE verifyCustomerBankAccount(t)
    BY <1>s, <2>3, BankColumns DEF verifyCustomerBankAccount
  <2>4. QED
    BY <2>1, <2>2, <2>3
<1>2. \E pc \in {"load", "idle", "bank", "keying", "away"} :
        paTab' = [paTab EXCEPT ![t].pc = pc] \/ paTab' = paTab
  BY DEF acceptOffer, handleVerify, verifyCustomerBankAccount, acceptKfs, esignCompleted, handleRequest
<1>3. PagesMove
  BY <1>2, PageLeaves
<1>4. UNCHANGED <<paRow, paBank, paNotices>>
  BY DEF acceptOffer, handleVerify, verifyCustomerBankAccount, acceptKfs, esignCompleted, handleRequest
<1>5. QED
  BY <1>1, <1>3, <1>4, AttemptsAlone

\* Asking for the mandate: a page waits when an attempt is resumed, which has its row.
LEMMA InitiateInv ==
  ASSUME PaInv, NEW t \in PaTabs, NEW forceNew \in BOOLEAN, initiateMandate(t, forceNew)
  PROVE  PaInv'
<1>1. paLoan' \in LoanRow /\ paLoan'.mandate = paLoan.mandate
  BY LoanColumns DEF initiateMandate, PaInv, PaShape
<1>2. UNCHANGED <<paRow, paBank, paNotices>>
  BY DEF initiateMandate
<1>3. CASE resumable /\ paTab' = [paTab EXCEPT ![t].pc = "wait"]
  <2> DEFINE page == [paTab[t] EXCEPT !.pc = "wait"]
  <2>1. page \in PaPageRow /\ page.pc = "wait"
    BY DEF PaInv, PaShape, PaPageRow
  <2>2. paTab' = [paTab EXCEPT ![t] = page]
    BY <1>3
  <2>3. SomeRow(paRow)
    BY <1>3, NewestAttempt DEF PaInv, resumable
  <2> HIDE DEF page
  <2>4. Waits(page, paRow', paBank')
    BY <1>2, <2>1, <2>3 DEF Waits
  <2>5. PagesMove
    BY <2>1, <2>2, <2>4 DEF PagesMove, PaInv, PaShape
  <2>6. QED
    BY <1>1, <1>2, <2>5, AttemptsAlone
<1>4. CASE \E pc \in {"load", "idle", "bank", "keying", "away"} :
             paTab' = [paTab EXCEPT ![t].pc = pc] \/ paTab' = paTab
  BY <1>1, <1>2, <1>4, PageLeaves, AttemptsAlone
<1>5. QED
  BY <1>3, <1>4 DEF initiateMandate

\* A new attempt is the next number, which neither the table nor the bank knows: an
\* authorised one is never overwritten.
LEMMA CreatedInv ==
  ASSUME PaInv, NEW t \in PaTabs, NEW a \in Attempts, attemptCreated(a),
         paTab' = [paTab EXCEPT ![t].pc = "wait"], UNCHANGED paLoan
  PROVE  PaInv'
<1>1. paRow[a] = "none" /\ paBank[a] = "none"
  BY NewestAttempt DEF PaInv, attemptCreated, SameAttempts
<1>2. /\ paRow' \in [Attempts -> RowStatuses] /\ paRow'[a] = "ACCESS_KEY_GENERATED"
      /\ \A b \in Attempts \ {a} : paRow'[b] = paRow[b]
      /\ paBank' \in [Attempts -> Provided] /\ paBank'[a] = "created"
      /\ \A b \in Attempts \ {a} : paBank'[b] = paBank[b]
  BY DEF attemptCreated, PaInv, PaShape, RowStatuses, Provided
<1>3. AttemptsKept
  BY <1>1, <1>2 DEF AttemptsKept
<1> DEFINE page == [paTab[t] EXCEPT !.pc = "wait"]
<1>4. page \in PaPageRow /\ page.pc = "wait" /\ paTab' = [paTab EXCEPT ![t] = page]
  BY DEF PaInv, PaShape, PaPageRow
<1> HIDE DEF page
<1>5. Waits(page, paRow', paBank')
  BY <1>2, <1>4 DEF Waits, SomeRow
<1>6. PagesMove
  BY <1>4, <1>5 DEF PagesMove, PaInv, PaShape
<1>7. paNotices' \subseteq Attempts \X {"initiated", "authorized", "failed"}
      /\ \A n \in paNotices' : n[2] = "authorized" => n \in paNotices
  BY DEF attemptCreated, PaInv, PaShape
<1>8. AuthorizedIn(paBank) => AuthorizedIn(paBank')
  BY <1>3 DEF AuthorizedIn, AttemptsKept
<1>9. PaShape'
  BY <1>2, <1>6, <1>7 DEF PaInv, PaShape, PagesMove
<1>10. SameAttempts'
  BY <1>2 DEF PaInv, SameAttempts
<1>11. LoanBacked' /\ RowsBacked'
  BY <1>2, <1>8 DEF PaInv, LoanBacked, RowsBacked
<1>12. NoticesBacked'
  BY <1>7, <1>8 DEF PaInv, NoticesBacked
<1>13. QED
  BY <1>3, <1>6, <1>9, <1>10, <1>11, <1>12, PagesStayBacked DEF PaInv

LEMMA KeyInv ==
  ASSUME PaInv, NEW t \in PaTabs, generateAccessKey(t)
  PROVE  PaInv'
<1>1. CASE /\ \E a \in Attempts : attemptCreated(a)
           /\ paTab' = [paTab EXCEPT ![t].pc = "wait"]
  BY <1>1, CreatedInv DEF generateAccessKey
<1>2. CASE /\ paTab' = [paTab EXCEPT ![t].pc = "idle"]
           /\ UNCHANGED <<paRow, paBank, paNotices>>
  <2>1. PagesMove
    BY <1>2, PageLeaves
  <2>2. UNCHANGED paLoan
    BY DEF generateAccessKey
  <2>3. QED
    BY <1>2, <2>1, <2>2, AttemptsAlone DEF PaInv, PaShape
<1>3. QED
  BY <1>1, <1>2 DEF generateAccessKey

\* The customer decides in the bank's window; a notice says what she decided.
LEMMA BankDecidesInv ==
  ASSUME PaInv, NEW a \in Attempts, bankDecides(a)
  PROVE  PaInv'
<1>1. PICK out \in {"authorized", "failed"} :
        /\ paBank' = [paBank EXCEPT ![a] = out]
        /\ paNotices' = paNotices \cup {<<a, out>>} \/ UNCHANGED paNotices
  BY DEF bankDecides
<1>2. UNCHANGED <<paLoan, paRow, paTab>> /\ paBank[a] = "created"
  BY DEF bankDecides
<1>3. /\ paBank' \in [Attempts -> Provided] /\ paBank'[a] = out
      /\ \A b \in Attempts \ {a} : paBank'[b] = paBank[b]
  BY <1>1 DEF PaInv, PaShape, Provided
<1>4. AttemptsKept
  BY <1>2, <1>3 DEF AttemptsKept, PaInv, PaShape
<1>5. PagesMove
  BY <1>2 DEF PagesMove, PaInv, PaShape
<1>6. AuthorizedIn(paBank) \/ out = "authorized" => AuthorizedIn(paBank')
  BY <1>3, <1>4 DEF AuthorizedIn, AttemptsKept
<1>7. PaShape'
  BY <1>1, <1>2, <1>3 DEF PaInv, PaShape
<1>8. SameAttempts'
  BY <1>2, <1>3 DEF PaInv, SameAttempts
<1>9. LoanBacked' /\ RowsBacked'
  BY <1>2, <1>6 DEF PaInv, LoanBacked, RowsBacked
<1>10. NoticesBacked'
  BY <1>1, <1>6 DEF PaInv, NoticesBacked
<1>11. QED
  BY <1>4, <1>5, <1>7, <1>8, <1>9, <1>10, PagesStayBacked DEF PaInv

\* A status is written to a row that exists; "authorised" only with an authorised attempt.
LEMMA StatusWritten ==
  ASSUME PaInv, NEW a \in Attempts, paRow[a] # "none", NEW s \in {"AUTHORIZED", "FAILED", "INITIATED"},
         s = "AUTHORIZED" => AuthorizedIn(paBank),
         paRow' = paRow \/ paRow' = [paRow EXCEPT ![a] = s],
         paLoan' = paLoan \/ (s = "AUTHORIZED" /\ paLoan' = [paLoan EXCEPT !.mandate = TRUE]),
         UNCHANGED paBank, paNotices' \subseteq paNotices, PagesMove
  PROVE  PaInv'
<1>1. /\ paRow' \in [Attempts -> RowStatuses]
      /\ \A b \in Attempts \ {a} : paRow'[b] = paRow[b]
      /\ paRow'[a] \in {paRow[a], s}
  BY DEF PaInv, PaShape, RowStatuses
<1>2. /\ paLoan' \in LoanRow
      /\ paLoan'.mandate => paLoan.mandate \/ s = "AUTHORIZED"
  BY DEF PaInv, PaShape, LoanRow
<1>3. AttemptsKept
  BY <1>1 DEF AttemptsKept, PaInv, PaShape
<1>4. PaShape'
  BY <1>1, <1>2 DEF PaInv, PaShape, PagesMove
<1>5. SameAttempts'
  BY <1>1 DEF PaInv, SameAttempts
<1>6. LoanBacked' /\ RowsBacked' /\ NoticesBacked'
  BY <1>1, <1>2 DEF PaInv, LoanBacked, RowsBacked, NoticesBacked, AuthorizedIn
<1>7. QED
  BY <1>3, <1>4, <1>5, <1>6, PagesStayBacked DEF PaInv

\* The webhook, whichever row of the loan it matches.
LEMMA WebhookInv ==
  ASSUME PaInv, NEW n \in paNotices, handleEasebuzzMandateWebhook(n)
  PROVE  PaInv'
<1>1. UNCHANGED <<paBank, paTab>> /\ paNotices' \subseteq paNotices
  BY DEF handleEasebuzzMandateWebhook
<1>2. PagesMove
  BY <1>1 DEF PagesMove, PaInv, PaShape
<1>3. CASE UNCHANGED <<paRow, paLoan>>
  <2>1. AttemptsKept
    BY <1>1, <1>3 DEF AttemptsKept, PaInv, PaShape
  <2>2. PaShape' /\ SameAttempts' /\ LoanBacked' /\ RowsBacked' /\ NoticesBacked'
    BY <1>1, <1>3 DEF PaInv, PaShape, SameAttempts, LoanBacked, RowsBacked, NoticesBacked, AuthorizedIn
  <2>3. QED
    BY <1>2, <2>1, <2>2, PagesStayBacked DEF PaInv
<1>4. CASE \E a \in Attempts : paRow[a] # "none" /\ applyStatus(a, normalizeEasebuzzMandateStatus(n[2]))
  <2>1. PICK a \in Attempts : paRow[a] # "none" /\ applyStatus(a, normalizeEasebuzzMandateStatus(n[2]))
    BY <1>4
  <2> DEFINE s == normalizeEasebuzzMandateStatus(n[2])
  <2>2. n[2] \in {"initiated", "authorized", "failed"}
    BY DEF PaInv, PaShape
  <2>3. s \in {"AUTHORIZED", "FAILED", "INITIATED"} /\ (s = "AUTHORIZED" => n[2] = "authorized")
    BY <2>2 DEF normalizeEasebuzzMandateStatus
  <2>4. s = "AUTHORIZED" => AuthorizedIn(paBank)
    BY <2>3 DEF PaInv, NoticesBacked
  <2>5. /\ paRow' = paRow \/ paRow' = [paRow EXCEPT ![a] = s]
        /\ paLoan' = paLoan \/ (s = "AUTHORIZED" /\ paLoan' = [paLoan EXCEPT !.mandate = TRUE])
    BY <2>1 DEF applyStatus
  <2> HIDE DEF s
  <2>6. QED
    BY <1>1, <1>2, <2>1, <2>3, <2>4, <2>5, StatusWritten
<1>5. QED
  BY <1>3, <1>4 DEF handleEasebuzzMandateWebhook

\* A page that waited goes on, stops or waits again.
LEMMA AnsweredMoves ==
  ASSUME PaInv, AttemptsKept, NEW t \in PaTabs, paTab[t].pc \in {"wait", "asking"},
         NEW otherwise \in {"idle", "wait"}, answered(t, otherwise)
  PROVE  PagesMove
<1>1. PICK pc \in {"load", "idle", "wait"} : paTab' = [paTab EXCEPT ![t].pc = pc, ![t].call = NoCall]
  BY DEF answered
<1> DEFINE page == [paTab[t] EXCEPT !.pc = pc, !.call = NoCall]
<1>2. NoCall \in StatusCall
  BY PaAssumption DEF NoCall, StatusCall, RowStatuses, Provided
<1>3. page \in PaPageRow /\ page.pc = pc /\ paTab' = [paTab EXCEPT ![t] = page]
  BY <1>1, <1>2 DEF PaInv, PaShape, PaPageRow
<1>4. SomeRow(paRow')
  BY DEF PaInv, PagesBacked, Waits, SomeRow, AttemptsKept
<1> HIDE DEF page
<1>5. Waits(page, paRow', paBank')
  BY <1>3, <1>4 DEF Waits
<1>6. QED
  BY <1>3, <1>5 DEF PagesMove, PaInv, PaShape

\* Polling reads; asking Easebuzz copies the newest row and the bank's answer about it.
LEMMA AskInv ==
  ASSUME PaInv, NEW t \in PaTabs,
         getMandateStatus(t) \/ \E closing \in BOOLEAN : refreshMandateStatus(t, closing)
  PROVE  PaInv'
<1>1. UNCHANGED <<paLoan, paRow, paBank, paNotices>> /\ paTab[t].pc = "wait"
  BY DEF getMandateStatus, refreshMandateStatus
<1>2. AttemptsKept
  BY <1>1 DEF AttemptsKept, PaInv, PaShape
<1>3. CASE getMandateStatus(t)
  <2>1. PagesMove
    BY <1>1, <1>2, <1>3, AnsweredMoves DEF getMandateStatus
  <2>2. QED
    BY <1>1, <2>1, AttemptsAlone DEF PaInv, PaShape
<1>4. CASE \E closing \in BOOLEAN : refreshMandateStatus(t, closing)
  <2>1. PICK closing \in BOOLEAN : refreshMandateStatus(t, closing)
    BY <1>4
  <2> DEFINE a == newestAttempt
  <2> DEFINE call == [at |-> a, read |-> paRow[a], told |-> paBank[a], closing |-> closing]
  <2> DEFINE page == [paTab[t] EXCEPT !.pc = "asking", !.call = call]
  <2>2. a \in Attempts /\ paRow[a] # "none" /\ paBank[a] # "none"
    BY <1>1, NewestAttempt DEF PaInv, PagesBacked, Waits, SameAttempts
  <2> HIDE DEF a
  <2>3. /\ call \in StatusCall /\ call.at = a /\ call.told = paBank[a]
    BY <2>2, PaAssumption DEF PaInv, PaShape, StatusCall, Attempts
  <2>4. paTab' = [paTab EXCEPT ![t] = page]
    BY <2>1 DEF refreshMandateStatus, a
  <2> HIDE DEF call
  <2>5. page \in PaPageRow /\ page.pc = "asking" /\ page.call = call
    BY <2>3 DEF PaInv, PaShape, PaPageRow
  <2> HIDE DEF page
  <2>6. Waits(page, paRow', paBank')
    BY <1>1, <2>2, <2>3, <2>5 DEF Waits, SomeRow, AuthorizedIn
  <2>7. PagesMove
    BY <2>4, <2>5, <2>6 DEF PagesMove, PaInv, PaShape
  <2>8. QED
    BY <1>1, <2>7, AttemptsAlone DEF PaInv, PaShape
<1>5. QED
  BY <1>3, <1>4

\* The answer is written over whatever the row became meanwhile.
LEMMA RefreshInv ==
  ASSUME PaInv, NEW t \in PaTabs, refreshAnswered(t)
  PROVE  PaInv'
<1> DEFINE call == paTab[t].call
<1> DEFINE s == normalizeEasebuzzMandateStatus(call.told)
<1>1. /\ call.at \in Attempts /\ paRow[call.at] # "none" /\ call.told # "none"
      /\ call.told = "authorized" => AuthorizedIn(paBank)
      /\ call.told \in Provided
  BY DEF refreshAnswered, PaInv, PagesBacked, Waits, PaShape, PaPageRow, StatusCall
<1>2. UNCHANGED <<paBank, paNotices>> /\ paTab[t].pc = "asking"
  BY DEF refreshAnswered
<1>3. PICK otherwise \in {"idle", "wait"} : answered(t, otherwise)
  BY DEF refreshAnswered
<1>4. CASE UNCHANGED <<paRow, paLoan>>
  <2>1. AttemptsKept
    BY <1>2, <1>4 DEF AttemptsKept, PaInv, PaShape
  <2>2. PagesMove
    BY <1>2, <1>3, <2>1, AnsweredMoves
  <2>3. QED
    BY <1>2, <1>4, <2>2, AttemptsAlone DEF PaInv, PaShape
<1>5. CASE /\ call.told # "created"
           /\ paRow' = [paRow EXCEPT ![call.at] = s]
           /\ paLoan' = IF s = "AUTHORIZED" THEN [paLoan EXCEPT !.mandate = TRUE] ELSE paLoan
  <2>1. s \in {"AUTHORIZED", "FAILED"} /\ (s = "AUTHORIZED" => call.told = "authorized")
    BY <1>1, <1>5 DEF normalizeEasebuzzMandateStatus, Provided
  <2> HIDE DEF s
  <2>2. AttemptsKept
    BY <1>2, <1>5, <2>1 DEF AttemptsKept, PaInv, PaShape, RowStatuses
  <2>3. PagesMove
    BY <1>2, <1>3, <2>2, AnsweredMoves
  <2>4. QED
    BY <1>1, <1>2, <1>5, <2>1, <2>3, StatusWritten
<1>6. QED
  BY <1>4, <1>5 DEF refreshAnswered

\* Every step keeps the invariant.
LEMMA PaNextInv == PaInv /\ [PaNext]_paVars => PaInv'
<1> SUFFICES ASSUME PaInv, [PaNext]_paVars PROVE PaInv'
  OBVIOUS
<1>1. ASSUME NEW t \in PaTabs, PaPage(t) PROVE PaInv'
  BY <1>1, ShowInv, OtherStepsInv, InitiateInv, KeyInv, AskInv, RefreshInv DEF PaPage
<1>2. CASE UNCHANGED paVars
  <2>1. PagesMove
    BY <1>2 DEF paVars, PagesMove, PaInv, PaShape
  <2>2. QED
    BY <1>2, <2>1, AttemptsAlone DEF paVars, PaInv, PaShape
<1>3. QED
  BY <1>1, <1>2, BankDecidesInv, WebhookInv DEF PaNext

\* A loan that counts its mandate as complete has an attempt the customer authorised at the
\* bank, for any number of tabs, attempts and faults: polling, refresh and webhook write
\* each on what they read or were told, on a row that may be another attempt's.
THEOREM MandateProvenHolds == PaSpec => []MandateProven
<1>1. PaInv => MandateProven
  BY DEF PaInv, LoanBacked, AuthorizedIn, MandateProven
<1>2. QED
  BY <1>1, PaInitInv, PaNextInv, PTL DEF PaSpec

--------------------------------------------------------------------------------
(* The bank statement.                                                      *)

Requested == Pending \cup Ended \cup {"SUCCESS"}
ConsentNotices == {"APPROVED", "REJECTED", "EXPIRED", "REVOKED"}
DataNotices == {"PENDING", "READY", "DENIED"}
Numbers == {"none", "login", "secondary"}

StatementRow == [mobile: Numbers, status: Requested, data: DataStates, session: BOOLEAN, bank: BOOLEAN]
StatementFile == [document: BOOLEAN, analysis: {"none", "SUCCESS", "FAILED"}, bankVerified: BOOLEAN]
StatementPage == [step: {"idle", "waiting", "stopped", "done"}, url: Numbers, row: Nat, popup: BOOLEAN]
StatementTask ==
  [pc: {"idle", "initiate", "consent", "data", "fetch", "call", "answer", "parse", "verify", "summary"},
   row: Nat, retry: BOOLEAN, page: BOOLEAN,
   seen: Numbers \cup (ConsentNotices \X DataStates) \cup (DataNotices \X Requested)]

\* Something a reviewer can open; and a request that counts as finished rests on it.
HasEvidence(file, rows) ==
  file.document \/ file.analysis = "SUCCESS" \/ \E i \in 1..Len(rows) : rows[i].bank
RequestsBacked(file, rows) ==
  (\E i \in 1..Len(rows) : rows[i].status = "SUCCESS") => HasEvidence(file, rows)

\* What a task holds of the rows between two of its queries: a row that is there, and a status
\* "SUCCESS" it may write back only when there was evidence for it.
TaskBacked(t, file, rows) ==
  /\ t \in StatementTask
  /\ t.pc = "initiate" => t.row \in 0..Len(rows) /\ t.seen \in Numbers
  /\ t.pc \in {"consent", "data", "fetch", "call", "answer", "summary"} => t.row \in 1..Len(rows)
  /\ t.pc = "consent" => t.seen \in ConsentNotices \X DataStates
  /\ t.pc = "data" => /\ t.seen \in DataNotices \X Requested
                      /\ t.seen[2] = "SUCCESS" => HasEvidence(file, rows)
  /\ t.pc \in {"parse", "verify"} => file.document

\* A notice under way is about a row; a window is opened only on the address of a row.
NoticeOf(h, rows) ==
  \/ \E i \in 1..Len(rows), v \in ConsentNotices : h = Hook("consent", i, v)
  \/ \E i \in 1..Len(rows), v \in DataNotices : h = Hook("data", i, v)
PageBacked(page, file, rows) ==
  /\ page \in StatementPage
  /\ page.popup \/ page.url # "none" => page.row \in 1..Len(rows)
  /\ page.step = "done" => HasEvidence(file, rows)

BkInv ==
  /\ aaRows \in Seq(StatementRow)
  /\ aaFile \in StatementFile
  /\ bankMobile \in {"login", "secondary"}
  /\ aaJobs \subseteq {"analyse", "export"} \X (1..Len(aaRows))
  /\ \A h \in aaHooks : NoticeOf(h, aaRows)
  /\ DOMAIN aaTask = Tasks /\ aaTask = [p \in Tasks |-> aaTask[p]]
  /\ \A p \in Tasks : TaskBacked(aaTask[p], aaFile, aaRows)
  /\ PageBacked(aaPage, aaFile, aaRows)
  /\ RequestsBacked(aaFile, aaRows)

\* The rows grow, and no step takes evidence away.
RowsGrow == aaRows' \in Seq(StatementRow) /\ Len(aaRows) <= Len(aaRows')
EvidenceKept == HasEvidence(aaFile, aaRows) => HasEvidence(aaFile', aaRows')

\* What a task holds stays backed while the rows grow and evidence is kept.
LEMMA TaskStaysBacked ==
  ASSUME BkInv, RowsGrow, EvidenceKept, aaFile.document => aaFile'.document, NEW t, TaskBacked(t, aaFile, aaRows)
  PROVE  TaskBacked(t, aaFile', aaRows')
<1>1. Len(aaRows) \in Nat /\ Len(aaRows') \in Nat /\ Len(aaRows) <= Len(aaRows')
  BY LenProperties DEF BkInv, RowsGrow
<1> DEFINE had == HasEvidence(aaFile, aaRows)
<1> DEFINE has == HasEvidence(aaFile', aaRows')
<1>2. had => has
  BY DEF EvidenceKept
<1>3. t.row \in Nat
  BY DEF TaskBacked, StatementTask
<1>4. /\ t.row \in 0..Len(aaRows) => t.row \in 0..Len(aaRows')
      /\ t.row \in 1..Len(aaRows) => t.row \in 1..Len(aaRows')
  BY <1>1, <1>3
<1>5. t.pc = "data" => t.seen \in DataNotices \X Requested /\ (t.seen[2] = "SUCCESS" => had)
  BY Zenon DEF TaskBacked
<1> HIDE DEF had, has
<1>6. t.pc = "data" => t.seen \in DataNotices \X Requested /\ (t.seen[2] = "SUCCESS" => has)
  BY <1>2, <1>5
<1>7. QED
  BY <1>4, <1>6, Zenon DEF TaskBacked, has

\* A step keeps the invariant when the rows grow, evidence is kept, and what it writes into the
\* page, the tasks, the notices and the jobs is backed.
LEMMA StatementStep ==
  ASSUME BkInv, RowsGrow, EvidenceKept,
         aaFile' \in StatementFile, aaFile.document => aaFile'.document,
         bankMobile' \in {"login", "secondary"},
         aaJobs' \subseteq aaJobs \cup ({"analyse", "export"} \X (1..Len(aaRows'))),
         \A h \in aaHooks' : h \in aaHooks \/ NoticeOf(h, aaRows'),
         DOMAIN aaTask' = Tasks, aaTask' = [p \in Tasks |-> aaTask'[p]],
         \A p \in Tasks : aaTask'[p] = aaTask[p] \/ TaskBacked(aaTask'[p], aaFile', aaRows'),
         aaPage' = aaPage \/ PageBacked(aaPage', aaFile', aaRows'),
         RequestsBacked(aaFile', aaRows')
  PROVE  BkInv'
<1>1. Len(aaRows) \in Nat /\ Len(aaRows') \in Nat /\ Len(aaRows) <= Len(aaRows')
  BY LenProperties DEF BkInv, RowsGrow
<1>2. \A i \in 1..Len(aaRows) : i \in 1..Len(aaRows')
  BY <1>1
<1>3. aaJobs' \subseteq {"analyse", "export"} \X (1..Len(aaRows'))
  <2>1. aaJobs \subseteq {"analyse", "export"} \X (1..Len(aaRows))
    BY DEF BkInv
  <2> DEFINE n == Len(aaRows)
  <2> DEFINE m == Len(aaRows')
  <2>2. (1..n) \subseteq (1..m)
    BY <1>2
  <2> HIDE DEF n, m
  <2>3. {"analyse", "export"} \X (1..n) \subseteq {"analyse", "export"} \X (1..m)
    BY <2>2
  <2>4. QED
    BY <2>1, <2>3 DEF n, m
<1>4. \A h \in aaHooks' : NoticeOf(h, aaRows')
  BY <1>2, Zenon DEF BkInv, NoticeOf
<1>5. \A p \in Tasks : TaskBacked(aaTask'[p], aaFile', aaRows')
  <2> TAKE p \in Tasks
  <2>1. CASE aaTask'[p] = aaTask[p]
    BY <2>1, TaskStaysBacked DEF BkInv
  <2>2. QED
    BY <2>1
<1>6. PageBacked(aaPage', aaFile', aaRows')
  BY <1>2, Zenon DEF BkInv, PageBacked, EvidenceKept
<1>7. QED
  BY <1>3, <1>4, <1>5, <1>6 DEF BkInv, RowsGrow

\* A step that touches no row and no evidence.
LEMMA NoRowTouched ==
  ASSUME BkInv, UNCHANGED <<aaRows, aaFile>>
  PROVE  /\ RowsGrow /\ EvidenceKept /\ aaFile' \in StatementFile
         /\ aaFile.document => aaFile'.document
         /\ RequestsBacked(aaFile', aaRows')
<1>1. Len(aaRows) \in Nat
  BY LenProperties DEF BkInv
<1>2. QED
  BY <1>1 DEF BkInv, RowsGrow, EvidenceKept

\* One row is written: it keeps its account data and becomes "SUCCESS" only with evidence.
LEMMA OneRowWritten ==
  ASSUME BkInv, NEW i \in 1..Len(aaRows), NEW row \in StatementRow,
         aaRows[i].bank => row.bank,
         aaFile' \in StatementFile, aaFile.document => aaFile'.document,
         aaFile.analysis = "SUCCESS" => aaFile'.analysis = "SUCCESS",
         aaRows' = [aaRows EXCEPT ![i] = row],
         row.status = "SUCCESS" => \/ aaRows[i].status = "SUCCESS" \/ HasEvidence(aaFile, aaRows) \/ row.bank
                                   \/ aaFile'.document \/ aaFile'.analysis = "SUCCESS"
  PROVE  RowsGrow /\ EvidenceKept /\ RequestsBacked(aaFile', aaRows') /\ Len(aaRows') = Len(aaRows)
<1>1. /\ aaRows' \in Seq(StatementRow) /\ Len(aaRows') = Len(aaRows) /\ Len(aaRows) \in Nat
      /\ \A j \in 1..Len(aaRows) : aaRows'[j] = IF j = i THEN row ELSE aaRows[j]
  BY ExceptSeq, LenProperties DEF BkInv
<1>2. \A j \in 1..Len(aaRows) : aaRows[j].bank => aaRows'[j].bank
  BY <1>1
<1>3. EvidenceKept
  BY <1>1, <1>2 DEF EvidenceKept, HasEvidence
<1>4. row.bank => HasEvidence(aaFile', aaRows')
  BY <1>1 DEF HasEvidence
<1>5. ASSUME NEW j \in 1..Len(aaRows), aaRows'[j].status = "SUCCESS" PROVE HasEvidence(aaFile', aaRows')
  <2>1. CASE j # i \/ aaRows[i].status = "SUCCESS"
    <3>1. \E k \in 1..Len(aaRows) : aaRows[k].status = "SUCCESS"
      BY <1>1, <1>5, <2>1
    <3>2. HasEvidence(aaFile, aaRows)
      BY <3>1 DEF BkInv, RequestsBacked
    <3>3. QED
      BY <1>3, <3>2 DEF EvidenceKept
  <2>2. CASE j = i /\ aaRows[i].status # "SUCCESS"
    <3>1. row.status = "SUCCESS"
      BY <1>1, <1>5, <2>2
    <3>2. CASE HasEvidence(aaFile, aaRows)
      BY <1>3, <3>2 DEF EvidenceKept
    <3>3. CASE aaFile'.document \/ aaFile'.analysis = "SUCCESS"
      BY <3>3, Zenon DEF HasEvidence
    <3>4. QED
      BY <1>4, <2>2, <3>1, <3>2, <3>3
  <2>3. QED
    BY <2>1, <2>2
<1>6. RequestsBacked(aaFile', aaRows')
  BY <1>1, <1>5, Zenon DEF RequestsBacked
<1>7. QED
  BY <1>1, <1>3, <1>6 DEF RowsGrow

\* One task is written, with something that is backed.
LEMMA OneTaskWritten ==
  ASSUME BkInv, NEW p \in Tasks, NEW t, TaskBacked(t, aaFile', aaRows'), aaTask' = [aaTask EXCEPT ![p] = t]
  PROVE  /\ DOMAIN aaTask' = Tasks /\ aaTask' = [q \in Tasks |-> aaTask'[q]]
         /\ \A q \in Tasks : aaTask'[q] = aaTask[q] \/ TaskBacked(aaTask'[q], aaFile', aaRows')
<1>1. aaTask' = [q \in Tasks |-> IF q = p THEN t ELSE aaTask[q]]
  BY DEF BkInv
<1>2. QED
  BY <1>1

LEMMA NoTaskWritten ==
  ASSUME BkInv, UNCHANGED aaTask
  PROVE  /\ DOMAIN aaTask' = Tasks /\ aaTask' = [q \in Tasks |-> aaTask'[q]]
         /\ \A q \in Tasks : aaTask'[q] = aaTask[q]
BY DEF BkInv

LEMMA IdleIsBacked == ASSUME NEW file, NEW rows PROVE TaskBacked(NoTask, file, rows)
BY DEF TaskBacked, NoTask, StatementTask, Numbers

LEMMA AaInitInv == AaInit => BkInv
<1> SUFFICES ASSUME AaInit PROVE BkInv
  OBVIOUS
<1>1. aaRows = <<>> /\ aaRows \in Seq(StatementRow) /\ Len(aaRows) = 0
  BY EmptySeq DEF AaInit
<1>2. \A p \in Tasks : TaskBacked(aaTask[p], aaFile, aaRows)
  BY IdleIsBacked DEF AaInit
<1>3. aaFile \in StatementFile /\ PageBacked(aaPage, aaFile, aaRows)
  BY DEF AaInit, StatementFile, PageBacked, StatementPage, Numbers
<1>4. RequestsBacked(aaFile, aaRows)
  BY <1>1 DEF RequestsBacked
<1>5. QED
  BY <1>1, <1>2, <1>3, <1>4 DEF AaInit, BkInv

\* A step that only ends or moves a task on.
LEMMA TaskAlone ==
  ASSUME BkInv, NEW p \in Tasks, NEW t, TaskBacked(t, aaFile, aaRows), aaTask' = [aaTask EXCEPT ![p] = t],
         UNCHANGED <<aaRows, aaFile>>, UNCHANGED bankMobile, aaJobs' \subseteq aaJobs,
         aaHooks' \subseteq aaHooks, aaPage' = aaPage \/ PageBacked(aaPage', aaFile', aaRows')
  PROVE  BkInv'
<1>1. TaskBacked(t, aaFile', aaRows')
  BY Zenon
<1>2. bankMobile' \in {"login", "secondary"} /\ aaJobs' \subseteq aaJobs \cup ({"analyse", "export"} \X (1..Len(aaRows')))
  BY DEF BkInv
<1>3. QED
  BY <1>1, <1>2, NoRowTouched, OneTaskWritten, StatementStep

\* A task that starts with a row and what it read.
TaskStart(pc, row, seen) == [NoTask EXCEPT !.pc = pc, !.row = row, !.seen = seen]
LEMMA TaskStarted ==
  ASSUME NEW pc \in {"initiate", "data"}, NEW row \in Nat,
         NEW seen \in Numbers \cup (ConsentNotices \X DataStates) \cup (DataNotices \X Requested)
  PROVE  /\ TaskStart(pc, row, seen) \in StatementTask
         /\ TaskStart(pc, row, seen).pc = pc
         /\ TaskStart(pc, row, seen).row = row
         /\ TaskStart(pc, row, seen).seen = seen
<1> DEFINE Seen == Numbers \cup (ConsentNotices \X DataStates) \cup (DataNotices \X Requested)
<1>1. seen \in Seen /\ "none" \in Seen
  BY DEF Numbers
<1> HIDE DEF Seen
<1>2. TaskStart(pc, row, seen)
        \in [pc: {"idle", "initiate", "consent", "data", "fetch", "call", "answer", "parse", "verify", "summary"},
             row: Nat, retry: BOOLEAN, page: BOOLEAN, seen: Seen]
  BY <1>1 DEF NoTask, TaskStart
<1>3. QED
  BY <1>2 DEF StatementTask, Seen, NoTask, TaskStart

LEMMA ConnectInv == ASSUME BkInv, NEW p \in Tasks, handleConnectBank(p) PROVE BkInv'
<1>1. PICK i \in Reusable \cup {0} :
        aaTask' = [aaTask EXCEPT ![p] = [NoTask EXCEPT !.pc = "initiate", !.row = i, !.seen = bankMobile]]
  BY DEF handleConnectBank
<1> DEFINE t == TaskStart("initiate", i, bankMobile)
<1>2. i \in 0..Len(aaRows) /\ Len(aaRows) \in Nat
  BY LenProperties DEF BkInv, Reusable, AaRows
<1>3. TaskBacked(t, aaFile, aaRows)
  <2>1. i \in Nat /\ bankMobile \in Numbers
    BY <1>2 DEF BkInv, Numbers
  <2>2. t \in StatementTask /\ t.pc = "initiate" /\ t.row = i /\ t.seen = bankMobile
    BY <2>1, TaskStarted
  <2> HIDE DEF t
  <2>3. QED
    BY <1>2, <2>1, <2>2 DEF TaskBacked
<1>4. aaTask' = [aaTask EXCEPT ![p] = t]
  BY <1>1, Zenon DEF TaskStart
<1> HIDE DEF t
<1>5. QED
  BY <1>3, <1>4, TaskAlone DEF handleConnectBank

LEMMA InitiatedInv == ASSUME BkInv, NEW p \in Tasks, initiateAccountAggregator(p) PROVE BkInv'
<1> DEFINE r == aaTask[p].row
<1> DEFINE number == aaTask[p].seen
<1>1. TaskBacked(aaTask[p], aaFile, aaRows) /\ aaTask[p].pc = "initiate"
  BY DEF BkInv, initiateAccountAggregator
<1>2. r \in 0..Len(aaRows) /\ number \in Numbers /\ Len(aaRows) \in Nat
  BY <1>1, LenProperties DEF TaskBacked, BkInv
<1>3. aaFile' = aaFile /\ aaFile' \in StatementFile
  BY DEF BkInv, initiateAccountAggregator
<1>4. PICK opened \in BOOLEAN :
        \/ /\ r = 0
           /\ aaRows' = Append(aaRows, NewRow(number, "INITIATED", "none"))
           /\ aaPage' = [step |-> "waiting", url |-> number, row |-> Newest + 1, popup |-> opened]
        \/ /\ r # 0
           /\ aaRows' = [aaRows EXCEPT ![r].status = "INITIATED"]
           /\ aaPage' = [step |-> "waiting", url |-> number, row |-> r, popup |-> opened]
  BY Zenon DEF initiateAccountAggregator
<1>5. CASE r = 0
  <2> DEFINE row == NewRow(number, "INITIATED", "none")
  <2>1. row \in StatementRow /\ row.status # "SUCCESS"
    BY <1>2 DEF NewRow, StatementRow, Requested, Pending, DataStates
  <2>2. aaRows' = Append(aaRows, row)
    BY <1>4, <1>5
  <2> HIDE DEF row
  <2>3. /\ aaRows' \in Seq(StatementRow) /\ Len(aaRows') = Len(aaRows) + 1
        /\ \A i \in 1..Len(aaRows) : aaRows'[i] = aaRows[i]
        /\ aaRows'[Len(aaRows) + 1] = row
    BY <2>1, <2>2, AppendProperties DEF BkInv
  <2>4. RowsGrow /\ EvidenceKept
    BY <1>2, <1>3, <2>3 DEF RowsGrow, EvidenceKept, HasEvidence
  <2>5. RequestsBacked(aaFile', aaRows')
    BY <1>2, <2>1, <2>3, <2>4 DEF BkInv, RequestsBacked, EvidenceKept
  <2>6. PageBacked(aaPage', aaFile', aaRows')
    BY <1>2, <1>4, <1>5, <2>3 DEF PageBacked, StatementPage, Newest
  <2>7. QED
    BY <1>3, <2>4, <2>5, <2>6, OneTaskWritten, IdleIsBacked, StatementStep DEF initiateAccountAggregator, BkInv
<1>6. CASE r # 0
  <2> DEFINE row == [aaRows[r] EXCEPT !.status = "INITIATED"]
  <2>1. r \in 1..Len(aaRows) /\ aaRows[r] \in StatementRow
    BY <1>2, <1>6, ElementOfSeq DEF BkInv
  <2>2. row \in StatementRow /\ row.status # "SUCCESS" /\ row.bank = aaRows[r].bank
    BY <2>1 DEF StatementRow, Requested, Pending
  <2>3. aaRows' = [aaRows EXCEPT ![r] = row]
    BY <1>4, <1>6
  <2> HIDE DEF row
  <2>4. RowsGrow /\ EvidenceKept /\ RequestsBacked(aaFile', aaRows') /\ Len(aaRows') = Len(aaRows)
    BY <1>3, <2>1, <2>2, <2>3, OneRowWritten
  <2>5. PageBacked(aaPage', aaFile', aaRows')
    BY <1>2, <1>4, <1>6, <2>1, <2>4 DEF PageBacked, StatementPage
  <2>6. QED
    BY <1>3, <2>4, <2>5, OneTaskWritten, IdleIsBacked, StatementStep DEF initiateAccountAggregator, BkInv
<1>7. QED
  BY <1>5, <1>6

\* The page opens its window again, takes a number, closes; the customer answers.
LEMMA PageInv == ASSUME BkInv, handleOpenSdk \/ saveSecondaryMobile \/ DecideConsent PROVE BkInv'
<1>1. ASSUME handleOpenSdk PROVE BkInv'
  <2>1. PageBacked(aaPage', aaFile', aaRows')
    BY <1>1 DEF handleOpenSdk, BkInv, PageBacked, StatementPage
  <2>2. QED
    BY <1>1, <2>1, NoRowTouched, NoTaskWritten, StatementStep DEF handleOpenSdk, BkInv
<1>2. ASSUME saveSecondaryMobile PROVE BkInv'
  BY <1>2, NoRowTouched, NoTaskWritten, StatementStep DEF saveSecondaryMobile, BkInv
<1>3. ASSUME DecideConsent PROVE BkInv'
  <2>1. PageBacked(aaPage', aaFile', aaRows')
    BY <1>3 DEF DecideConsent, BkInv, PageBacked, StatementPage
  <2>2. aaPage.row \in 1..Len(aaRows')
    BY <1>3 DEF DecideConsent, BkInv, PageBacked
  <2>3. PICK d \in {"APPROVED", "REJECTED"} : aaHooks' = aaHooks \cup {Hook("consent", aaPage.row, d)}
    BY <1>3 DEF DecideConsent
  <2>4. NoticeOf(Hook("consent", aaPage.row, d), aaRows')
    BY <2>2 DEF NoticeOf, ConsentNotices
  <2>5. QED
    BY <1>3, <2>1, <2>3, <2>4, NoRowTouched, NoTaskWritten, StatementStep DEF DecideConsent, BkInv
<1>4. QED
  BY <1>1, <1>2, <1>3

\* The aggregator sends notices.
LEMMA AggregatorInv ==
  ASSUME BkInv, NEW i \in 1..Len(aaRows), OpenSession(i) \/ Compile(i) \/ EndConsent(i)
  PROVE  BkInv'
<1>1. /\ UNCHANGED <<aaRows, aaFile>> /\ UNCHANGED aaTask /\ UNCHANGED <<aaJobs, aaPage, bankMobile>>
      /\ \/ \E v \in DataNotices : aaHooks' = aaHooks \cup {Hook("data", i, v)}
         \/ \E v \in ConsentNotices : aaHooks' = aaHooks \cup {Hook("consent", i, v)}
  BY DEF OpenSession, Compile, EndConsent, DataNotices, ConsentNotices
<1>2. \A h \in aaHooks' : h \in aaHooks \/ NoticeOf(h, aaRows')
  BY <1>1, Zenon DEF NoticeOf
<1>3. bankMobile' \in {"login", "secondary"} /\ aaJobs' \subseteq aaJobs \cup ({"analyse", "export"} \X (1..Len(aaRows')))
  BY <1>1 DEF BkInv
<1>4. QED
  BY <1>1, <1>2, <1>3, NoRowTouched, NoTaskWritten, StatementStep

\* A task that holds the number of a row it is about to fetch, or to answer for.
LEMMA RowTaskBacked ==
  ASSUME BkInv, NEW i \in 1..Len(aaRows), NEW pc \in {"fetch", "call", "answer"},
         NEW again \in BOOLEAN, NEW asked \in BOOLEAN
  PROVE  TaskBacked([pc |-> pc, row |-> i, seen |-> "none", retry |-> again, page |-> asked], aaFile, aaRows)
<1>1. Len(aaRows) \in Nat
  BY LenProperties DEF BkInv
<1>2. QED
  BY <1>1 DEF TaskBacked, StatementTask, Numbers

\* A webhook is read: the values of the row that its handler keeps, "SUCCESS" with its evidence.
LEMMA NoticeReadInv == ASSUME BkInv, NEW p \in Tasks, readConsentRequest(p) \/ readDataRequest(p) PROVE BkInv'
<1>1. Len(aaRows) \in Nat
  BY LenProperties DEF BkInv
<1>2. ASSUME readConsentRequest(p) PROVE BkInv'
  <2>1. PICK h \in aaHooks :
          /\ h.kind = "consent" /\ Receive(h)
          /\ aaTask' = [aaTask EXCEPT ![p] = [pc |-> "consent", row |-> Newest, retry |-> FALSE, page |-> FALSE,
                                              seen |-> <<h.value, aaRows[Newest].data>>]]
    BY <1>2 DEF readConsentRequest
  <2>2. PICK i \in 1..Len(aaRows) : h.value \in ConsentNotices
    BY <2>1 DEF BkInv, NoticeOf, Hook
  <2>3. Newest \in 1..Len(aaRows) /\ aaRows[Newest] \in StatementRow
    BY <1>1, <2>2, ElementOfSeq DEF Newest, BkInv
  <2> DEFINE seen == <<h.value, aaRows[Newest].data>>
  <2>4. seen \in ConsentNotices \X DataStates
    BY <2>2, <2>3 DEF StatementRow
  <2> HIDE DEF seen
  <2> DEFINE t == [pc |-> "consent", row |-> Newest, retry |-> FALSE, page |-> FALSE, seen |-> seen]
  <2>5. TaskBacked(t, aaFile, aaRows)
    BY <1>1, <2>3, <2>4 DEF TaskBacked, StatementTask
  <2>6. aaTask' = [aaTask EXCEPT ![p] = t]
    BY <2>1 DEF seen
  <2> HIDE DEF t
  <2>7. QED
    BY <1>2, <2>1, <2>5, <2>6, TaskAlone DEF readConsentRequest, Receive
<1>3. ASSUME readDataRequest(p) PROVE BkInv'
  <2>1. PICK h \in aaHooks :
          /\ h.kind = "data" /\ Receive(h)
          /\ aaTask' = [aaTask EXCEPT ![p] = [NoTask EXCEPT !.pc = "data", !.row = h.row,
                                                            !.seen = <<h.value, aaRows[h.row].status>>]]
    BY <1>3 DEF readDataRequest
  <2>2. h.row \in 1..Len(aaRows) /\ h.value \in DataNotices
    BY <2>1 DEF BkInv, NoticeOf, Hook
  <2>3. aaRows[h.row] \in StatementRow
    BY <2>2, ElementOfSeq DEF BkInv
  <2> DEFINE seen == <<h.value, aaRows[h.row].status>>
  <2>4. seen \in DataNotices \X Requested /\ seen[2] = aaRows[h.row].status
    BY <2>2, <2>3 DEF StatementRow
  <2>5. aaRows[h.row].status = "SUCCESS" => HasEvidence(aaFile, aaRows)
    BY <2>2 DEF BkInv, RequestsBacked
  <2> HIDE DEF seen
  <2> DEFINE t == TaskStart("data", h.row, seen)
  <2>6. aaTask' = [aaTask EXCEPT ![p] = t]
    BY <2>1, Zenon DEF seen, TaskStart
  <2>7. t \in StatementTask /\ t.pc = "data" /\ t.row = h.row /\ t.seen = seen
    <3>1. h.row \in Nat
      BY <1>1, <2>2
    <3>2. QED
      BY <2>4, <3>1, TaskStarted
  <2> HIDE DEF t
  <2>8. TaskBacked(t, aaFile, aaRows)
    BY <2>2, <2>4, <2>5, <2>7 DEF TaskBacked
  <2>9. QED
    BY <1>3, <2>1, <2>6, <2>8, TaskAlone DEF readDataRequest, Receive
<1>4. QED
  BY <1>2, <1>3

\* The consent is written over the row as it was read: no status "SUCCESS".
LEMMA ConsentInv == ASSUME BkInv, NEW p \in Tasks, handleConsentNotification(p) PROVE BkInv'
<1> DEFINE i == aaTask[p].row
<1> DEFINE value == aaTask[p].seen[1]
<1> DEFINE data == aaTask[p].seen[2]
<1> DEFINE st == [APPROVED |-> "CONSENT_APPROVED", REJECTED |-> "FAILED", EXPIRED |-> "EXPIRED", REVOKED |-> "CANCELLED"]
<1> DEFINE d == [APPROVED |-> data, REJECTED |-> "CANCELLED", EXPIRED |-> "EXPIRED", REVOKED |-> "CANCELLED"]
<1>1. TaskBacked(aaTask[p], aaFile, aaRows) /\ aaTask[p].pc = "consent"
  BY DEF BkInv, handleConsentNotification
<1>2. i \in 1..Len(aaRows) /\ value \in ConsentNotices /\ data \in DataStates /\ aaRows[i] \in StatementRow
  <2>1. i \in 1..Len(aaRows) /\ aaTask[p].seen \in ConsentNotices \X DataStates
    BY <1>1 DEF TaskBacked
  <2>2. QED
    BY <2>1, ElementOfSeq DEF BkInv
<1>3. /\ aaRows' = [aaRows EXCEPT ![i].status = st[value], ![i].data = d[value]]
      /\ aaTask' = [aaTask EXCEPT ![p] = NoTask]
      /\ UNCHANGED <<aggregator, aaHooks, aaJobs, aaFile, aaPage, bankMobile, aaFaults>>
  BY Zenon DEF handleConsentNotification
<1>4. st[value] \in Requested /\ st[value] # "SUCCESS" /\ d[value] \in DataStates
  BY <1>2 DEF ConsentNotices, Requested, Pending, Ended, DataStates
<1> HIDE DEF st, d, value, data, i
<1> DEFINE row == [aaRows[i] EXCEPT !.status = st[value], !.data = d[value]]
<1>5. row \in StatementRow /\ row.status # "SUCCESS" /\ row.bank = aaRows[i].bank
  BY <1>2, <1>4 DEF StatementRow
<1>6. aaRows' = [aaRows EXCEPT ![i] = row]
  <2>1. aaRows = [j \in 1..Len(aaRows) |-> aaRows[j]] /\ DOMAIN aaRows = 1..Len(aaRows)
    BY LenProperties DEF BkInv
  <2>2. QED
    BY <1>2, <1>3, <2>1
<1> HIDE DEF row
<1>7. RowsGrow /\ EvidenceKept /\ RequestsBacked(aaFile', aaRows') /\ Len(aaRows') = Len(aaRows)
  BY <1>2, <1>3, <1>5, <1>6, OneRowWritten DEF BkInv
<1>8. QED
  BY <1>3, <1>7, OneTaskWritten, IdleIsBacked, StatementStep DEF BkInv

\* A notice without data keeps the status that was read, which is "SUCCESS" with evidence.
LEMMA DataInv == ASSUME BkInv, NEW p \in Tasks, handleDataNotification(p) PROVE BkInv'
<1> DEFINE i == aaTask[p].row
<1> DEFINE value == aaTask[p].seen[1]
<1> DEFINE was == aaTask[p].seen[2]
<1> DEFINE st == [READY |-> "DATA_PENDING", DENIED |-> "FAILED", PENDING |-> was]
<1> DEFINE t == IF value = "READY" THEN [NoTask EXCEPT !.pc = "fetch", !.row = i] ELSE NoTask
<1>1. TaskBacked(aaTask[p], aaFile, aaRows) /\ aaTask[p].pc = "data"
  BY DEF BkInv, handleDataNotification
<1>2. /\ i \in 1..Len(aaRows) /\ value \in DataNotices /\ was \in Requested /\ aaRows[i] \in StatementRow
      /\ was = "SUCCESS" => HasEvidence(aaFile, aaRows)
  <2>1. /\ i \in 1..Len(aaRows) /\ aaTask[p].seen \in DataNotices \X Requested
        /\ was = "SUCCESS" => HasEvidence(aaFile, aaRows)
    BY <1>1, Zenon DEF TaskBacked
  <2>2. QED
    BY <2>1, ElementOfSeq DEF BkInv
<1>3. /\ aaRows' = [aaRows EXCEPT ![i].session = TRUE, ![i].data = value, ![i].status = st[value]]
      /\ aaJobs' = (IF value = "DENIED" THEN aaJobs \cup {<<"analyse", i>>} ELSE aaJobs)
      /\ aaTask' = [aaTask EXCEPT ![p] = t]
      /\ UNCHANGED <<aggregator, aaHooks, aaFile, aaPage, bankMobile, aaFaults>>
  BY Zenon DEF handleDataNotification
<1>4. st[value] \in Requested /\ (st[value] = "SUCCESS" => was = "SUCCESS") /\ value \in DataStates
  BY <1>2 DEF DataNotices, Requested, Pending, Ended, DataStates
<1>5. t = NoTask \/ t = [pc |-> "fetch", row |-> i, seen |-> "none", retry |-> FALSE, page |-> FALSE]
  BY DEF NoTask
<1> HIDE DEF st, value, was, i, t
<1> DEFINE row == [aaRows[i] EXCEPT !.session = TRUE, !.data = value, !.status = st[value]]
<1>6. row \in StatementRow /\ row.status = st[value] /\ row.bank = aaRows[i].bank
  BY <1>2, <1>4 DEF StatementRow
<1>7. aaRows' = [aaRows EXCEPT ![i] = row]
  <2>1. aaRows = [j \in 1..Len(aaRows) |-> aaRows[j]] /\ DOMAIN aaRows = 1..Len(aaRows)
    BY LenProperties DEF BkInv
  <2>2. QED
    BY <1>2, <1>3, <2>1
<1> HIDE DEF row
<1>8. RowsGrow /\ EvidenceKept /\ RequestsBacked(aaFile', aaRows') /\ Len(aaRows') = Len(aaRows)
  BY <1>2, <1>3, <1>4, <1>6, <1>7, OneRowWritten DEF BkInv
<1>9. TaskBacked(t, aaFile', aaRows')
  <2>1. TaskBacked(t, aaFile, aaRows)
    BY <1>2, <1>5, IdleIsBacked, RowTaskBacked
  <2>2. QED
    BY <1>3, <1>8, <2>1, TaskStaysBacked
<1>10. aaJobs' \subseteq aaJobs \cup ({"analyse", "export"} \X (1..Len(aaRows')))
  BY <1>2, <1>3, <1>8
<1>11. QED
  BY <1>3, <1>8, <1>9, <1>10, OneTaskWritten, StatementStep DEF BkInv

\* A task moves on with the row it has.
LEMMA RowTaskMoves ==
  ASSUME NEW file, NEW rows, NEW u, TaskBacked(u, file, rows), u.row \in 1..Len(rows),
         NEW pc \in {"fetch", "call", "answer"}
  PROVE  /\ TaskBacked([u EXCEPT !.pc = pc], file, rows)
         /\ TaskBacked([u EXCEPT !.pc = pc, !.retry = TRUE], file, rows)
<1> DEFINE v == [u EXCEPT !.pc = pc]
<1> DEFINE w == [u EXCEPT !.pc = pc, !.retry = TRUE]
<1>1. u \in StatementTask
  BY DEF TaskBacked
<1>2. /\ v \in StatementTask /\ v.pc = pc /\ v.row = u.row
      /\ w \in StatementTask /\ w.pc = pc /\ w.row = u.row
  BY <1>1 DEF StatementTask
<1> HIDE DEF v, w
<1>3. TaskBacked(v, file, rows) /\ TaskBacked(w, file, rows)
  BY <1>2 DEF TaskBacked
<1>4. QED
  BY <1>3 DEF v, w

\* After its fetch a task answers the page that asked, or ends.
LEMMA AfterFetchBacked ==
  ASSUME BkInv, NEW p \in Tasks, aaTask[p].row \in 1..Len(aaRows)
  PROVE  TaskBacked(AfterFetch(p), aaFile, aaRows)
<1>1. TaskBacked(aaTask[p], aaFile, aaRows)
  BY DEF BkInv
<1>2. TaskBacked([aaTask[p] EXCEPT !.pc = "answer"], aaFile, aaRows)
  BY <1>1, RowTaskMoves
<1>3. QED
  BY <1>2, IdleIsBacked DEF AfterFetch

LEMMA FetchInv == ASSUME BkInv, NEW p \in Tasks, fetchDataBySession(p) PROVE BkInv'
<1> DEFINE i == aaTask[p].row
<1> DEFINE t == IF aaRows[i].status = "SUCCESS" /\ aaRows[i].bank
                THEN IF aaTask[p].page THEN [aaTask[p] EXCEPT !.pc = "answer"] ELSE NoTask
                ELSE [aaTask[p] EXCEPT !.pc = "call"]
<1>1. TaskBacked(aaTask[p], aaFile, aaRows) /\ aaTask[p].pc = "fetch"
  BY DEF BkInv, fetchDataBySession
<1>2. i \in 1..Len(aaRows)
  BY <1>1 DEF TaskBacked
<1>3. /\ TaskBacked([aaTask[p] EXCEPT !.pc = "answer"], aaFile, aaRows)
      /\ TaskBacked([aaTask[p] EXCEPT !.pc = "call"], aaFile, aaRows)
      /\ TaskBacked(NoTask, aaFile, aaRows)
  BY <1>1, <1>2, RowTaskMoves, IdleIsBacked
<1>4. TaskBacked(t, aaFile, aaRows)
  BY <1>3
<1>5. aaTask' = [aaTask EXCEPT ![p] = t]
  BY DEF fetchDataBySession, BkInv
<1> HIDE DEF t
<1>6. QED
  BY <1>4, <1>5, TaskAlone DEF fetchDataBySession

\* No data yet: tried again, or left to the next poll.
LEMMA KeepWaitingInv == ASSUME BkInv, NEW p \in Tasks, keepWaiting(p) PROVE BkInv'
<1> DEFINE i == aaTask[p].row
<1>1. TaskBacked(aaTask[p], aaFile, aaRows) /\ aaTask[p].pc = "call"
  BY DEF BkInv, keepWaiting
<1>2. i \in 1..Len(aaRows) /\ aaRows[i] \in StatementRow
  BY <1>1, ElementOfSeq DEF TaskBacked, BkInv
<1>3. /\ UNCHANGED <<aggregator, aaHooks, aaJobs, aaFile, aaPage, bankMobile>>
      /\ \/ /\ aaRows' = [aaRows EXCEPT ![i].status = "DATA_PENDING", ![i].data = "DATA_PENDING"]
            /\ aaTask' = [aaTask EXCEPT ![p] = AfterFetch(p)]
         \/ /\ aaTask' = [aaTask EXCEPT ![p].pc = "fetch", ![p].retry = TRUE]
            /\ UNCHANGED aaRows
  BY Zenon DEF keepWaiting
<1>4. CASE UNCHANGED aaRows /\ aaTask' = [aaTask EXCEPT ![p].pc = "fetch", ![p].retry = TRUE]
  <2> DEFINE t == [aaTask[p] EXCEPT !.pc = "fetch", !.retry = TRUE]
  <2>1. TaskBacked(t, aaFile, aaRows)
    BY <1>1, <1>2, RowTaskMoves
  <2>2. aaTask' = [aaTask EXCEPT ![p] = t]
    BY <1>4 DEF BkInv
  <2> HIDE DEF t
  <2>3. QED
    BY <1>3, <1>4, <2>1, <2>2, TaskAlone
<1>5. CASE /\ aaRows' = [aaRows EXCEPT ![i].status = "DATA_PENDING", ![i].data = "DATA_PENDING"]
           /\ aaTask' = [aaTask EXCEPT ![p] = AfterFetch(p)]
  <2> DEFINE row == [aaRows[i] EXCEPT !.status = "DATA_PENDING", !.data = "DATA_PENDING"]
  <2>1. row \in StatementRow /\ row.status # "SUCCESS" /\ row.bank = aaRows[i].bank
    BY <1>2 DEF StatementRow, Requested, Pending, DataStates
  <2>2. aaRows' = [aaRows EXCEPT ![i] = row]
    <3>1. aaRows = [j \in 1..Len(aaRows) |-> aaRows[j]] /\ DOMAIN aaRows = 1..Len(aaRows)
      BY LenProperties DEF BkInv
    <3>2. QED
      BY <1>2, <1>5, <3>1
  <2> HIDE DEF row
  <2>3. RowsGrow /\ EvidenceKept /\ RequestsBacked(aaFile', aaRows') /\ Len(aaRows') = Len(aaRows)
    BY <1>2, <1>3, <2>1, <2>2, OneRowWritten DEF BkInv
  <2>4. TaskBacked(AfterFetch(p), aaFile', aaRows')
    BY <1>2, <1>3, <2>3, AfterFetchBacked, TaskStaysBacked
  <2>5. QED
    BY <1>3, <1>5, <2>3, <2>4, OneTaskWritten, StatementStep DEF BkInv
<1>6. QED
  BY <1>3, <1>4, <1>5

\* The statement is stored together with "SUCCESS".
LEMMA StoreInv == ASSUME BkInv, NEW p \in Tasks, storeAccounts(p) PROVE BkInv'
<1> DEFINE i == aaTask[p].row
<1>1. TaskBacked(aaTask[p], aaFile, aaRows) /\ aaTask[p].pc = "call"
  BY DEF BkInv, storeAccounts
<1>2. i \in 1..Len(aaRows) /\ aaRows[i] \in StatementRow
  BY <1>1, ElementOfSeq DEF TaskBacked, BkInv
<1>3. /\ aaRows' = [aaRows EXCEPT ![i].status = "SUCCESS", ![i].data = "COMPLETED", ![i].bank = TRUE]
      /\ aaFile' = [aaFile EXCEPT !.bankVerified = TRUE]
      /\ aaJobs' = aaJobs \cup {<<"export", i>>}
      /\ aaTask' = [aaTask EXCEPT ![p] = AfterFetch(p)]
      /\ UNCHANGED <<aggregator, aaHooks, aaPage, bankMobile, aaFaults>>
  BY Zenon DEF storeAccounts
<1>4. /\ aaFile' \in StatementFile
      /\ aaFile.document => aaFile'.document
      /\ aaFile.analysis = "SUCCESS" => aaFile'.analysis = "SUCCESS"
  BY <1>3 DEF BkInv, StatementFile
<1> DEFINE row == [aaRows[i] EXCEPT !.status = "SUCCESS", !.data = "COMPLETED", !.bank = TRUE]
<1>5. row \in StatementRow /\ row.bank
  BY <1>2 DEF StatementRow, Requested, DataStates
<1>6. aaRows' = [aaRows EXCEPT ![i] = row]
  <2>1. aaRows = [j \in 1..Len(aaRows) |-> aaRows[j]] /\ DOMAIN aaRows = 1..Len(aaRows)
    BY LenProperties DEF BkInv
  <2>2. QED
    BY <1>2, <1>3, <2>1
<1> HIDE DEF row
<1>7. RowsGrow /\ EvidenceKept /\ RequestsBacked(aaFile', aaRows') /\ Len(aaRows') = Len(aaRows)
  BY <1>2, <1>4, <1>5, <1>6, OneRowWritten
<1>8. TaskBacked(AfterFetch(p), aaFile', aaRows')
  BY <1>2, <1>4, <1>7, AfterFetchBacked, TaskStaysBacked
<1>9. aaJobs' \subseteq aaJobs \cup ({"analyse", "export"} \X (1..Len(aaRows')))
  BY <1>2, <1>3, <1>7
<1>10. QED
  BY <1>3, <1>4, <1>7, <1>8, <1>9, OneTaskWritten, StatementStep DEF BkInv

\* What the page makes of a status: done only of "SUCCESS", which has its evidence.
LEMMA StatusShown ==
  ASSUME BkInv, NEW i \in 1..Len(aaRows), UNCHANGED <<aaRows, aaFile>>, aaPage' = fetchStatus(aaRows[i].status)
  PROVE  PageBacked(aaPage', aaFile', aaRows')
<1>1. aaRows[i].status = "SUCCESS" => HasEvidence(aaFile, aaRows)
  BY DEF BkInv, RequestsBacked
<1>2. /\ aaPage' \in StatementPage /\ aaPage'.url = aaPage.url /\ aaPage'.row = aaPage.row
      /\ aaPage'.popup => aaPage.popup
      /\ aaPage'.step = "done" => aaPage.step = "done" \/ aaRows[i].status = "SUCCESS"
  BY DEF fetchStatus, StatementPage, BkInv, PageBacked, Ended
<1>3. QED
  BY <1>1, <1>2, Zenon DEF BkInv, PageBacked

LEMMA FetchStarted ==
  ASSUME NEW row \in Nat
  PROVE  LET t == [NoTask EXCEPT !.pc = "fetch", !.row = row, !.page = TRUE]
         IN t \in StatementTask /\ t.pc = "fetch" /\ t.row = row
<1> DEFINE Seen == Numbers \cup (ConsentNotices \X DataStates) \cup (DataNotices \X Requested)
<1> DEFINE t == [NoTask EXCEPT !.pc = "fetch", !.row = row, !.page = TRUE]
<1>1. "none" \in Seen
  BY DEF Numbers
<1> HIDE DEF Seen
<1>2. t \in [pc: {"idle", "initiate", "consent", "data", "fetch", "call", "answer", "parse", "verify", "summary"},
             row: Nat, retry: BOOLEAN, page: BOOLEAN, seen: Seen]
  BY <1>1 DEF NoTask
<1>3. QED
  BY <1>2 DEF StatementTask, Seen, NoTask

LEMMA PollInv == ASSUME BkInv, NEW p \in Tasks, getStatus(p) \/ buildStatusResponse(p) PROVE BkInv'
<1>1. Len(aaRows) \in Nat
  BY LenProperties DEF BkInv
<1>2. ASSUME getStatus(p) PROVE BkInv'
  <2>1. Newest \in 1..Len(aaRows)
    <3>1. Len(aaRows) # 0
      BY <1>2, EmptySeq DEF getStatus, BkInv
    <3>2. QED
      BY <1>1, <3>1 DEF Newest
  <2>2. CASE WorthFetching(aaRows[Newest])
    <3> DEFINE t == [NoTask EXCEPT !.pc = "fetch", !.row = Newest, !.page = TRUE]
    <3>1. t \in StatementTask /\ t.pc = "fetch" /\ t.row = Newest
      <4>1. Newest \in Nat
        BY <1>1, <2>1
      <4>2. QED
        BY <4>1, FetchStarted
    <3>2. aaTask' = [aaTask EXCEPT ![p] = t]
      BY <1>2, <2>2 DEF getStatus
    <3> HIDE DEF t
    <3>3. TaskBacked(t, aaFile, aaRows)
      BY <2>1, <3>1 DEF TaskBacked
    <3>4. QED
      BY <1>2, <2>2, <3>2, <3>3, TaskAlone DEF getStatus
  <2>3. CASE ~WorthFetching(aaRows[Newest])
    <3>1. PageBacked(aaPage', aaFile', aaRows')
      BY <1>2, <2>1, <2>3, StatusShown DEF getStatus
    <3>2. QED
      BY <1>2, <2>3, <3>1, NoRowTouched, NoTaskWritten, StatementStep DEF getStatus, BkInv
  <2>4. QED
    BY <2>2, <2>3
<1>3. ASSUME buildStatusResponse(p) PROVE BkInv'
  <2>1. aaTask[p].row \in 1..Len(aaRows)
    BY <1>3 DEF BkInv, TaskBacked, buildStatusResponse
  <2>2. aaPage' = aaPage \/ PageBacked(aaPage', aaFile', aaRows')
    BY <1>3, <2>1, StatusShown DEF buildStatusResponse
  <2>3. QED
    BY <1>3, <2>2, IdleIsBacked, TaskAlone DEF buildStatusResponse
<1>4. QED
  BY <1>2, <1>3

\* The analysis verifies a request by its success; a printed statement is a document.
LEMMA JobInv ==
  ASSUME BkInv, NEW i \in 1..Len(aaRows),
         executeBankStatementAnalysisFallback(i) \/ exportAndSaveStatementDocuments(i)
  PROVE  BkInv'
<1>1. aaRows[i] \in StatementRow
  BY ElementOfSeq DEF BkInv
<1>2. ASSUME exportAndSaveStatementDocuments(i) PROVE BkInv'
  <2>1. /\ aaFile' \in StatementFile
        /\ aaFile'.document /\ aaFile'.analysis = aaFile.analysis
    BY <1>2 DEF exportAndSaveStatementDocuments, BkInv, StatementFile
  <2>2. HasEvidence(aaFile', aaRows')
    BY <2>1 DEF HasEvidence
  <2>3. RowsGrow
    BY <1>2, LenProperties DEF exportAndSaveStatementDocuments, RowsGrow, BkInv
  <2>4. QED
    BY <1>2, <2>1, <2>2, <2>3, NoTaskWritten, StatementStep
       DEF exportAndSaveStatementDocuments, BkInv, EvidenceKept, RequestsBacked
<1>3. ASSUME executeBankStatementAnalysisFallback(i) PROVE BkInv'
  <2>1. /\ aaFile' \in StatementFile
        /\ aaFile'.document = aaFile.document
        /\ aaFile.analysis = "SUCCESS" => aaFile'.analysis = "SUCCESS"
    BY <1>3 DEF executeBankStatementAnalysisFallback, BkInv, StatementFile
  <2>2. CASE aaFile' = [aaFile EXCEPT !.analysis = "SUCCESS"]
             /\ aaRows' = [aaRows EXCEPT ![i].status = "SUCCESS", ![i].data = "BSA_VERIFIED"]
    <3> DEFINE row == [aaRows[i] EXCEPT !.status = "SUCCESS", !.data = "BSA_VERIFIED"]
    <3>1. row \in StatementRow /\ row.bank = aaRows[i].bank
      BY <1>1 DEF StatementRow, Requested, DataStates
    <3>2. aaRows' = [aaRows EXCEPT ![i] = row]
      <4>1. aaRows = [j \in 1..Len(aaRows) |-> aaRows[j]] /\ DOMAIN aaRows = 1..Len(aaRows)
        BY LenProperties DEF BkInv
      <4>2. QED
        BY <2>2, <4>1
    <3>3. aaFile'.analysis = "SUCCESS"
      BY <2>2 DEF BkInv, StatementFile
    <3> HIDE DEF row
    <3>4. RowsGrow /\ EvidenceKept /\ RequestsBacked(aaFile', aaRows')
      BY <2>1, <3>1, <3>2, <3>3, OneRowWritten
    <3>5. QED
      BY <1>3, <2>1, <3>4, NoTaskWritten, StatementStep DEF executeBankStatementAnalysisFallback, BkInv
  <2>3. CASE UNCHANGED aaRows
    <3>1. HasEvidence(aaFile, aaRows) => HasEvidence(aaFile', aaRows')
      BY <2>1, <2>3 DEF HasEvidence
    <3>2. RowsGrow
      BY <2>3, LenProperties DEF RowsGrow, BkInv
    <3>3. RequestsBacked(aaFile', aaRows')
      BY <2>3, <3>1, Zenon DEF RequestsBacked, BkInv
    <3>4. QED
      BY <1>3, <2>1, <3>1, <3>2, <3>3, NoTaskWritten, StatementStep
         DEF executeBankStatementAnalysisFallback, BkInv, EvidenceKept
  <2>4. QED
    BY <1>3, <2>2, <2>3 DEF executeBankStatementAnalysisFallback
<1>4. QED
  BY <1>2, <1>3

\* A file that only gains evidence.
LEMMA FileGains ==
  ASSUME BkInv, UNCHANGED aaRows, aaFile' \in StatementFile, aaFile.document => aaFile'.document,
         aaFile.analysis = "SUCCESS" => aaFile'.analysis = "SUCCESS"
  PROVE  RowsGrow /\ EvidenceKept /\ RequestsBacked(aaFile', aaRows')
<1>1. HasEvidence(aaFile, aaRows) => HasEvidence(aaFile', aaRows')
  BY DEF HasEvidence
<1>2. RowsGrow
  BY LenProperties DEF RowsGrow, BkInv
<1>3. RequestsBacked(aaFile', aaRows')
  BY <1>1, Zenon DEF RequestsBacked, BkInv
<1>4. QED
  BY <1>1, <1>2, <1>3 DEF EvidenceKept

\* The upload stores the file first, so what it verifies has a document, whatever the parse says.
LEMMA UploadInv ==
  ASSUME BkInv, NEW p \in Tasks, handleUploadBankStatement(p) \/ uploadMultipleStatements(p)
  PROVE  BkInv'
<1>1. ASSUME handleUploadBankStatement(p) PROVE BkInv'
  <2>1. aaFile' \in StatementFile /\ aaFile'.document /\ aaFile'.analysis = aaFile.analysis
    BY <1>1 DEF handleUploadBankStatement, BkInv, StatementFile
  <2> DEFINE t == [NoTask EXCEPT !.pc = "parse"]
  <2>2. t \in StatementTask /\ t.pc = "parse"
    BY DEF NoTask, StatementTask, Numbers
  <2>3. aaTask' = [aaTask EXCEPT ![p] = t]
    BY <1>1 DEF handleUploadBankStatement
  <2> HIDE DEF t
  <2>4. TaskBacked(t, aaFile', aaRows')
    BY <2>1, <2>2 DEF TaskBacked
  <2>5. RowsGrow /\ EvidenceKept /\ RequestsBacked(aaFile', aaRows')
    BY <1>1, <2>1, FileGains DEF handleUploadBankStatement
  <2>6. QED
    BY <1>1, <2>1, <2>3, <2>4, <2>5, OneTaskWritten, StatementStep DEF handleUploadBankStatement, BkInv
<1>2. ASSUME uploadMultipleStatements(p) PROVE BkInv'
  <2>1. TaskBacked(aaTask[p], aaFile, aaRows) /\ aaTask[p].pc = "parse"
    BY <1>2 DEF BkInv, uploadMultipleStatements
  <2>2. /\ aaFile' \in StatementFile
        /\ aaFile'.document /\ aaFile.document
        /\ aaFile.analysis = "SUCCESS" => aaFile'.analysis = "SUCCESS"
    BY <1>2, <2>1 DEF uploadMultipleStatements, BkInv, StatementFile, TaskBacked
  <2> DEFINE t == [aaTask[p] EXCEPT !.pc = "verify"]
  <2>3. t \in StatementTask /\ t.pc = "verify"
    BY <2>1 DEF TaskBacked, StatementTask
  <2>4. aaTask' = [aaTask EXCEPT ![p] = t]
    BY <1>2 DEF uploadMultipleStatements, BkInv
  <2> HIDE DEF t
  <2>5. TaskBacked(t, aaFile', aaRows')
    BY <2>2, <2>3 DEF TaskBacked
  <2>6. RowsGrow /\ EvidenceKept /\ RequestsBacked(aaFile', aaRows')
    BY <1>2, <2>2, FileGains DEF uploadMultipleStatements
  <2>7. QED
    BY <1>2, <2>2, <2>4, <2>5, <2>6, OneTaskWritten, StatementStep DEF uploadMultipleStatements, BkInv
<1>3. QED
  BY <1>1, <1>2

\* A task that has verified a row.
LEMMA SummaryBacked ==
  ASSUME NEW file, NEW rows, NEW u, TaskBacked(u, file, rows), Len(rows) \in Nat, NEW i \in 1..Len(rows)
  PROVE  TaskBacked([u EXCEPT !.pc = "summary", !.row = i], file, rows)
<1> DEFINE t == [u EXCEPT !.pc = "summary", !.row = i]
<1>1. i \in Nat /\ u \in StatementTask
  BY DEF TaskBacked
<1>2. t \in StatementTask /\ t.pc = "summary" /\ t.row = i
  BY <1>1 DEF StatementTask
<1> HIDE DEF t
<1>3. QED
  BY <1>2 DEF TaskBacked, t

LEMMA VerifyInv == ASSUME BkInv, NEW p \in Tasks, uploadBankStatementAndAnalyze(p) PROVE BkInv'
<1>1. TaskBacked(aaTask[p], aaFile, aaRows) /\ aaTask[p].pc = "verify" /\ aaFile.document
  BY DEF BkInv, uploadBankStatementAndAnalyze, TaskBacked
<1>2. UNCHANGED <<aaHooks, aaJobs, aaFile, aaPage, bankMobile>> /\ aaFile' \in StatementFile
  BY DEF uploadBankStatementAndAnalyze, BkInv
<1>3. HasEvidence(aaFile', aaRows')
  BY <1>1, <1>2 DEF HasEvidence
<1>4. EvidenceKept /\ RequestsBacked(aaFile', aaRows')
  BY <1>3 DEF EvidenceKept, RequestsBacked
<1>5. Len(aaRows) \in Nat
  BY LenProperties DEF BkInv
<1>6. CASE aaRows = <<>>
  <2> DEFINE row == NewRow("none", "SUCCESS", "BSA_VERIFIED")
  <2>1. row \in StatementRow
    BY DEF NewRow, StatementRow, Requested, DataStates, Numbers
  <2>2. aaRows' = <<row>> /\ aaTask' = [aaTask EXCEPT ![p].pc = "summary", ![p].row = 1]
    BY <1>6 DEF uploadBankStatementAndAnalyze
  <2> HIDE DEF row
  <2>3. aaRows' \in Seq(StatementRow) /\ Len(aaRows') = 1
    BY <2>1, <2>2
  <2>4. Len(aaRows) = 0
    BY <1>6, EmptySeq
  <2>5. RowsGrow
    BY <2>3, <2>4 DEF RowsGrow
  <2>6. TaskBacked(aaTask[p], aaFile', aaRows')
    BY <1>1, <1>2, <1>4, <2>5, TaskStaysBacked
  <2> DEFINE t == [aaTask[p] EXCEPT !.pc = "summary", !.row = 1]
  <2>7. TaskBacked(t, aaFile', aaRows')
    <3>1. Len(aaRows') \in Nat /\ 1 \in 1..Len(aaRows')
      BY <2>3
    <3>2. QED
      BY <2>6, <3>1, SummaryBacked, Zenon
  <2>8. aaTask' = [aaTask EXCEPT ![p] = t]
    BY <2>2 DEF BkInv
  <2> HIDE DEF t
  <2>9. QED
    BY <1>2, <1>4, <2>5, <2>7, <2>8, OneTaskWritten, StatementStep DEF BkInv
<1>7. CASE aaRows # <<>>
  <2>1. Newest \in 1..Len(aaRows) /\ aaRows[Newest] \in StatementRow
    <3>1. Len(aaRows) # 0
      BY <1>7, EmptySeq DEF BkInv
    <3>2. Newest \in 1..Len(aaRows)
      BY <1>5, <3>1 DEF Newest
    <3>3. QED
      BY <3>2, ElementOfSeq DEF BkInv
  <2>2. /\ aaRows' = [aaRows EXCEPT ![Newest].status = "SUCCESS", ![Newest].data = "BSA_VERIFIED"]
        /\ aaTask' = [aaTask EXCEPT ![p].pc = "summary", ![p].row = Newest]
    BY <1>7 DEF uploadBankStatementAndAnalyze
  <2> DEFINE row == [aaRows[Newest] EXCEPT !.status = "SUCCESS", !.data = "BSA_VERIFIED"]
  <2>3. row \in StatementRow /\ row.bank = aaRows[Newest].bank
    BY <2>1 DEF StatementRow, Requested, DataStates
  <2>4. aaRows' = [aaRows EXCEPT ![Newest] = row]
    <3>1. aaRows = [j \in 1..Len(aaRows) |-> aaRows[j]] /\ DOMAIN aaRows = 1..Len(aaRows)
      BY LenProperties DEF BkInv
    <3>2. QED
      BY <2>2, <3>1
  <2> HIDE DEF row
  <2>5. RowsGrow /\ Len(aaRows') = Len(aaRows)
    BY <1>1, <1>2, <2>1, <2>3, <2>4, OneRowWritten
  <2>6. TaskBacked(aaTask[p], aaFile', aaRows')
    BY <1>1, <1>2, <1>4, <2>5, TaskStaysBacked
  <2> DEFINE t == [aaTask[p] EXCEPT !.pc = "summary", !.row = Newest]
  <2>7. TaskBacked(t, aaFile', aaRows')
    BY <1>5, <2>1, <2>5, <2>6, SummaryBacked
  <2>8. aaTask' = [aaTask EXCEPT ![p] = t]
    BY <2>2 DEF BkInv
  <2> HIDE DEF t
  <2>9. QED
    BY <1>2, <1>4, <2>5, <2>7, <2>8, OneTaskWritten, StatementStep DEF BkInv
<1>8. QED
  BY <1>6, <1>7

LEMMA SummaryInv == ASSUME BkInv, NEW p \in Tasks, saveBankSummary(p) PROVE BkInv'
<1> DEFINE i == aaTask[p].row
<1>1. TaskBacked(aaTask[p], aaFile, aaRows) /\ aaTask[p].pc = "summary"
  BY DEF BkInv, saveBankSummary
<1>2. i \in 1..Len(aaRows) /\ aaRows[i] \in StatementRow
  BY <1>1, ElementOfSeq DEF TaskBacked, BkInv
<1>3. /\ aaRows' = [aaRows EXCEPT ![i].bank = TRUE]
      /\ aaPage' = [aaPage EXCEPT !.step = "done"]
      /\ aaTask' = [aaTask EXCEPT ![p] = NoTask]
      /\ UNCHANGED <<aggregator, aaHooks, aaJobs, aaFile, bankMobile, aaFaults>>
  BY Zenon DEF saveBankSummary
<1> DEFINE row == [aaRows[i] EXCEPT !.bank = TRUE]
<1>4. row \in StatementRow /\ row.bank
  BY <1>2 DEF StatementRow
<1>5. aaRows' = [aaRows EXCEPT ![i] = row]
  BY <1>3
<1> HIDE DEF row
<1>6. RowsGrow /\ EvidenceKept /\ RequestsBacked(aaFile', aaRows') /\ Len(aaRows') = Len(aaRows)
  BY <1>2, <1>3, <1>4, <1>5, OneRowWritten DEF BkInv
<1>7. HasEvidence(aaFile', aaRows')
  <2>1. aaRows'[i] = row /\ i \in 1..Len(aaRows')
    BY <1>2, <1>5, <1>6, LenProperties DEF BkInv
  <2>2. QED
    BY <1>4, <2>1 DEF HasEvidence
<1>8. PageBacked(aaPage', aaFile', aaRows')
  <2>1. /\ aaPage' \in StatementPage /\ aaPage'.url = aaPage.url /\ aaPage'.row = aaPage.row
        /\ aaPage'.popup = aaPage.popup
    BY <1>3 DEF BkInv, PageBacked, StatementPage
  <2>2. QED
    BY <1>6, <1>7, <2>1 DEF BkInv, PageBacked
<1>9. QED
  BY <1>3, <1>6, <1>8, OneTaskWritten, IdleIsBacked, StatementStep DEF BkInv

LEMMA FaultInv == ASSUME BkInv, LoseHook \/ RestartServer \/ UNCHANGED aaVars PROVE BkInv'
<1>1. ASSUME LoseHook PROVE BkInv'
  BY <1>1, NoRowTouched, NoTaskWritten, StatementStep DEF LoseHook, BkInv
<1>2. ASSUME RestartServer PROVE BkInv'
  <2>1. /\ DOMAIN aaTask' = Tasks /\ aaTask' = [p \in Tasks |-> aaTask'[p]]
        /\ \A p \in Tasks : TaskBacked(aaTask'[p], aaFile', aaRows')
    BY <1>2, IdleIsBacked DEF RestartServer
  <2>2. QED
    BY <1>2, <2>1, NoRowTouched, StatementStep DEF RestartServer, BkInv
<1>3. ASSUME UNCHANGED aaVars PROVE BkInv'
  BY <1>3, NoRowTouched, NoTaskWritten, StatementStep DEF aaVars, BkInv
<1>4. QED
  BY <1>1, <1>2, <1>3

\* Every step keeps the invariant.
LEMMA AaNextInv == BkInv /\ [AaNext]_aaVars => BkInv'
<1> SUFFICES ASSUME BkInv, [AaNext]_aaVars PROVE BkInv'
  OBVIOUS
<1>1. ASSUME NEW p \in Tasks, RunTask(p) PROVE BkInv'
  BY <1>1, InitiatedInv, ConsentInv, DataInv, FetchInv, KeepWaitingInv, StoreInv, PollInv, UploadInv,
     VerifyInv, SummaryInv DEF RunTask
<1>2. ASSUME NEW p \in Tasks,
             \/ handleConnectBank(p) \/ readConsentRequest(p) \/ readDataRequest(p)
             \/ getStatus(p) \/ handleUploadBankStatement(p)
      PROVE BkInv'
  BY <1>2, ConnectInv, NoticeReadInv, PollInv, UploadInv
<1>3. ASSUME NEW i \in AaRows,
             \/ OpenSession(i) \/ Compile(i) \/ EndConsent(i)
             \/ executeBankStatementAnalysisFallback(i) \/ exportAndSaveStatementDocuments(i)
      PROVE BkInv'
  <2>1. i \in 1..Len(aaRows)
    BY LenProperties DEF AaRows, BkInv
  <2>2. QED
    BY <1>3, <2>1, AggregatorInv, JobInv
<1>4. QED
  BY <1>1, <1>2, <1>3, PageInv, FaultInv DEF AaNext

\* A bank step the page or a request row calls finished rests on account data, an uploaded
\* statement or a successful analysis, for any number of tasks, requests and faults and with
\* webhooks in any order: the statuses a handler writes back were read with their evidence.
THEOREM VerifiedHasEvidenceHolds == AaSpec => []VerifiedHasEvidence
<1>1. BkInv => VerifiedHasEvidence
  <2> SUFFICES ASSUME BkInv PROVE VerifiedHasEvidence
    OBVIOUS
  <2>1. AaRows = 1..Len(aaRows)
    BY LenProperties DEF AaRows, BkInv
  <2>2. QED
    BY <2>1 DEF BkInv, PageBacked, RequestsBacked, HasEvidence, VerifiedHasEvidence
<1>2. QED
  BY <1>1, AaInitInv, AaNextInv, PTL DEF AaSpec

--------------------------------------------------------------------------------
(* PAN verification.                                                        *)

PanRow == [pan: Pans \cup {NoPan}, verified: BOOLEAN, name: BOOLEAN]
PanCall == [st: {"idle", "check", "mark", "primary", "fallback", "save", "fail", "answered"},
            pan: Pans \cup {NoPan}, named: BOOLEAN, ans: PanAnswers, scanned: BOOLEAN]
PanCalls == Holders \X PanTabs

\* The shape of the rows and the calls.
PanShape ==
  /\ panCustomer \in [Holders -> PanRow]
  /\ panCall \in [PanCalls -> PanCall]

\* A call about to save its number holds a provider's word for it, and so does a verified row.
SaveBacked == \A k \in PanCalls : panCall[k].st = "save" => <<k[1], panCall[k].pan>> \in panTruth
RowBacked == \A c \in Holders : panCustomer[c].verified => <<c, panCustomer[c].pan>> \in panTruth

\* No two customers hold one number.
NumbersUnique ==
  \A c, d \in Holders : c # d /\ panCustomer[c].pan # NoPan => panCustomer[c].pan # panCustomer[d].pan

PanInv == PanShape /\ SaveBacked /\ RowBacked /\ NumbersUnique

\* The record of a tab with no call under way.
LEMMA IdleIsCall == IdleCall \in PanCall /\ IdleCall.st = "idle"
  BY DEF IdleCall, PanCall, PanAnswers

\* At the start no row holds a number and no call is under way.
LEMMA PanInitInv == PanInit => PanInv
<1> SUFFICES ASSUME PanInit PROVE PanInv
  OBVIOUS
<1>1. PanShape
  BY IdleIsCall DEF PanInit, PanShape, PanRow, PanCalls
<1>2. SaveBacked
  BY IdleIsCall DEF PanInit, SaveBacked, PanCalls
<1>3. RowBacked /\ NumbersUnique
  BY DEF PanInit, RowBacked, NumbersUnique
<1>4. QED
  BY <1>1, <1>2, <1>3 DEF PanInv

\* Of the calls, a step changes one: the calls about to save stay backed when that one is
\* not about to save, or has a provider's word by now.
LEMMA OneCall ==
  ASSUME PanInv, NEW k \in PanCalls, NEW call \in PanCall,
         panCall' = [panCall EXCEPT ![k] = call],
         panTruth \subseteq panTruth',
         call.st = "save" => <<k[1], call.pan>> \in panTruth'
  PROVE  panCall' \in [PanCalls -> PanCall] /\ SaveBacked'
<1>1. /\ panCall' \in [PanCalls -> PanCall]
      /\ panCall'[k] = call
      /\ \A l \in PanCalls \ {k} : panCall'[l] = panCall[l]
  BY DEF PanInv, PanShape
<1>2. SaveBacked'
  BY <1>1 DEF PanInv, SaveBacked
<1>3. QED
  BY <1>1, <1>2

\* A step that leaves the customers' rows alone keeps what is said of them.
LEMMA CustomersKept ==
  ASSUME PanInv, UNCHANGED panCustomer, panTruth \subseteq panTruth'
  PROVE  panCustomer' \in [Holders -> PanRow] /\ RowBacked' /\ NumbersUnique'
  BY DEF PanInv, PanShape, RowBacked, NumbersUnique

\* The steps of a call before its save, in the form the lemma above wants.
LEMMA CallStep ==
  ASSUME PanInv, NEW c \in Holders, NEW t \in PanTabs,
         \/ handleVerifyPan(c, t) \/ checkPan(c, t) \/ markPanInitiated(c, t)
         \/ callFinanalyz(c, t) \/ callZoopPan(c, t) \/ markPanFailed(c, t) \/ showPanAnswer(c, t)
  PROVE  PanInv'
<1> DEFINE k == <<c, t>>
<1> DEFINE old == panCall[k]
<1>k. k \in PanCalls /\ k[1] = c
  BY DEF PanCalls
<1>c. old \in PanCall /\ panCall \in [PanCalls -> PanCall]
  BY <1>k DEF PanInv, PanShape
<1>t. UNCHANGED panCustomer /\ panTruth \subseteq panTruth'
  BY DEF handleVerifyPan, checkPan, markPanInitiated, callFinanalyz, callZoopPan, markPanFailed,
         showPanAnswer
<1> SUFFICES panCall' \in [PanCalls -> PanCall] /\ SaveBacked'
  BY <1>t, CustomersKept DEF PanInv, PanShape
<1>1. CASE handleVerifyPan(c, t)
  <2>1. PICK p \in Pans, named \in BOOLEAN :
          panCall' = [panCall EXCEPT ![k] = [IdleCall EXCEPT !.st = "check", !.pan = p, !.named = named,
                                                             !.scanned = panKyc[c].reply = "ocr"]]
    BY <1>1 DEF handleVerifyPan
  <2> DEFINE call == [IdleCall EXCEPT !.st = "check", !.pan = p, !.named = named,
                                      !.scanned = panKyc[c].reply = "ocr"]
  <2>2. call \in PanCall /\ call.st = "check"
    BY IdleIsCall DEF PanCall
  <2>3. panCall' = [panCall EXCEPT ![k] = call]
    BY <2>1
  <2> HIDE DEF call
  <2>4. QED
    BY <1>k, <1>t, <2>2, <2>3, OneCall
<1>2. CASE checkPan(c, t)
  <2>1. CASE panCall' = PanAnswer(k, "already") \/ panCall' = PanAnswer(k, "conflict")
    <3>1. PICK a \in PanAnswers : panCall' = PanAnswer(k, a)
      BY <2>1 DEF PanAnswers
    <3> DEFINE call == [old EXCEPT !.st = "answered", !.ans = a]
    <3>2. call \in PanCall /\ call.st = "answered"
      BY <1>c DEF PanCall
    <3>3. panCall' = [panCall EXCEPT ![k] = call]
      BY <3>1, <1>c, <1>k DEF PanAnswer
    <3> HIDE DEF call
    <3>4. QED
      BY <1>k, <1>t, <3>2, <3>3, OneCall
  <2>2. CASE panCall' = [panCall EXCEPT ![k].st = "mark", ![k].named = @ \/ panCustomer[c].name]
    <3> DEFINE call == [old EXCEPT !.st = "mark", !.named = @ \/ panCustomer[c].name]
    <3>1. call \in PanCall /\ call.st = "mark"
      BY <1>c DEF PanCall
    <3>2. panCall' = [panCall EXCEPT ![k] = call]
      BY <2>2, <1>c, <1>k
    <3> HIDE DEF call
    <3>3. QED
      BY <1>k, <1>t, <3>1, <3>2, OneCall
  <2>3. QED
    BY <1>2, <2>1, <2>2 DEF checkPan
<1>3. CASE markPanInitiated(c, t)
  <2> DEFINE call == [old EXCEPT !.st = "primary"]
  <2>1. call \in PanCall /\ call.st = "primary"
    BY <1>c DEF PanCall
  <2>2. panCall' = [panCall EXCEPT ![k] = call]
    BY <1>3, <1>c, <1>k DEF markPanInitiated
  <2> HIDE DEF call
  <2>3. QED
    BY <1>k, <1>t, <2>1, <2>2, OneCall
<1>4. CASE callFinanalyz(c, t)
  <2>1. CASE /\ panTruth' = panTruth \cup {<<c, panCall[k].pan>>}
             /\ panCall' = [panCall EXCEPT ![k].st = "save"]
    <3> DEFINE call == [old EXCEPT !.st = "save"]
    <3>1. call \in PanCall /\ call.pan = old.pan
      BY <1>c DEF PanCall
    <3>2. panCall' = [panCall EXCEPT ![k] = call]
      BY <2>1, <1>c, <1>k
    <3> HIDE DEF call
    <3>3. QED
      BY <1>k, <1>t, <2>1, <3>1, <3>2, OneCall
  <2>2. CASE \E named \in BOOLEAN :
               panCall' = [panCall EXCEPT ![k].st = "fallback", ![k].named = @ \/ named]
    <3>1. PICK named \in BOOLEAN :
             panCall' = [panCall EXCEPT ![k].st = "fallback", ![k].named = @ \/ named]
      BY <2>2
    <3> DEFINE call == [old EXCEPT !.st = "fallback", !.named = @ \/ named]
    <3>2. call \in PanCall /\ call.st = "fallback"
      BY <1>c DEF PanCall
    <3>3. panCall' = [panCall EXCEPT ![k] = call]
      BY <3>1, <1>c, <1>k
    <3> HIDE DEF call
    <3>4. QED
      BY <1>k, <1>t, <3>2, <3>3, OneCall
  <2>3. QED
    BY <1>4, <2>1, <2>2 DEF callFinanalyz
<1>5. CASE callZoopPan(c, t)
  <2>1. CASE /\ panTruth' = panTruth \cup {<<c, panCall[k].pan>>}
             /\ panCall' = [panCall EXCEPT ![k].st = "save"]
    <3> DEFINE call == [old EXCEPT !.st = "save"]
    <3>1. call \in PanCall /\ call.pan = old.pan
      BY <1>c DEF PanCall
    <3>2. panCall' = [panCall EXCEPT ![k] = call]
      BY <2>1, <1>c, <1>k
    <3> HIDE DEF call
    <3>3. QED
      BY <1>k, <1>t, <2>1, <3>1, <3>2, OneCall
  <2>2. CASE \E a \in PanAnswers : panCall' = [panCall EXCEPT ![k].st = "fail", ![k].ans = a]
    <3>1. PICK a \in PanAnswers : panCall' = [panCall EXCEPT ![k].st = "fail", ![k].ans = a]
      BY <2>2
    <3> DEFINE call == [old EXCEPT !.st = "fail", !.ans = a]
    <3>2. call \in PanCall /\ call.st = "fail"
      BY <1>c DEF PanCall
    <3>3. panCall' = [panCall EXCEPT ![k] = call]
      BY <3>1, <1>c, <1>k
    <3> HIDE DEF call
    <3>4. QED
      BY <1>k, <1>t, <3>2, <3>3, OneCall
  <2>3. QED
    BY <1>5, <2>1, <2>2 DEF callZoopPan, PanAnswers
<1>6. CASE markPanFailed(c, t)
  <2> DEFINE call == [old EXCEPT !.st = "answered"]
  <2>1. call \in PanCall /\ call.st = "answered"
    BY <1>c DEF PanCall
  <2>2. panCall' = [panCall EXCEPT ![k] = call]
    BY <1>6, <1>c, <1>k DEF markPanFailed
  <2> HIDE DEF call
  <2>3. QED
    BY <1>k, <1>t, <2>1, <2>2, OneCall
<1>7. CASE showPanAnswer(c, t)
  <2>1. panCall' = [panCall EXCEPT ![k] = IdleCall]
    BY <1>7 DEF showPanAnswer
  <2>2. QED
    BY <1>k, <1>t, <2>1, IdleIsCall, OneCall
<1>8. QED
  BY <1>1, <1>2, <1>3, <1>4, <1>5, <1>6, <1>7

\* The transaction that saves a verified number: the unique index refuses a second holder,
\* and the call has the provider's word.
LEMMA SaveInv ==
  ASSUME PanInv, NEW c \in Holders, NEW t \in PanTabs, saveVerifiedPan(c, t)
  PROVE  PanInv'
<1> DEFINE k == <<c, t>>
<1> DEFINE p == panCall[k].pan
<1> DEFINE row == [pan |-> p, verified |-> TRUE, name |-> TRUE]
<1>k. k \in PanCalls /\ k[1] = c
  BY DEF PanCalls
<1>c. panCall[k] \in PanCall /\ panCall \in [PanCalls -> PanCall]
  BY <1>k DEF PanInv, PanShape
<1>1. panCall[k].st = "save" /\ UNCHANGED panTruth
  BY DEF saveVerifiedPan
<1>2. <<c, p>> \in panTruth
  BY <1>1, <1>k DEF PanInv, SaveBacked
<1>3. panCall' \in [PanCalls -> PanCall] /\ SaveBacked'
  <2>1. PICK a \in PanAnswers : panCall' = PanAnswer(k, a)
    BY DEF saveVerifiedPan, PanAnswers
  <2> DEFINE call == [panCall[k] EXCEPT !.st = "answered", !.ans = a]
  <2>2. call \in PanCall /\ call.st = "answered"
    BY <1>c DEF PanCall
  <2>3. panCall' = [panCall EXCEPT ![k] = call]
    BY <2>1, <1>c, <1>k DEF PanAnswer
  <2> HIDE DEF call
  <2>4. QED
    BY <1>k, <1>1, <2>2, <2>3, OneCall
<1>4. CASE UniquePan(c, p)
  <2>1. panCustomer' = [panCustomer EXCEPT ![c] = row]
    BY <1>4 DEF saveVerifiedPan
  <2>2. row \in PanRow /\ row.pan = p
    BY <1>c DEF PanRow, PanCall
  <2> HIDE DEF row
  <2>3. /\ panCustomer' \in [Holders -> PanRow]
        /\ panCustomer'[c] = row
        /\ \A d \in Holders \ {c} : panCustomer'[d] = panCustomer[d]
    BY <2>1, <2>2 DEF PanInv, PanShape
  <2>4. RowBacked'
    BY <2>2, <2>3, <1>1, <1>2 DEF PanInv, RowBacked
  <2>5. \A d \in Holders \ {c} : panCustomer[d].pan # p
    BY <1>4 DEF UniquePan
  <2>6. NumbersUnique'
    BY <2>2, <2>3, <2>5 DEF PanInv, NumbersUnique
  <2>7. QED
    BY <1>3, <2>3, <2>4, <2>6 DEF PanInv, PanShape
<1>5. CASE ~UniquePan(c, p)
  <2>1. UNCHANGED panCustomer
    BY <1>5 DEF saveVerifiedPan
  <2>2. QED
    BY <1>1, <1>3, <2>1, CustomersKept DEF PanInv, PanShape
<1>6. QED
  BY <1>4, <1>5

\* Every step keeps the invariant.
LEMMA PanNextInv == PanInv /\ [PanNext]_panVars => PanInv'
<1> SUFFICES ASSUME PanInv, [PanNext]_panVars PROVE PanInv'
  OBVIOUS
<1>1. ASSUME NEW c \in Holders, handlePanOcrFile(c) PROVE PanInv'
  <2>1. UNCHANGED <<panCustomer, panCall, panTruth>>
    BY <1>1 DEF handlePanOcrFile
  <2>2. QED
    BY <2>1 DEF PanInv, PanShape, SaveBacked, RowBacked, NumbersUnique
<1>2. ASSUME NEW c \in Holders, NEW t \in PanTabs,
             handleVerifyPan(c, t) \/ panServerStep(c, t) \/ mapCustomerToForm(c, t)
      PROVE  PanInv'
  <2>1. CASE mapCustomerToForm(c, t)
    BY <2>1 DEF mapCustomerToForm, PanInv, PanShape, SaveBacked, RowBacked, NumbersUnique
  <2>2. CASE saveVerifiedPan(c, t)
    BY <2>2, SaveInv
  <2>3. QED
    BY <1>2, <2>1, <2>2, CallStep DEF panServerStep
<1>3. CASE UNCHANGED panVars
  BY <1>3 DEF panVars, PanInv, PanShape, SaveBacked, RowBacked, NumbersUnique
<1>4. QED
  BY <1>1, <1>2, <1>3 DEF PanNext

\* Two customers that submit one PAN at once both pass the check before the providers are
\* asked, and only one of them ends up with the number; a number stored as verified was
\* confirmed by a provider for that customer.  For any number of customers, tabs and PANs.
THEOREM OnePanOneHolderHolds == PanSpec => []OnePanOneHolder
<1>1. PanInv => OnePanOneHolder
  BY DEF PanInv, RowBacked, NumbersUnique, OnePanOneHolder
<1>2. QED
  BY <1>1, PanInitInv, PanNextInv, PTL DEF PanSpec

--------------------------------------------------------------------------------
(* One-time passwords.                                                      *)

\* A nonempty set of row numbers has a largest one: findFirst() with its descending order
\* finds a row whenever there is one.
LEMMA LargestRow ==
  ASSUME NEW n \in Nat, NEW T \in SUBSET (1..n), T # {}
  PROVE  \E i \in T : \A j \in T : j <= i
<1> DEFINE Above(i) == {j \in T : j > i}
<1> DEFINE Family == {Above(i) : i \in T}
<1>1. IsWellFoundedOn(StrictSubsetOrdering(1..n), FiniteSubsetsOf(1..n))
  BY FS_StrictSubsetOrderingWellFounded
<1>2. IsFiniteSet(1..n)
  BY FS_Interval
<1>3. \A U \in SUBSET (1..n) : U \in FiniteSubsetsOf(1..n)
  BY <1>2, FS_Subset DEF FiniteSubsetsOf
<1>4. Family \subseteq FiniteSubsetsOf(1..n) /\ Family # {}
  BY <1>3
<1>5. PICK U \in Family : \A V \in Family : <<V, U>> \notin StrictSubsetOrdering(1..n)
  <2> HIDE DEF Family
  <2>1. QED
    BY <1>1, <1>4, WFMin
<1>6. PICK i \in T : U = Above(i)
  BY <1>5
<1>7. ASSUME NEW j \in T, j > i PROVE FALSE
  <2>0. j > i /\ i \in Int /\ j \in Int /\ \A k \in T : k \in Int
    BY <1>7
  <2>1. j \in Above(i) /\ j \notin Above(j) /\ Above(j) \subseteq Above(i)
    <3>1. \A k \in T : k > j => k > i
      BY <2>0
    <3>2. j \in Above(i) /\ Above(j) \subseteq Above(i)
      BY <2>0, <3>1
    <3>3. ~(j > j)
      BY <2>0
    <3>4. QED
      BY <3>2, <3>3
  <2>2. Above(j) \in Family
    OBVIOUS
  <2>3. <<Above(j), U>> \in StrictSubsetOrdering(1..n)
    BY <1>6, <2>1 DEF StrictSubsetOrdering
  <2>4. QED
    BY <1>5, <2>2, <2>3
<1>8. QED
  BY <1>7, \A k \in T : k \in Int, \A k \in T : k \in Int

OtpRow == [target : {"none", "mobile"} \cup Emails, attempts : Nat, verified : BOOLEAN, dead : BOOLEAN,
           clock : {"cooling", "open", "expired"}, sent : {"sending", "sent", "background", "failed"}]
OtpPage == [step : {"MOBILE", "OTP"}, pc : {"idle", "invalidate", "create", "sending", "validate", "commit"},
            target : {"none", "mobile"} \cup Emails, row : Nat, tries : Nat, right : BOOLEAN]
\* The channels a sign-in can have come by.
Touches == {"none"} \cup {resolveAcquisitionSource(visit) : visit \in Arrivals}
OtpCustomer == [account : {"none", "ACTIVE", "BLOCKED"}, email : {"none", "mobile"} \cup Emails,
                first : Touches, last : Touches, referred : BOOLEAN]

OtpShape ==
  /\ otps \in Seq(OtpRow)
  /\ tab \in [Tabs -> OtpPage]
  /\ customer \in OtpCustomer

\* A call in flight works on a row of the table; between the reads and the transaction of a
\* verification, the row is one of the address the call is about.
Fits(page, rows) ==
  /\ page.pc \in {"sending", "validate", "commit"} => page.row \in DOMAIN rows
  /\ page.pc \in {"validate", "commit"} => rows[page.row].target = page.target

CallsFit == \A t \in Tabs : Fits(tab[t], otps)

OtpInv == OtpShape /\ CallsFit /\ VerifiedEmailProven

\* Rows are added, never removed; a row keeps its address and stays verified.
RowsKept ==
  /\ otps' \in Seq(OtpRow)
  /\ Len(otps) <= Len(otps')
  /\ \A i \in Rows : otps'[i].target = otps[i].target /\ (otps[i].verified => otps'[i].verified)

\* The pages after a step: each is as it was or fits the rows.
PagesFit ==
  /\ tab' \in [Tabs -> OtpPage]
  /\ \A t \in Tabs : tab'[t] = tab[t] \/ Fits(tab'[t], otps')

\* What the table of rows is, in the form the provers use.
LEMMA RowsAsFunction ==
  ASSUME OtpShape
  PROVE  Len(otps) \in Nat /\ Rows = 1..Len(otps) /\ \A i \in Rows : otps[i] \in OtpRow
  BY LenProperties, ElementOfSeq DEF OtpShape, Rows

\* A page with nothing in flight fits any rows.
LEMMA IdlePage ==
  ASSUME NEW step \in {"MOBILE", "OTP"}, NEW rows
  PROVE  Page(step) \in OtpPage /\ Page(step).step = step /\ Fits(Page(step), rows)
  BY DEF Page, OtpPage, Fits

\* Steps that keep the rows and the verified address.
LEMMA KeepsAddress ==
  ASSUME OtpInv, RowsKept, PagesFit, customer' \in OtpCustomer, customer'.email = customer.email
  PROVE  OtpInv'
<1>1. /\ Rows = 1..Len(otps) /\ Len(otps) \in Nat
      /\ DOMAIN otps' = 1..Len(otps') /\ Len(otps') \in Nat
  BY LenProperties DEF OtpInv, OtpShape, RowsKept, Rows
<1>2. \A i \in Rows : i \in DOMAIN otps'
  BY <1>1 DEF RowsKept
<1>3. ASSUME NEW t \in Tabs, tab'[t] = tab[t] PROVE Fits(tab'[t], otps')
  BY <1>2, <1>3 DEF OtpInv, CallsFit, Fits, RowsKept, Rows
<1>4. CallsFit'
  BY <1>3 DEF PagesFit, CallsFit
<1>5. VerifiedEmailProven'
  BY <1>2 DEF OtpInv, VerifiedEmailProven, RowsKept, Rows
<1>6. OtpShape'
  BY DEF OtpShape, RowsKept, PagesFit
<1>7. QED
  BY <1>4, <1>5, <1>6 DEF OtpInv

\* A step that leaves the rows alone keeps them.
LEMMA SameRows == OtpShape /\ UNCHANGED otps => RowsKept
  BY RowsAsFunction DEF OtpShape, RowsKept

\* So does the update of one row that keeps its address and stays verified.
LEMMA OneRow ==
  ASSUME OtpShape, NEW i \in Rows, NEW row \in OtpRow, row.target = otps[i].target,
         otps[i].verified => row.verified, otps' = [otps EXCEPT ![i] = row]
  PROVE  RowsKept
<1>1. otps' \in Seq(OtpRow) /\ Len(otps') = Len(otps)
      /\ \A j \in 1..Len(otps) : otps'[j] = IF j = i THEN row ELSE otps[j]
  BY RowsAsFunction, ExceptSeq DEF OtpShape
<1>2. QED
  BY <1>1, RowsAsFunction DEF RowsKept

\* And the update of all rows at once.
LEMMA AllRows ==
  ASSUME OtpShape, NEW rows \in [Rows -> OtpRow], otps' = rows,
         \A i \in Rows : rows[i].target = otps[i].target /\ (otps[i].verified => rows[i].verified)
  PROVE  RowsKept
<1>1. Rows = 1..Len(otps) /\ Len(otps) \in Nat
  BY RowsAsFunction
<1>2. rows \in Seq(OtpRow) /\ Len(rows) = Len(otps)
  BY <1>1
<1>3. QED
  BY <1>1, <1>2 DEF RowsKept

\* One page changes.
LEMMA OnePage ==
  ASSUME OtpShape, NEW t \in Tabs, NEW page \in OtpPage, tab' = [tab EXCEPT ![t] = page],
         Fits(page, otps')
  PROVE  PagesFit
  BY DEF OtpShape, PagesFit

\* At the start no row exists and no address is verified.
LEMMA OtpInitInv == OtpInit => OtpInv
<1> SUFFICES ASSUME OtpInit PROVE OtpInv
  OBVIOUS
<1>1. otps \in Seq(OtpRow) /\ customer.email = "none" /\ customer \in OtpCustomer
  BY DEF OtpInit, OtpCustomer, Touches
<1>2. tab \in [Tabs -> OtpPage] /\ CallsFit
  BY IdlePage DEF OtpInit, CallsFit
<1>3. QED
  BY <1>1, <1>2 DEF OtpInv, OtpShape, VerifiedEmailProven

\* Asking for a code: the checks, the invalidation of the other rows, the new row, the send.
LEMMA SendKeeps ==
  ASSUME OtpInv, NEW t \in Tabs,
         \/ \E target \in Targets : handleOtpRequest(t, target)
         \/ invalidateActiveSessions(t) \/ createOtpSession(t) \/ sendOtp(t) \/ raceWithDeadline(t)
  PROVE  RowsKept /\ PagesFit /\ UNCHANGED customer
<1> DEFINE old == tab[t]
<1>s. OtpShape /\ old \in OtpPage /\ Fits(old, otps)
  BY DEF OtpInv, OtpShape, CallsFit
<1>1. CASE \E target \in Targets : handleOtpRequest(t, target)
  <2>1. PICK target \in Targets : handleOtpRequest(t, target)
    BY <1>1
  <2> DEFINE page == [old EXCEPT !.pc = "invalidate", !.target = target]
  <2>2. page \in OtpPage /\ Fits(page, otps')
    BY <1>s DEF OtpPage, Fits, Targets
  <2>3. tab' = [tab EXCEPT ![t] = page]
    BY <2>1, <1>s DEF handleOtpRequest, OtpShape
  <2>4. UNCHANGED <<otps, customer>>
    BY <2>1 DEF handleOtpRequest
  <2> HIDE DEF page
  <2>5. QED
    BY <1>s, <2>2, <2>3, <2>4, OnePage, SameRows
<1>2. CASE invalidateActiveSessions(t)
  <2> DEFINE rows == [i \in Rows |-> [otps[i] EXCEPT !.dead = @ \/ Live(otps[i])]]
  <2> DEFINE page == [old EXCEPT !.pc = "create"]
  <2>1. /\ rows \in [Rows -> OtpRow]
        /\ \A i \in Rows : rows[i].target = otps[i].target /\ (otps[i].verified => rows[i].verified)
    BY <1>s, RowsAsFunction DEF OtpRow
  <2>2. otps' = rows /\ UNCHANGED customer
    BY <1>2 DEF invalidateActiveSessions
  <2>3. tab' = [tab EXCEPT ![t] = page]
    BY <1>2, <1>s DEF invalidateActiveSessions, OtpShape
  <2>4. page \in OtpPage /\ Fits(page, otps')
    BY <1>s DEF OtpPage, Fits
  <2> HIDE DEF rows, page
  <2>5. QED
    BY <1>s, <2>1, <2>2, <2>3, <2>4, AllRows, OnePage
<1>3. CASE createOtpSession(t)
  <2> DEFINE row == [target |-> old.target, attempts |-> 0, verified |-> FALSE,
                     dead |-> FALSE, clock |-> "cooling", sent |-> "sending"]
  <2> DEFINE page == [old EXCEPT !.pc = "sending", !.row = Len(otps) + 1]
  <2>1. row \in OtpRow
    BY <1>s DEF OtpRow, OtpPage
  <2>2. otps' = Append(otps, row) /\ UNCHANGED customer
    BY <1>3 DEF createOtpSession
  <2> HIDE DEF row
  <2>3. /\ otps' \in Seq(OtpRow) /\ Len(otps') = Len(otps) + 1
        /\ \A i \in Rows : otps'[i] = otps[i]
    BY <1>s, <2>1, <2>2, RowsAsFunction, AppendProperties DEF OtpShape
  <2>4. tab' = [tab EXCEPT ![t] = page]
    BY <1>3, <1>s DEF createOtpSession, OtpShape
  <2>5. page \in OtpPage /\ page.pc = "sending" /\ page.row = Len(otps) + 1
    <3>1. Len(otps) + 1 \in Nat
      BY <1>s, RowsAsFunction
    <3>2. QED
      BY <1>s, <3>1 DEF OtpPage
  <2> HIDE DEF page
  <2>6. Len(otps) + 1 \in DOMAIN otps'
    BY <1>s, <2>3, RowsAsFunction, LenProperties
  <2>7. Fits(page, otps')
    BY <2>5, <2>6 DEF Fits
  <2>8. RowsKept
    BY <1>s, <2>3, RowsAsFunction DEF RowsKept
  <2>9. QED
    BY <1>s, <2>2, <2>4, <2>5, <2>7, <2>8, OnePage
<1>4. CASE sendOtp(t)
  <2>1. PICK ok \in BOOLEAN :
          /\ otps' = [otps EXCEPT ![old.row].sent = IF ok THEN "sent" ELSE "failed",
                                  ![old.row].dead = @ \/ ~ok]
          /\ tab' = [tab EXCEPT ![t] = Page(IF ok THEN "OTP" ELSE @.step)]
    BY <1>4 DEF sendOtp
  <2>2. old.row \in Rows
    BY <1>4, <1>s DEF sendOtp, Fits, Rows
  <2> DEFINE row == [otps[old.row] EXCEPT !.sent = IF ok THEN "sent" ELSE "failed",
                                          !.dead = @ \/ ~ok]
  <2>3. /\ row \in OtpRow /\ row.target = otps[old.row].target
        /\ row.verified = otps[old.row].verified
    BY <1>s, <2>2, RowsAsFunction DEF OtpRow
  <2>4. otps' = [otps EXCEPT ![old.row] = row]
    BY <1>s, <2>1, <2>2, RowsAsFunction DEF OtpShape
  <2> HIDE DEF row
  <2>5. PICK step \in {"MOBILE", "OTP"} : tab' = [tab EXCEPT ![t] = Page(step)]
    BY <1>s, <2>1 DEF OtpPage, OtpShape
  <2>6. UNCHANGED customer
    BY <1>4 DEF sendOtp
  <2>7. QED
    BY <1>s, <2>2, <2>3, <2>4, <2>5, <2>6, OneRow, OnePage, IdlePage
<1>5. CASE raceWithDeadline(t)
  <2>2. old.row \in Rows
    BY <1>5, <1>s DEF raceWithDeadline, Fits, Rows
  <2> DEFINE row == [otps[old.row] EXCEPT !.sent = "background"]
  <2>3. /\ row \in OtpRow /\ row.target = otps[old.row].target
        /\ row.verified = otps[old.row].verified
    BY <1>s, <2>2, RowsAsFunction DEF OtpRow
  <2>4. otps' = [otps EXCEPT ![old.row] = row]
    BY <1>s, <1>5, <2>2, RowsAsFunction DEF OtpShape, raceWithDeadline
  <2> HIDE DEF row
  <2>5. tab' = [tab EXCEPT ![t] = Page("OTP")] /\ UNCHANGED customer
    BY <1>5 DEF raceWithDeadline
  <2>6. QED
    BY <1>s, <2>2, <2>3, <2>4, <2>5, OneRow, OnePage, IdlePage
<1>6. QED
  BY <1>1, <1>2, <1>3, <1>4, <1>5

\* The reads of a verification copy the newest active row of the address that was asked for.
LEMMA ReadKeeps ==
  ASSUME OtpInv, NEW t \in Tabs, NEW target \in Targets, NEW right \in BOOLEAN,
         handleOtpVerification(t, target, right)
  PROVE  RowsKept /\ PagesFit /\ UNCHANGED customer
<1> DEFINE i == getActiveOtpSession(target)
<1> DEFINE page == [tab[t] EXCEPT !.pc = "validate", !.target = target, !.row = i,
                                  !.tries = otps[i].attempts, !.right = right]
<1>s. OtpShape /\ tab[t] \in OtpPage
  BY DEF OtpInv, OtpShape
<1>1. i \in Rows /\ otps[i].target = target
  <2>1. ActiveRows(target) \in SUBSET (1..Len(otps)) /\ ActiveRows(target) # {}
    BY <1>s, RowsAsFunction DEF ActiveRows, handleOtpVerification, readOtpSession
  <2>2. \E k \in ActiveRows(target) : \A j \in ActiveRows(target) : j <= k
    BY <1>s, <2>1, RowsAsFunction, LargestRow
  <2>3. i \in ActiveRows(target)
    BY <2>2 DEF getActiveOtpSession
  <2>4. QED
    BY <2>3 DEF ActiveRows
<1>2. UNCHANGED <<otps, customer>>
  BY DEF handleOtpVerification
<1>3. tab' = [tab EXCEPT ![t] = page]
  BY <1>s DEF handleOtpVerification, readOtpSession, OtpShape
<1>4. /\ page \in OtpPage /\ page.pc = "validate" /\ page.row = i /\ page.target = target
  <2>1. i \in Nat /\ otps[i].attempts \in Nat
    BY <1>s, <1>1, RowsAsFunction DEF OtpRow
  <2> HIDE DEF i
  <2>2. QED
    BY <1>s, <2>1 DEF OtpPage, Targets
<1> HIDE DEF page, i
<1>5. Fits(page, otps')
  BY <1>1, <1>2, <1>4 DEF Fits, Rows
<1>6. QED
  BY <1>s, <1>2, <1>3, <1>4, <1>5, OnePage, SameRows

\* The check of the code: the row is invalidated, or its count written, or left for the
\* transaction.
LEMMA ValidateKeeps ==
  ASSUME OtpInv, NEW t \in Tabs, validateOtpSession(t)
  PROVE  RowsKept /\ PagesFit /\ UNCHANGED customer
<1> DEFINE old == tab[t]
<1> DEFINE i == old.row
<1>s. OtpShape /\ old \in OtpPage /\ Fits(old, otps) /\ old.pc = "validate"
  BY DEF OtpInv, OtpShape, CallsFit, validateOtpSession
<1>1. i \in Rows /\ otps[i] \in OtpRow
  BY <1>s, RowsAsFunction DEF Fits, Rows
<1>2. UNCHANGED customer
  BY DEF validateOtpSession
<1>3. CASE otps' = [otps EXCEPT ![i].dead = TRUE] /\ tab' = [tab EXCEPT ![t] = Page("OTP")]
  <2> DEFINE row == [otps[i] EXCEPT !.dead = TRUE]
  <2>1. row \in OtpRow /\ row.target = otps[i].target /\ row.verified = otps[i].verified
    BY <1>1 DEF OtpRow
  <2>2. otps' = [otps EXCEPT ![i] = row]
    BY <1>3
  <2> HIDE DEF row
  <2>3. QED
    BY <1>s, <1>1, <1>2, <1>3, <2>1, <2>2, OneRow, OnePage, IdlePage
<1>4. CASE tab' = [tab EXCEPT ![t].pc = "commit"] /\ UNCHANGED otps
  <2> DEFINE page == [old EXCEPT !.pc = "commit"]
  <2>1. page \in OtpPage /\ page.row = old.row /\ page.target = old.target
    BY <1>s DEF OtpPage
  <2>2. tab' = [tab EXCEPT ![t] = page]
    BY <1>4
  <2> HIDE DEF page
  <2>3. Fits(page, otps')
    BY <1>s, <1>4, <2>1 DEF Fits
  <2>4. QED
    BY <1>s, <1>2, <1>4, <2>1, <2>2, <2>3, OnePage, SameRows
<1>5. CASE /\ otps' = [otps EXCEPT ![i].attempts = old.tries + 1, ![i].dead = old.tries + 1 >= MaxTries]
           /\ tab' = [tab EXCEPT ![t] = Page("OTP")]
  <2> DEFINE row == [otps[i] EXCEPT !.attempts = old.tries + 1, !.dead = old.tries + 1 >= MaxTries]
  <2>0. old.tries + 1 \in Nat /\ (old.tries + 1 >= MaxTries) \in BOOLEAN
    BY <1>s, OtpAssumption DEF OtpPage
  <2>1. row \in OtpRow /\ row.target = otps[i].target /\ row.verified = otps[i].verified
    BY <1>1, <2>0 DEF OtpRow
  <2>2. otps' = [otps EXCEPT ![i] = row]
    BY <1>5
  <2> HIDE DEF row
  <2>3. QED
    BY <1>s, <1>1, <1>2, <1>5, <2>1, <2>2, OneRow, OnePage, IdlePage
<1>6. QED
  BY <1>3, <1>4, <1>5 DEF validateOtpSession

\* Both transactions verify one row, whose address stays, and invalidate the others.
LEMMA ConsumeKeeps ==
  ASSUME OtpShape, NEW i \in Rows, NEW tries \in Nat, consumeOtp(i, tries)
  PROVE  RowsKept /\ i \in DOMAIN otps' /\ otps'[i].verified
<1> DEFINE used == [otps[i] EXCEPT !.verified = TRUE, !.attempts = tries + 1]
<1> DEFINE other(j) == [otps[j] EXCEPT !.dead = @ \/ Live(otps[j])]
<1> DEFINE rows == [j \in Rows |-> IF j = i THEN used ELSE other(j)]
<1>1. used \in OtpRow /\ used.target = otps[i].target /\ used.verified
  <2>1. otps[i] \in OtpRow /\ tries + 1 \in Nat
    BY RowsAsFunction
  <2>2. QED
    BY <2>1 DEF OtpRow
<1>2. \A j \in Rows : /\ other(j) \in OtpRow /\ other(j).target = otps[j].target
                      /\ other(j).verified = otps[j].verified
  BY RowsAsFunction DEF OtpRow
<1>3. otps' = rows
  BY DEF consumeOtp
<1> HIDE DEF used, other
<1>4. /\ rows \in [Rows -> OtpRow] /\ rows[i] = used
      /\ \A j \in Rows : rows[j].target = otps[j].target /\ (otps[j].verified => rows[j].verified)
  BY <1>1, <1>2
<1>5. i \in DOMAIN otps' /\ otps'[i].verified
  BY <1>1, <1>3, <1>4
<1> HIDE DEF rows
<1>6. QED
  BY <1>3, <1>4, <1>5, AllRows

\* Attribution writes the two touches and nothing else; a first touch that names a channel
\* is not written again.
LEMMA AttributionTypes ==
  ASSUME NEW c \in OtpCustomer, NEW visit \in Arrivals
  PROVE  /\ recordCustomerAttribution(c, visit) \in OtpCustomer
         /\ recordCustomerAttribution(c, visit).email = c.email
         /\ c.first \notin {"none", "WEBSITE"} => recordCustomerAttribution(c, visit).first = c.first
<1> DEFINE source == resolveAcquisitionSource(visit)
<1>1. source \in Touches
  BY DEF Touches
<1>2. recordCustomerAttribution(c, visit)
        = IF c.first = "none" \/ (c.first = "WEBSITE" /\ source # "WEBSITE")
          THEN [c EXCEPT !.first = source]
          ELSE IF source # "WEBSITE" THEN [c EXCEPT !.last = source] ELSE c
  BY DEF recordCustomerAttribution
<1> HIDE DEF source
<1>3. /\ [c EXCEPT !.first = source] \in OtpCustomer /\ [c EXCEPT !.first = source].email = c.email
      /\ [c EXCEPT !.last = source] \in OtpCustomer /\ [c EXCEPT !.last = source].email = c.email
      /\ [c EXCEPT !.last = source].first = c.first
  BY <1>1 DEF OtpCustomer
<1>4. QED
  BY <1>2, <1>3

\* The customer after a sign-in: the address and a first touch that names a channel stay.
LEMMA SignInCustomer ==
  ASSUME OtpShape, NEW t \in Tabs, verifyMobileOtp(t)
  PROVE  /\ customer' \in OtpCustomer /\ customer'.email = customer.email
         /\ customer.first \notin {"none", "WEBSITE"} => customer'.first = customer.first
<1>1. CASE UNCHANGED customer
  BY <1>1 DEF OtpShape
<1>2. CASE \E visit \in Arrivals : \E c \in recordReferralRegistration(customer, visit) :
             customer' = [recordCustomerAttribution(c, visit) EXCEPT !.account = "ACTIVE"]
  <2>1. PICK visit \in Arrivals : \E c \in recordReferralRegistration(customer, visit) :
          customer' = [recordCustomerAttribution(c, visit) EXCEPT !.account = "ACTIVE"]
    BY <1>2
  <2>c. PICK c \in recordReferralRegistration(customer, visit) :
          customer' = [recordCustomerAttribution(c, visit) EXCEPT !.account = "ACTIVE"]
    BY <2>1
  <2>2. c \in OtpCustomer /\ c.email = customer.email /\ c.first = customer.first
    BY DEF OtpShape, OtpCustomer, recordReferralRegistration
  <2> DEFINE r == recordCustomerAttribution(c, visit)
  <2>3. /\ r \in OtpCustomer /\ r.email = c.email
        /\ c.first \notin {"none", "WEBSITE"} => r.first = c.first
    BY <2>2, AttributionTypes
  <2>4. customer' = [r EXCEPT !.account = "ACTIVE"]
    BY <2>c
  <2> HIDE DEF r
  <2>5. QED
    BY <2>2, <2>3, <2>4 DEF OtpCustomer
<1>3. QED
  BY <1>1, <1>2 DEF verifyMobileOtp

\* The sign-in transaction keeps the invariant.
LEMMA MobileKeeps ==
  ASSUME OtpInv, NEW t \in Tabs, verifyMobileOtp(t)
  PROVE  OtpInv'
<1>s. OtpShape /\ tab[t] \in OtpPage /\ Fits(tab[t], otps) /\ tab[t].pc = "commit"
  BY DEF OtpInv, OtpShape, CallsFit, verifyMobileOtp
<1>1. tab[t].row \in Rows /\ tab[t].tries \in Nat
  BY <1>s DEF Fits, Rows, OtpPage
<1>2. UNCHANGED otps \/ consumeOtp(tab[t].row, tab[t].tries)
  BY DEF verifyMobileOtp
<1>3. RowsKept
  BY <1>s, <1>1, <1>2, SameRows, ConsumeKeeps
<1>4. tab' = [tab EXCEPT ![t] = Page("MOBILE")]
  BY DEF verifyMobileOtp
<1>5. PagesFit
  BY <1>s, <1>4, IdlePage, OnePage
<1>6. QED
  BY <1>s, <1>3, <1>5, SignInCustomer, KeepsAddress

\* The transaction that stores an address verifies the row its code came from, which is of
\* that address.
LEMMA EmailKeeps ==
  ASSUME OtpInv, NEW t \in Tabs, verifyEmailOtp(t)
  PROVE  OtpInv'
<1> DEFINE old == tab[t]
<1>s. OtpShape /\ old \in OtpPage /\ Fits(old, otps) /\ old.pc = "commit"
  BY DEF OtpInv, OtpShape, CallsFit, verifyEmailOtp
<1>1. old.row \in Rows /\ old.tries \in Nat /\ otps[old.row].target = old.target
  BY <1>s DEF Fits, Rows, OtpPage
<1>2. consumeOtp(old.row, old.tries)
  BY DEF verifyEmailOtp
<1>3. RowsKept /\ old.row \in DOMAIN otps' /\ otps'[old.row].verified
  BY <1>s, <1>1, <1>2, ConsumeKeeps
<1>4. tab' = [tab EXCEPT ![t] = Page("MOBILE")] /\ customer' = [customer EXCEPT !.email = old.target]
  BY DEF verifyEmailOtp
<1>5. PagesFit
  BY <1>s, <1>4, IdlePage, OnePage
<1>6. customer' \in OtpCustomer /\ customer'.email = old.target
  BY <1>s, <1>4 DEF OtpShape, OtpCustomer, OtpPage
<1>7. VerifiedEmailProven'
  <2>1. otps'[old.row].target = customer'.email
    BY <1>1, <1>3, <1>6 DEF RowsKept
  <2>2. QED
    BY <1>3, <2>1 DEF VerifiedEmailProven, Rows
<1>8. OtpShape'
  BY <1>3, <1>5, <1>6 DEF OtpShape, RowsKept, PagesFit
<1>9. CallsFit'
  <2>1. \A i \in Rows : i \in DOMAIN otps'
    BY <1>s, <1>3, RowsAsFunction, LenProperties DEF RowsKept
  <2>2. ASSUME NEW u \in Tabs, tab'[u] = tab[u] PROVE Fits(tab'[u], otps')
    BY <1>3, <2>1, <2>2 DEF OtpInv, CallsFit, Fits, RowsKept, Rows
  <2>3. QED
    BY <1>5, <2>2 DEF PagesFit, CallsFit
<1>10. QED
  BY <1>7, <1>8, <1>9 DEF OtpInv

\* What happens beside the requests: a send in the background, the clock, a block.
LEMMA RestKeeps ==
  ASSUME OtpInv,
         \/ \E i \in Rows : backgroundSend(i) \/ OtpClock(i)
         \/ BlockAccount
         \/ UNCHANGED otpVars
  PROVE  OtpInv'
<1>s. OtpShape
  BY DEF OtpInv
<1>p. UNCHANGED tab => PagesFit
  BY <1>s DEF OtpShape, PagesFit
<1>1. ASSUME NEW i \in Rows, NEW row, row \in OtpRow, row.target = otps[i].target,
             row.verified = otps[i].verified, otps' = [otps EXCEPT ![i] = row],
             UNCHANGED <<tab, customer>>
      PROVE  OtpInv'
  BY <1>s, <1>p, <1>1, OneRow, KeepsAddress DEF OtpShape
<1>2. ASSUME NEW i \in Rows, backgroundSend(i) PROVE OtpInv'
  <2>1. PICK ok \in BOOLEAN :
          otps' = [otps EXCEPT ![i].sent = IF ok THEN "sent" ELSE "failed", ![i].dead = @ \/ ~ok]
    BY <1>2 DEF backgroundSend
  <2> DEFINE row == [otps[i] EXCEPT !.sent = IF ok THEN "sent" ELSE "failed", !.dead = @ \/ ~ok]
  <2>2. row \in OtpRow /\ row.target = otps[i].target /\ row.verified = otps[i].verified
    BY <1>s, RowsAsFunction DEF OtpRow
  <2>3. otps' = [otps EXCEPT ![i] = row]
    BY <1>s, <2>1, RowsAsFunction DEF OtpShape
  <2>4. UNCHANGED <<tab, customer>>
    BY <1>2 DEF backgroundSend
  <2> HIDE DEF row
  <2>5. QED
    BY <1>1, <2>2, <2>3, <2>4
<1>3. ASSUME NEW i \in Rows, OtpClock(i) PROVE OtpInv'
  <2> DEFINE row == [otps[i] EXCEPT !.clock = IF @ = "cooling" THEN "open" ELSE "expired"]
  <2>2. row \in OtpRow /\ row.target = otps[i].target /\ row.verified = otps[i].verified
    BY <1>s, RowsAsFunction DEF OtpRow
  <2>3. otps' = [otps EXCEPT ![i] = row]
    BY <1>s, <1>3, RowsAsFunction DEF OtpShape, OtpClock
  <2>4. UNCHANGED <<tab, customer>>
    BY <1>3 DEF OtpClock
  <2> HIDE DEF row
  <2>5. QED
    BY <1>1, <2>2, <2>3, <2>4
<1>4. CASE BlockAccount
  <2>1. /\ customer' \in OtpCustomer /\ customer'.email = customer.email
        /\ UNCHANGED <<otps, tab>>
    BY <1>s, <1>4 DEF BlockAccount, OtpShape, OtpCustomer
  <2>2. QED
    BY <1>s, <1>p, <2>1, SameRows, KeepsAddress
<1>5. CASE UNCHANGED otpVars
  BY <1>s, <1>p, <1>5, SameRows, KeepsAddress DEF otpVars, OtpShape
<1>6. QED
  BY <1>2, <1>3, <1>4, <1>5

\* Every step keeps the invariant.
LEMMA OtpNextInv == OtpInv /\ [OtpNext]_otpVars => OtpInv'
<1> SUFFICES ASSUME OtpInv, [OtpNext]_otpVars PROVE OtpInv'
  OBVIOUS
<1>1. ASSUME RowsKept, PagesFit, UNCHANGED customer PROVE OtpInv'
  BY <1>1, KeepsAddress DEF OtpInv, OtpShape
<1>2. ASSUME NEW t \in Tabs, handleChangeMobileNumber(t) PROVE OtpInv'
  BY <1>1, <1>2, SameRows, OnePage, IdlePage DEF handleChangeMobileNumber, OtpInv
<1>3. ASSUME NEW t \in Tabs, NEW target \in Targets, NEW right \in BOOLEAN,
             handleOtpVerification(t, target, right)
      PROVE  OtpInv'
  BY <1>1, <1>3, ReadKeeps
<1>4. ASSUME NEW t \in Tabs,
             \/ \E target \in Targets : handleOtpRequest(t, target)
             \/ invalidateActiveSessions(t) \/ createOtpSession(t) \/ sendOtp(t) \/ raceWithDeadline(t)
             \/ validateOtpSession(t)
      PROVE  OtpInv'
  BY <1>1, <1>4, SendKeeps, ValidateKeeps
<1>5. QED
  BY <1>2, <1>3, <1>4, MobileKeeps, EmailKeeps, RestKeeps DEF OtpNext

\* The address stored as verified is one whose own code was entered, for any number of
\* tabs and addresses, and however requests, resends and verifications interleave.
THEOREM VerifiedEmailProvenHolds == OtpSpec => []VerifiedEmailProven
<1>1. OtpInv => VerifiedEmailProven
  BY DEF OtpInv
<1>2. QED
  BY <1>1, OtpInitInv, OtpNextInv, PTL DEF OtpSpec

\* A first touch that names a channel is never replaced by a later sign-in.
THEOREM FirstTouchIsKept == OtpSpec => FirstTouchKept
<1>1. OtpInv /\ [OtpNext]_otpVars
        => [customer.first \notin {"none", "WEBSITE"} => customer'.first = customer.first]_otpVars
  <2> SUFFICES ASSUME OtpInv, OtpNext, customer.first \notin {"none", "WEBSITE"}
               PROVE  customer'.first = customer.first
    OBVIOUS
  <2>s. OtpShape
    BY DEF OtpInv
  <2>1. ASSUME NEW t \in Tabs, verifyMobileOtp(t) PROVE customer'.first = customer.first
    BY <2>s, <2>1, SignInCustomer
  <2>2. ASSUME NEW t \in Tabs, verifyEmailOtp(t) PROVE customer'.first = customer.first
    BY <2>s, <2>2 DEF verifyEmailOtp, OtpShape, OtpCustomer
  <2>3. BlockAccount => customer'.first = customer.first
    BY <2>s DEF BlockAccount, OtpShape, OtpCustomer
  <2>4. ASSUME NEW t \in Tabs, handleChangeMobileNumber(t) \/ validateOtpSession(t) PROVE UNCHANGED customer
    BY <2>4 DEF handleChangeMobileNumber, validateOtpSession
  <2>5. ASSUME NEW t \in Tabs, NEW target \in Targets, NEW right \in BOOLEAN,
               handleOtpVerification(t, target, right)
        PROVE  UNCHANGED customer
    BY <2>5 DEF handleOtpVerification
  <2>6. ASSUME NEW i \in Rows, backgroundSend(i) \/ OtpClock(i) PROVE UNCHANGED customer
    BY <2>6 DEF backgroundSend, OtpClock
  <2>7. QED
    BY <2>1, <2>2, <2>3, <2>4, <2>5, <2>6, SendKeeps DEF OtpNext
<1>2. QED
  BY <1>1, OtpInitInv, OtpNextInv, PTL DEF OtpSpec, FirstTouchKept

\* An account blocked at any moment before the verification transaction opens no session:
\* no step but that transaction writes one, and it reads the status again.
THEOREM BlockedNeverSignsIn == OtpSpec => BlockedOpensNoSession
<1>1. [OtpNext]_otpVars => [signIns' # signIns => customer.account # "BLOCKED"]_otpVars
  <2> SUFFICES ASSUME OtpNext, signIns' # signIns PROVE customer.account # "BLOCKED"
    OBVIOUS
  <2>1. ASSUME NEW t \in Tabs, verifyMobileOtp(t) PROVE customer.account # "BLOCKED"
    BY <2>1 DEF verifyMobileOtp
  <2>2. ASSUME NEW t \in Tabs,
               \/ invalidateActiveSessions(t) \/ createOtpSession(t) \/ sendOtp(t) \/ raceWithDeadline(t)
               \/ validateOtpSession(t) \/ verifyEmailOtp(t) \/ handleChangeMobileNumber(t)
        PROVE  UNCHANGED signIns
    BY <2>2 DEF invalidateActiveSessions, createOtpSession, sendOtp, raceWithDeadline,
                validateOtpSession, verifyEmailOtp, handleChangeMobileNumber
  <2>3. ASSUME NEW t \in Tabs, NEW target \in Targets, NEW right \in BOOLEAN,
               handleOtpRequest(t, target) \/ handleOtpVerification(t, target, right)
        PROVE  UNCHANGED signIns
    BY <2>3 DEF handleOtpRequest, handleOtpVerification
  <2>4. ASSUME NEW i \in Rows, backgroundSend(i) \/ OtpClock(i) PROVE UNCHANGED signIns
    BY <2>4 DEF backgroundSend, OtpClock
  <2>5. BlockAccount => UNCHANGED signIns
    BY DEF BlockAccount
  <2>6. QED
    BY <2>1, <2>2, <2>3, <2>4, <2>5 DEF OtpNext
<1>2. QED
  BY <1>1, PTL DEF OtpSpec, BlockedOpensNoSession
================================================================================
