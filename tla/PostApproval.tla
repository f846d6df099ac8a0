------------------------------ MODULE PostApproval ------------------------------
(***************************************************************************)
(* From the lender's approval to the disbursal request of one loan: offer,  *)
(* bank verification, key fact statement, Easebuzz mandate, e-sign and the  *)
(* request itself (LoanService, ExternalApiService, PostApprovalJourneyPage)*)
(* A handler without a call to a provider is one step; the ones that call   *)
(* Digio or Easebuzz read before the call and write after it.  E-sign is    *)
(* module ElectronicSign; here it is the flag its last transaction sets.    *)
(***************************************************************************)
EXTENDS Naturals, FiniteSets

CONSTANTS PaTabs,         \* browser tabs showing the journey
          MaxAttempts,    \* bound on the mandate rows with one tab open, one fewer with more;
                          \* the last one is never declined
          MaxPaFaults     \* bound on failed answers of Digio, Easebuzz and lost webhooks

ASSUME PaAssumption == MaxAttempts \in Nat \ {0, 1} /\ MaxPaFaults \in Nat

VARIABLES paLoan,      \* the loan row: one flag per step, cancelled, requested
          paRejected,  \* the application row is LENDER_REJECTED
          paRow,       \* mandate rows, by attempt: status in the database
          paBank,      \* the same attempts at Easebuzz
          paInbox,     \* mandates with a row in pl_webhook_inbox
          paNotices,   \* webhooks under way
          paTab,       \* each tab: what it waits for, the journey it shows, the step selected
          paFaults

paVars == <<paLoan, paRejected, paRow, paBank, paInbox, paNotices, paTab, paFaults>>

Attempts == 1..MaxAttempts
PaSteps == {"APPROVAL_SUMMARY", "BANK_VERIFICATION", "KFS_ACCEPTANCE", "EMANDATE", "ESIGN",
            "READY_FOR_DISBURSAL"}
LoanRow == [offer: BOOLEAN, kyc: BOOLEAN, address: BOOLEAN, bank: BOOLEAN, kfs: BOOLEAN,
            mandate: BOOLEAN, esign: BOOLEAN, cancelled: BOOLEAN, requested: BOOLEAN]
RowStatuses == {"none", "ACCESS_KEY_GENERATED", "INITIATED", "AUTHORIZED", "FAILED"}
Provided == {"none", "created", "authorized", "failed"}

\* A refresh under way: the row it asks about, as read, and what Easebuzz said.
StatusCall == [at: 0..MaxAttempts, read: RowStatuses, told: Provided, closing: BOOLEAN]
NoCall == [at |-> 0, read |-> "none", told |-> "none", closing |-> FALSE]

\* Every variable holds a value of its table or of its page.
PaTypeOK ==
  /\ paLoan \in LoanRow
  /\ paRejected \in BOOLEAN
  /\ paRow \in [Attempts -> RowStatuses]
  /\ paBank \in [Attempts -> Provided]
  /\ paInbox \subseteq Attempts
  /\ paNotices \subseteq Attempts \X {"initiated", "authorized", "failed"}
  /\ paTab \in [PaTabs -> [pc: {"load", "idle", "bank", "keying", "wait", "asking", "away", "closed"},
                           seen: LoanRow, auth: BOOLEAN, step: PaSteps, call: StatusCall]]
  /\ paFaults \in 0..MaxPaFaults

\* CreditReviewService.approve() creates the loan; KYC and address are carried over
\* from onboarding when they were there, which the loan may not show.
PaInit ==
  /\ \E kyc \in BOOLEAN, address \in BOOLEAN :
       paLoan = [offer |-> FALSE, kyc |-> kyc, address |-> address, bank |-> FALSE, kfs |-> FALSE,
                 mandate |-> FALSE, esign |-> FALSE, cancelled |-> FALSE, requested |-> FALSE]
  /\ paRejected = FALSE
  /\ paRow = [a \in Attempts |-> "none"]
  /\ paBank = [a \in Attempts |-> "none"]
  /\ paInbox = {}
  /\ paNotices = {}
  /\ \E open \in SUBSET PaTabs \ {{}} :
       paTab = [t \in PaTabs |-> [pc |-> IF t \in open THEN "load" ELSE "closed", seen |-> paLoan,
                                   auth |-> FALSE, step |-> "APPROVAL_SUMMARY", call |-> NoCall]]
  /\ paFaults = 0

AttemptBound == IF Cardinality({t \in PaTabs : paTab[t].pc # "closed"}) = 1 THEN MaxAttempts ELSE MaxAttempts - 1

Fault == paFaults < MaxPaFaults /\ paFaults' = paFaults + 1

-----------------------------------------------------------------------------
(* The journey as the server answers it.                                    *)

\* mandates[0]: the newest row, 0 without one.
newestAttempt == IF \E a \in Attempts : paRow[a] # "none"
                 THEN CHOOSE a \in Attempts : paRow[a] # "none" /\ \A b \in Attempts : b > a => paRow[b] = "none"
                 ELSE 0

\* The mandate counts as authorised when the loan or its newest row says so.
isAuthorized == paLoan.mandate \/ (newestAttempt # 0 /\ paRow[newestAttempt] = "AUTHORIZED")

\* KYC done during onboarding is copied to the loan, and the Aadhaar address then
\* confirmed without asking.
backFilled(loan) == [loan EXCEPT !.kyc = TRUE, !.address = TRUE]

\* Mutant: the verified account is looked at before the accepted KFS.
deriveBankFirst(loan) ==
  IF loan.requested \/ loan.esign THEN "READY_FOR_DISBURSAL"
  ELSE IF loan.mandate THEN "ESIGN"
  ELSE IF loan.bank THEN "KFS_ACCEPTANCE"
  ELSE IF loan.kfs THEN "EMANDATE"
  ELSE IF loan.offer THEN "BANK_VERIFICATION" ELSE "APPROVAL_SUMMARY"

\* The step is the first condition that holds, from the end of the journey.
deriveCurrentStep(loan) ==
  IF loan.requested \/ loan.esign THEN "READY_FOR_DISBURSAL"
  ELSE IF loan.mandate THEN "ESIGN"
  ELSE IF loan.kfs THEN "EMANDATE"
  ELSE IF loan.bank THEN "KFS_ACCEPTANCE"
  ELSE IF loan.offer THEN "BANK_VERIFICATION" ELSE "APPROVAL_SUMMARY"

\* fetchJourney() of the page, on opening, after each step and on a reload: the
\* server back-fills the loan and answers with it and the derived step.
getPostApprovalJourney(t) ==
  /\ paTab[t].pc = "load" \/ (paTab[t].pc \in {"idle", "wait"} /\ paTab[t].seen # paLoan)
  /\ paLoan' = backFilled(paLoan)
  /\ paTab' = [paTab EXCEPT ![t].pc = "idle", ![t].seen = paLoan', ![t].auth = isAuthorized,
                            ![t].step = deriveCurrentStep(paLoan')]
  /\ UNCHANGED <<paRejected, paRow, paBank, paInbox, paNotices, paFaults>>

\* The strip and the list of missing steps let the customer go back to a step that is
\* not done; the next load of the journey shows the current one again.
StepOrder == [s \in PaSteps |-> CASE s = "APPROVAL_SUMMARY" -> 1 [] s = "BANK_VERIFICATION" -> 2
                [] s = "KFS_ACCEPTANCE" -> 3 [] s = "EMANDATE" -> 4 [] s = "ESIGN" -> 5 [] OTHER -> 6]

missingSteps(t) ==
  {s \in PaSteps : \/ s = "APPROVAL_SUMMARY" /\ ~paTab[t].seen.offer
                   \/ s = "BANK_VERIFICATION" /\ ~paTab[t].seen.bank
                   \/ s = "KFS_ACCEPTANCE" /\ ~paTab[t].seen.kfs
                   \/ s = "EMANDATE" /\ ~(paTab[t].seen.mandate \/ paTab[t].auth)
                   \/ s = "ESIGN" /\ ~paTab[t].seen.esign}

selectStep(t) ==
  /\ paTab[t].pc = "idle"
  /\ \E s \in missingSteps(t) :
       /\ StepOrder[s] < StepOrder[paTab[t].step]
       /\ paTab' = [paTab EXCEPT ![t].step = s]
  /\ UNCHANGED <<paLoan, paRejected, paRow, paBank, paInbox, paNotices, paFaults>>

Shows(t, s) == paTab[t].pc = "idle" /\ paTab[t].step = s

-----------------------------------------------------------------------------
(* Offer, bank account, key fact statement.                                 *)

\* acceptOffer(): an accepted offer is refused, and the page shows the refusal.
acceptOffer(t) ==
  /\ Shows(t, "APPROVAL_SUMMARY")
  /\ ~paTab[t].seen.offer
  /\ paLoan' = [paLoan EXCEPT !.offer = TRUE]
  /\ paTab' = IF paLoan.offer THEN paTab ELSE [paTab EXCEPT ![t].pc = "load"]
  /\ UNCHANGED <<paRejected, paRow, paBank, paInbox, paNotices, paFaults>>

\* handleVerify(): the account goes to the penny drop of Digio.
handleVerify(t) ==
  /\ Shows(t, "BANK_VERIFICATION")
  /\ ~paTab[t].seen.bank
  /\ paTab' = [paTab EXCEPT ![t].pc = "bank"]
  /\ UNCHANGED <<paLoan, paRejected, paRow, paBank, paInbox, paNotices, paFaults>>

\* What Digio's penny drop comes to: account and name, account only, neither.
pennyDrop == {"VERIFIED", "NAME_MISMATCH", "FAILED"}

\* A match verifies the account and sets the loan's status, whatever it was; another
\* name cancels the loan; a failure takes the verification back.
bankWritten(out) ==
  CASE out = "VERIFIED" -> [paLoan EXCEPT !.bank = TRUE, !.cancelled = FALSE]
    [] out = "NAME_MISMATCH" -> [paLoan EXCEPT !.bank = FALSE, !.cancelled = TRUE]
    [] out = "FAILED" -> [paLoan EXCEPT !.bank = FALSE]

\* verifyCustomerBankAccount() after the answer: loan, application and bank row in one
\* transaction.  The page goes on, or shows the failure and lets the customer try again.
verifyCustomerBankAccount(t) ==
  /\ paTab[t].pc = "bank"
  /\ \E out \in pennyDrop :
       /\ paLoan' = bankWritten(out)
       /\ paRejected' = (paRejected \/ out = "NAME_MISMATCH")
       /\ paTab' = [paTab EXCEPT ![t].pc = IF out = "VERIFIED" THEN "load" ELSE "idle"]
       /\ IF out = "VERIFIED" THEN UNCHANGED paFaults ELSE Fault
  /\ UNCHANGED <<paRow, paBank, paInbox, paNotices>>

\* acceptKfs() wants the bank account verified.
acceptKfs(t) ==
  /\ Shows(t, "KFS_ACCEPTANCE")
  /\ ~paTab[t].seen.kfs
  /\ paLoan' = IF paLoan.bank THEN [paLoan EXCEPT !.kfs = TRUE] ELSE paLoan
  /\ paTab' = IF paLoan.bank THEN [paTab EXCEPT ![t].pc = "load"] ELSE paTab
  /\ UNCHANGED <<paRejected, paRow, paBank, paInbox, paNotices, paFaults>>

-----------------------------------------------------------------------------
(* The mandate.                                                             *)

\* An attempt the next initiation goes on with: younger than an hour, still open.
resumable == newestAttempt # 0 /\ paRow[newestAttempt] \in {"ACCESS_KEY_GENERATED", "INITIATED"}

\* initiateMandate() up to the call of Easebuzz: the gates, KYC and address healed
\* on the way, an authorised mandate answered, an open attempt resumed.
initiateMandate(t, forceNew) ==
  /\ Shows(t, "EMANDATE")
  /\ ~(paTab[t].seen.mandate \/ paTab[t].auth)
  /\ paLoan' = IF paLoan.offer THEN backFilled(paLoan) ELSE paLoan
  /\ LET ready == paLoan.offer /\ paLoan.bank /\ paLoan.kfs IN
     \/ /\ ready /\ isAuthorized
        /\ paTab' = [paTab EXCEPT ![t].pc = "load"]
     \/ /\ ready /\ ~isAuthorized /\ resumable /\ ~forceNew
        /\ paTab' = [paTab EXCEPT ![t].pc = "wait"]
     \/ /\ ready /\ ~isAuthorized /\ (forceNew \/ ~resumable)
        /\ newestAttempt + Cardinality({u \in PaTabs : paTab[u].pc = "keying"}) < AttemptBound
        /\ paTab' = [paTab EXCEPT ![t].pc = "keying"]
     \/ /\ ~ready
        /\ paTab' = paTab
  /\ UNCHANGED <<paRejected, paRow, paBank, paInbox, paNotices, paFaults>>

\* The attempt exists at Easebuzz, which may announce it, and gets its row; the loan's
\* mandate columns are written without a look at what happened since.
attemptCreated(a) ==
  /\ a = newestAttempt + 1
  /\ paRow' = [paRow EXCEPT ![a] = "ACCESS_KEY_GENERATED"]
  /\ paBank' = [paBank EXCEPT ![a] = "created"]
  /\ paNotices' \in {paNotices, paNotices \cup {<<a, "initiated">>}}

\* generateAccessKey() answered with a key, or with an error after its last candidate.
generateAccessKey(t) ==
  /\ paTab[t].pc = "keying"
  /\ \/ /\ \E a \in Attempts : attemptCreated(a)
        /\ paTab' = [paTab EXCEPT ![t].pc = "wait"]
        /\ UNCHANGED paFaults
     \/ /\ Fault
        /\ paTab' = [paTab EXCEPT ![t].pc = "idle"]
        /\ UNCHANGED <<paRow, paBank, paNotices>>
  /\ UNCHANGED <<paLoan, paRejected, paInbox>>

\* The customer finishes in the bank's window; the webhook may get lost.
bankDecides(a) ==
  /\ paBank[a] = "created"
  /\ \E out \in {"authorized", "failed"} :
       /\ out = "failed" => a < AttemptBound
       /\ paBank' = [paBank EXCEPT ![a] = out]
       /\ \/ paNotices' = paNotices \cup {<<a, out>>} /\ UNCHANGED paFaults
          \/ Fault /\ UNCHANGED paNotices
  /\ UNCHANGED <<paLoan, paRejected, paRow, paInbox, paTab>>

\* Mutant: "initiated" is read as a success.
normalizeOptimistic(raw) == IF raw = "failed" THEN "FAILED" ELSE "AUTHORIZED"

normalizeEasebuzzMandateStatus(raw) ==
  CASE raw = "authorized" -> "AUTHORIZED" [] raw = "failed" -> "FAILED" [] raw = "initiated" -> "INITIATED"

\* What a notice of status s does to row a and to the loan; an authorised row stays.
applyStatus(a, s) ==
  /\ paRow' = IF paRow[a] = "AUTHORIZED" THEN paRow ELSE [paRow EXCEPT ![a] = s]
  /\ paLoan' = IF paRow[a] # "AUTHORIZED" /\ s = "AUTHORIZED" THEN [paLoan EXCEPT !.mandate = TRUE] ELSE paLoan

\* handleEasebuzzMandateWebhook(): the inbox row is unique per mandate id, so the
\* second notice of a mandate is a replay.  The row is the first that matches the
\* transaction or the LAN: any row of the loan.
handleEasebuzzMandateWebhook(n) ==
  /\ n \in paNotices
  /\ paNotices' = paNotices \ {n}
  /\ paInbox' = paInbox \cup {n[1]}
  /\ \/ n[1] \in paInbox /\ UNCHANGED <<paRow, paLoan>>
     \/ /\ n[1] \notin paInbox
        /\ \E a \in Attempts : paRow[a] # "none" /\ applyStatus(a, normalizeEasebuzzMandateStatus(n[2]))
  /\ UNCHANGED <<paRejected, paBank, paTab, paFaults>>

\* What the page does with a status: authorised goes on, a failure ends the wait.
answered(t, otherwise) ==
  paTab' = [paTab EXCEPT ![t].pc = IF isAuthorized' THEN "load"
                                   ELSE IF paRow'[newestAttempt'] = "FAILED" THEN "idle" ELSE otherwise,
                         ![t].call = NoCall]

\* The page polls getMandateStatus(), which reads the tables only.
getMandateStatus(t) ==
  /\ paTab[t].pc = "wait"
  /\ UNCHANGED <<paRow, paLoan>>
  /\ answered(t, "wait")
  /\ UNCHANGED <<paRejected, paBank, paInbox, paNotices, paFaults>>

\* The checkout's callback, "Check status" and closing the window ask Easebuzz about
\* the newest row only.
refreshMandateStatus(t, closing) ==
  /\ paTab[t].pc = "wait"
  /\ paTab' = [paTab EXCEPT ![t].pc = "asking",
              ![t].call = [at |-> newestAttempt, read |-> paRow[newestAttempt],
                           told |-> paBank[newestAttempt], closing |-> closing]]
  /\ UNCHANGED <<paLoan, paRejected, paRow, paBank, paInbox, paNotices, paFaults>>

\* After the answer: a row read as authorised stays; the check is on the row as read
\* before the call.
refreshAnswered(t) ==
  /\ paTab[t].pc = "asking"
  /\ LET call == paTab[t].call
         a == call.at
         s == normalizeEasebuzzMandateStatus(call.told) IN
     IF call.read = "AUTHORIZED" \/ call.told = "created"      \* told nothing new, or no answer
     THEN UNCHANGED <<paRow, paLoan>>
     ELSE /\ paRow' = [paRow EXCEPT ![a] = s]
          /\ paLoan' = IF s = "AUTHORIZED" THEN [paLoan EXCEPT !.mandate = TRUE] ELSE paLoan
  /\ answered(t, IF paTab[t].call.closing THEN "idle" ELSE "wait")
  /\ UNCHANGED <<paRejected, paBank, paInbox, paNotices, paFaults>>

-----------------------------------------------------------------------------
(* E-sign and the request.                                                  *)

\* The last transaction of verifyOtpAndAccept(); preparing the document wanted the mandate.
esignCompleted(t) ==
  /\ Shows(t, "ESIGN")
  /\ ~paTab[t].seen.esign
  /\ paLoan' = IF paLoan.mandate THEN [paLoan EXCEPT !.esign = TRUE] ELSE paLoan
  /\ paTab' = IF paLoan.mandate THEN [paTab EXCEPT ![t].pc = "load"] ELSE paTab
  /\ UNCHANGED <<paRejected, paRow, paBank, paInbox, paNotices, paFaults>>

completeInDb == paLoan.offer /\ paLoan.kyc /\ paLoan.address /\ paLoan.bank /\ paLoan.kfs
                /\ paLoan.mandate /\ paLoan.esign

\* handleRequest(): the page wants every step shown complete, the server every flag.
handleRequest(t) ==
  /\ Shows(t, "READY_FOR_DISBURSAL")
  /\ missingSteps(t) = {}
  /\ paLoan' = IF paLoan.requested \/ ~completeInDb THEN paLoan ELSE [paLoan EXCEPT !.requested = TRUE]
  /\ paTab' = IF paLoan.requested \/ completeInDb THEN [paTab EXCEPT ![t].pc = "away"] ELSE paTab
  /\ UNCHANGED <<paRejected, paRow, paBank, paInbox, paNotices, paFaults>>

-----------------------------------------------------------------------------

PaPage(t) ==
  \/ getPostApprovalJourney(t)
  \/ selectStep(t)
  \/ acceptOffer(t)
  \/ handleVerify(t)
  \/ verifyCustomerBankAccount(t)
  \/ acceptKfs(t)
  \/ \E forceNew \in BOOLEAN : initiateMandate(t, forceNew)
  \/ generateAccessKey(t)
  \/ getMandateStatus(t)
  \/ \E closing \in BOOLEAN : refreshMandateStatus(t, closing)
  \/ refreshAnswered(t)
  \/ esignCompleted(t)
  \/ handleRequest(t)

PaNext ==
  \/ \E t \in PaTabs : PaPage(t)
  \/ \E a \in Attempts : bankDecides(a)
  \/ \E n \in paNotices : handleEasebuzzMandateWebhook(n)

\* What the step shown asks for, and the answers of the servers.
stepDone(t) == acceptOffer(t) \/ handleVerify(t) \/ acceptKfs(t) \/ initiateMandate(t, FALSE)
               \/ esignCompleted(t) \/ handleRequest(t)
requestAnswered(t) == verifyCustomerBankAccount(t) \/ generateAccessKey(t) \/ refreshAnswered(t)

\* The customer of every tab goes on: fills in the step shown, goes to a missing one,
\* reloads a page that is behind, asks for the mandate's status.  A request under way
\* is answered, the bank decides, and a webhook that was sent arrives.
PaFairness ==
  /\ \A t \in PaTabs : /\ WF_paVars(stepDone(t)) /\ WF_paVars(requestAnswered(t))
                       /\ WF_paVars(getPostApprovalJourney(t)) /\ WF_paVars(selectStep(t))
                       /\ WF_paVars(refreshMandateStatus(t, FALSE))
  /\ \A a \in Attempts : WF_paVars(bankDecides(a))
  /\ WF_paVars(\E n \in paNotices : handleEasebuzzMandateWebhook(n))

PaSpec == PaInit /\ [][PaNext]_paVars /\ PaFairness

-----------------------------------------------------------------------------

\* A loan that counts its mandate as complete has an attempt the customer authorised at
\* the bank, whichever of polling, refresh and webhook recorded it and on whichever row
\* (handleEasebuzzMandateWebhook, refreshMandateStatus).
MandateProven == paLoan.mandate => \E a \in Attempts : paBank[a] = "authorized"

\* A customer who goes on reaches the disbursal request unless the bank account was in
\* another name: no order of pages, declined mandates and lost webhooks leaves the
\* journey at a step it cannot leave (deriveCurrentStep, initiateMandate).  Only the
\* bound on the attempts ends a journey whose last row was closed.
JourneyCompletes ==
  <>(paLoan.requested \/ paRejected \/ (newestAttempt = AttemptBound /\ ~resumable /\ ~isAuthorized))

\* Once the name mismatch has rejected the application its loan goes no further.
RejectedEnds == [][paRejected => ~paLoan.requested' \/ paLoan.requested]_paVars
=============================================================================
