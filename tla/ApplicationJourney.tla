------------------------------ MODULE ApplicationJourney ------------------------------
(***************************************************************************)
(* The customer's way from a paid fee to the lender's decision, and back to *)
(* a new application: CustomerService and ApplicationTransitionService on   *)
(* the server, MyApplicationPage in one or more tabs.  The step shown comes  *)
(* from nextPermittedStep(); what clears it is the customer's next action.   *)
(* Lender, KYC provider and bank statement are reduced to their effect on    *)
(* the application row (see LenderPipeline, AadhaarKyc, BankStatement).      *)
(***************************************************************************)
EXTENDS Naturals, Sequences, FiniteSets

CONSTANTS JnTabs,    \* browser tabs of the customer
          MaxApps,   \* bound on the applications of the customer
          CoolingOff \* days a rejected customer waits (REAPPLY_COOLING_OFF_DAYS)

ASSUME JourneyAssumption == MaxApps \in Nat \ {0} /\ CoolingOff \in Nat

VARIABLES jnApps, \* applications, oldest first
          jnCust, \* customer row: Aadhaar verified, address fields, a verified live photo
          jnPage, \* each tab: step shown, photo held, and the submit call it is in
          jnWait  \* days since the last rejection, up to the cooling-off period

jnVars == <<jnApps, jnCust, jnPage, jnWait>>

JnSteps == {"basic_details", "assessment_fee", "profile_details", "aadhaar_kyc", "account_aggregator",
            "submit_application", "integration_processing", "integration_support", "rejected"}
JnStatuses == {"DRAFT", "ASSESSMENT_FEE_PAID", "SUBMITTED", "LENDER_PRE_APPROVED", "LENDER_APPROVED",
               "LENDER_REJECTED", "LOAN_CLOSED"}
NewApp == [status |-> "DRAFT", emp |-> FALSE, live |-> FALSE, kyc |-> FALSE,
           perm |-> FALSE, curr |-> FALSE, aa |-> FALSE, consents |-> FALSE, event |-> "sent"]
\* Applications a customer is still in the middle of.
ActiveAnywhere == {"DRAFT", "ASSESSMENT_FEE_PAID", "SUBMITTED", "LENDER_PRE_APPROVED", "LENDER_APPROVED"}
JnNow == Len(jnApps)              \* the latest application; 0: none
JnLatest == jnApps[JnNow]

\* Every variable holds a value of its table or of its page.
JnTypeOK ==
  /\ JnNow <= MaxApps
  /\ \A i \in 1..JnNow : jnApps[i] \in [status: JnStatuses, emp: BOOLEAN, live: BOOLEAN, kyc: BOOLEAN,
                                         perm: BOOLEAN, curr: BOOLEAN, aa: BOOLEAN, consents: BOOLEAN,
                                         event: {"sent", "FAILED", "replayed"}]
  /\ jnCust \in [aadhaar: BOOLEAN, residence: BOOLEAN, photo: BOOLEAN]
  /\ jnPage \in [JnTabs -> [step: JnSteps, photo: BOOLEAN, call: {"none", "consents", "submit"}]]
  /\ jnWait \in 0..CoolingOff

JnInit ==
  /\ jnApps = <<>>
  /\ jnCust = [aadhaar |-> FALSE, residence |-> FALSE, photo |-> FALSE]
  /\ jnPage = [t \in JnTabs |-> [step |-> "basic_details", photo |-> FALSE, call |-> "none"]]
  /\ jnWait = 0

-----------------------------------------------------------------------------
(* What the backend permits next, and what it repairs on the way.           *)

\* Mutant: the six statuses other look-ups of this service use.
EarlyActiveStatuses == {"DRAFT", "ASSESSMENT_FEE_PAID", "SUBMITTED"}

ActiveStatuses == {"DRAFT", "ASSESSMENT_FEE_PAID", "SUBMITTED", "LENDER_PRE_APPROVED", "LENDER_APPROVED"}

\* evaluateUpdateReadiness(), per group of reasons.
ProfileReady(a) == a.emp /\ a.live
KycReady(a) == a.kyc
AddressReady(a) == a.perm /\ a.curr
evaluateUpdateReadiness(a) == ProfileReady(a) /\ KycReady(a) /\ AddressReady(a)

nextPermittedStep(apps) ==
  LET a == apps[Len(apps)] IN
  IF apps = <<>> THEN "BASIC_DETAILS"
  ELSE CASE a.status \in {"LENDER_PRE_APPROVED", "LENDER_APPROVED"} -> "APPROVAL_PROCESSING"
         [] a.status = "LENDER_REJECTED" -> "LENDER_REJECTED"
         [] a.status = "DRAFT" -> "ALLOCATION_PENDING"
         [] OTHER -> IF a.event = "FAILED" THEN "INTEGRATION_SUPPORT"
                     ELSE IF ~ProfileReady(a) THEN "PROFILE_DETAILS"
                     ELSE IF ~KycReady(a) THEN "AADHAAR_KYC"
                     ELSE IF ~AddressReady(a) THEN "ADDRESS_DETAILS"
                     ELSE IF ~a.aa THEN "ACCOUNT_AGGREGATOR"
                     ELSE IF ~a.consents THEN "SUBMIT_APPLICATION" ELSE "LENDER_DECISION_PROCESSING"

\* The screen for a permitted step: allocation is retried from the basic details, and
\* addresses are confirmed on the identity screen.
deriveCustomerWorkflow(step) ==
  CASE step \in {"BASIC_DETAILS", "ALLOCATION_PENDING"} -> "basic_details"
    [] step = "PROFILE_DETAILS" -> "profile_details"
    [] step \in {"AADHAAR_KYC", "ADDRESS_DETAILS"} -> "aadhaar_kyc"
    [] step = "ACCOUNT_AGGREGATOR" -> "account_aggregator"
    [] step = "SUBMIT_APPLICATION" -> "submit_application"
    [] step = "INTEGRATION_SUPPORT" -> "integration_support"
    [] step = "LENDER_REJECTED" -> "rejected"
    [] OTHER -> "integration_processing"

\* Mutant: a new application starts without the customer's verified identity.
withoutKycBackfill(apps) == apps

\* findById(): a verified customer's new application takes over the KYC of an earlier one.
withKyc(apps) ==
  LET n == Len(apps) IN
  IF n > 0 /\ jnCust.aadhaar /\ ~apps[n].kyc /\ \E i \in 1..n : apps[i].kyc
  THEN [apps EXCEPT ![n].kyc = TRUE] ELSE apps

\* A rejected customer waits; any other status does not hold up an application.
evaluateReapplyCooldown == JnNow > 0 /\ JnLatest.status = "LENDER_REJECTED" /\ jnWait < CoolingOff

\* createOrResumeApplication(): under the customer's row lock the active application is
\* returned, or a new one is created once the cooling-off period has passed.
createOrResumeApplication ==
  IF \E i \in 1..JnNow : jnApps[i].status \in ActiveStatuses THEN jnApps
  ELSE IF evaluateReapplyCooldown \/ JnNow = MaxApps THEN jnApps ELSE Append(jnApps, NewApp)

\* fetchCustomer() of a tab: rows repaired, step derived, and on a full load the
\* customer's newest verified photo.
fetched(t, apps, loadPhoto) ==
  /\ jnApps' = withKyc(apps)
  /\ jnPage' = [jnPage EXCEPT ![t] = [step |-> deriveCustomerWorkflow(nextPermittedStep(withKyc(apps))),
                                      photo |-> IF loadPhoto THEN @.photo \/ jnCust.photo ELSE @.photo,
                                      call |-> "none"]]

\* A load of the page; a customer whose loan is repaid gets a new application.
fetchCustomer(t) ==
  /\ fetched(t, IF JnNow > 0 /\ JnLatest.status = "LOAN_CLOSED" THEN createOrResumeApplication ELSE jnApps, TRUE)
  /\ UNCHANGED <<jnCust, jnWait>>

-----------------------------------------------------------------------------
(* The customer's actions, one per step of the page.                        *)

\* Basic details saved, application resumed, lender allocated and fee paid.
resumeAndPay(t) ==
  /\ jnPage[t].step = "basic_details" /\ jnPage[t].call = "none"
  /\ LET apps == createOrResumeApplication
         n == Len(apps)
     IN fetched(t, IF n > 0 /\ apps[n].status = "DRAFT"
                   THEN [apps EXCEPT ![n].status = "ASSESSMENT_FEE_PAID"] ELSE apps, TRUE)
  /\ UNCHANGED <<jnCust, jnWait>>

\* Apply again on the rejection screen.
handleApplyAgain(t) ==
  /\ jnPage[t].step = "rejected"
  /\ fetched(t, createOrResumeApplication, TRUE)
  /\ UNCHANGED <<jnCust, jnWait>>

OnStep(t, s) == jnPage[t].step = s /\ jnPage[t].call = "none" /\ JnNow > 0

\* The live photo: the liveness row of the latest application and the photo document.
capturePhoto(t) ==
  /\ OnStep(t, "profile_details") /\ ~jnPage[t].photo
  /\ jnApps' = [jnApps EXCEPT ![JnNow].live = TRUE]
  /\ jnCust' = [jnCust EXCEPT !.photo = TRUE]
  /\ jnPage' = [jnPage EXCEPT ![t].photo = TRUE]
  /\ UNCHANGED jnWait

handleRetake(t) ==
  /\ OnStep(t, "profile_details") /\ jnPage[t].photo
  /\ jnPage' = [jnPage EXCEPT ![t].photo = FALSE]
  /\ UNCHANGED <<jnApps, jnCust, jnWait>>

\* updateProfile(): customer row and employment snapshot in one transaction.
updateProfile(apps) == [apps EXCEPT ![Len(apps)].emp = TRUE]

\* Save & Next on the profile: saved for the latest application; the page goes
\* to the next step whatever the backend permits.
handleProfileContinue(t) ==
  /\ OnStep(t, "profile_details") /\ jnPage[t].photo
  /\ jnApps' = withKyc(updateProfile(jnApps))
  /\ jnPage' = [jnPage EXCEPT ![t].step = "aadhaar_kyc"]
  /\ UNCHANGED <<jnCust, jnWait>>

\* The DigiLocker result: customer and application; the address may be incomplete.
kycVerified(t) ==
  /\ OnStep(t, "aadhaar_kyc") /\ ~jnCust.aadhaar
  /\ \E addressed \in BOOLEAN :
        jnApps' = [jnApps EXCEPT ![JnNow].kyc = TRUE, ![JnNow].perm = @ \/ addressed]
  /\ jnCust' = [jnCust EXCEPT !.aadhaar = TRUE, !.residence = TRUE]
  /\ UNCHANGED <<jnPage, jnWait>>

\* saveApplicationAddress("CURRENT"): the permanent address is taken from an earlier
\* application or from the customer row when the application has none.
saveCurrent(apps) ==
  LET n == Len(apps)
      found == \/ \E i \in 1..n : apps[i].perm
               \/ jnCust.residence
  IN [apps EXCEPT ![n].perm = @ \/ found, ![n].curr = TRUE]

\* Addresses confirmed below the identity: PERMANENT as entered, then CURRENT.
saveAddress(t) ==
  /\ OnStep(t, "aadhaar_kyc") /\ jnCust.aadhaar
  /\ fetched(t, saveCurrent([jnApps EXCEPT ![JnNow].perm = TRUE]), TRUE)
  /\ UNCHANGED <<jnCust, jnWait>>

\* The bank statement of this application has arrived.
statementDone(t) ==
  /\ OnStep(t, "account_aggregator")
  /\ fetched(t, [jnApps EXCEPT ![JnNow].aa = TRUE], TRUE)
  /\ UNCHANGED <<jnCust, jnWait>>

\* Submit, first call: the current address.
handleSubmitApplication(t) ==
  /\ OnStep(t, "submit_application")
  /\ IF jnCust.aadhaar
     THEN /\ jnApps' = saveCurrent(jnApps)
          /\ jnPage' = [jnPage EXCEPT ![t].call = "consents"]
     ELSE /\ jnPage' = [jnPage EXCEPT ![t].step = "aadhaar_kyc"]
          /\ UNCHANGED jnApps
  /\ UNCHANGED <<jnCust, jnWait>>

\* Second call: the three decision consents.
acceptDecisionConsents(t) ==
  /\ jnPage[t].call = "consents"
  /\ jnApps' = [jnApps EXCEPT ![JnNow].consents = TRUE]
  /\ jnPage' = [jnPage EXCEPT ![t].call = "submit"]
  /\ UNCHANGED <<jnCust, jnWait>>

\* Third call: SUBMITTED, from a paid application only; otherwise the page shows an error.
submitApplication(t) ==
  /\ jnPage[t].call = "submit"
  /\ fetched(t, IF JnLatest.status = "ASSESSMENT_FEE_PAID"
                THEN [jnApps EXCEPT ![JnNow].status = "SUBMITTED"] ELSE jnApps, TRUE)
  /\ UNCHANGED <<jnCust, jnWait>>

\* retryLenderSubmission(): the failed event is replayed, a minute after it failed.
retryLenderSubmission(apps) == [apps EXCEPT ![Len(apps)].event = "replayed"]

\* Retry on the support screen; it may be gone (an operator was faster).
handleRetryLenderSubmission(t) ==
  /\ OnStep(t, "integration_support")
  /\ fetched(t, IF JnLatest.event = "FAILED" THEN retryLenderSubmission(jnApps) ELSE jnApps, TRUE)
  /\ UNCHANGED <<jnCust, jnWait>>

-----------------------------------------------------------------------------
(* The lender, the loan and the clock.                                      *)

\* A lender event of a paid application fails for good (once per application).
lenderEventFails ==
  /\ JnNow > 0 /\ JnLatest.status \in {"ASSESSMENT_FEE_PAID", "SUBMITTED"} /\ JnLatest.event = "sent"
  /\ jnApps' = [jnApps EXCEPT ![JnNow].event = "FAILED"]
  /\ UNCHANGED <<jnCust, jnPage, jnWait>>

\* The first decision, as soon as the application is complete and consented to.
lenderDecides ==
  /\ JnNow > 0 /\ JnLatest.status \in {"ASSESSMENT_FEE_PAID", "SUBMITTED"}
  /\ evaluateUpdateReadiness(JnLatest) /\ JnLatest.consents /\ JnLatest.event # "FAILED"
  /\ \E s \in {"LENDER_PRE_APPROVED", "LENDER_REJECTED"} : jnApps' = [jnApps EXCEPT ![JnNow].status = s]
  /\ jnWait' = 0
  /\ UNCHANGED <<jnCust, jnPage>>

\* Offer taken and approved, then the loan repaid.
loanProceeds ==
  /\ JnNow > 0
  /\ \/ /\ JnLatest.status = "LENDER_PRE_APPROVED"
        /\ jnApps' = [jnApps EXCEPT ![JnNow].status = "LENDER_APPROVED"]
     \/ /\ JnLatest.status = "LENDER_APPROVED"
        /\ jnApps' = [jnApps EXCEPT ![JnNow].status = "LOAN_CLOSED"]
  /\ UNCHANGED <<jnCust, jnPage, jnWait>>

dayPasses ==
  /\ jnWait < CoolingOff /\ JnNow > 0 /\ JnLatest.status = "LENDER_REJECTED"
  /\ jnWait' = jnWait + 1
  /\ UNCHANGED <<jnApps, jnCust, jnPage>>

customerActs(t) ==
  \/ resumeAndPay(t) \/ handleApplyAgain(t) \/ capturePhoto(t) \/ handleProfileContinue(t)
  \/ kycVerified(t) \/ saveAddress(t) \/ statementDone(t)
  \/ handleSubmitApplication(t) \/ acceptDecisionConsents(t) \/ submitApplication(t)
  \/ handleRetryLenderSubmission(t)

JnNext ==
  \/ \E t \in JnTabs : customerActs(t) \/ handleRetake(t) \/ fetchCustomer(t)
  \/ lenderEventFails \/ lenderDecides \/ loanProceeds \/ dayPasses

\* The tab the customer works in; the others may do anything, or nothing.
WorkTab == CHOOSE t \in JnTabs : TRUE

\* An action of the customer that adds something to the application.
customerProgress(t) == customerActs(t) /\ jnApps' # jnApps

\* A customer who keeps trying what the tab offers (Retake and Submit included), and a
\* lender that answers.
JnFairness ==
  /\ SF_jnVars(customerProgress(WorkTab)) /\ SF_jnVars(handleRetake(WorkTab))
  /\ WF_jnVars(handleSubmitApplication(WorkTab))
  /\ WF_jnVars(fetchCustomer(WorkTab)) /\ WF_jnVars(lenderDecides)
JnSpec == JnInit /\ [][JnNext]_jnVars /\ JnFairness

-----------------------------------------------------------------------------
(* "A customer can only have one active application", whatever screens are   *)
(* open in other tabs and however often the customer comes back after a       *)
(* rejection or a repaid loan.                                                *)
OneActiveApplication ==
  \A i, j \in 1..JnNow : i # j => ~(jnApps[i].status \in ActiveAnywhere /\ jnApps[j].status \in ActiveAnywhere)

(* No loop in the steps: a customer who does what the page offers gets the   *)
(* paid application to the lender, also when it is a later application that    *)
(* reuses the identity verified for an earlier one.  (Retake is needed then:   *)
(* the page holds the old photo, and the backend asks for a new one.)          *)
PaidReachesLender ==
  \A i \in 1..MaxApps :
     (JnNow = i /\ JnLatest.status = "ASSESSMENT_FEE_PAID")
       ~> JnNow >= i /\ jnApps[i].status \notin {"DRAFT", "ASSESSMENT_FEE_PAID"}

(* A picture "cannot be reused later": a tab that accepts the profile has the *)
(* photo of this application.  (A later application is let past with the      *)
(* photo of the first.)                                                        *)
PhotoNotReused ==
  [][\A t \in JnTabs : jnPage[t].step = "profile_details" /\ jnPage'[t].step = "aadhaar_kyc"
        => jnApps[JnNow].live]_jnVars

(* What the lender decides on was submitted.  (A page closed between the      *)
(* consents and the submit call leaves the application unsubmitted; the lender *)
(* decides all the same.)                                                      *)
DecidedWasSubmitted ==
  [][\A i \in 1..JnNow : jnApps'[i].status = "LENDER_PRE_APPROVED" /\ jnApps[i].status # "LENDER_PRE_APPROVED"
        => jnApps[i].status = "SUBMITTED"]_jnVars
=============================================================================
