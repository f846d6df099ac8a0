------------------------------ MODULE AssessmentFee ------------------------------
(***************************************************************************)
(* The assessment fee of one application: lender allocation from the basic  *)
(* details page, Easebuzz checkout sessions and hosted links, the payment   *)
(* webhook with its inbox, the page's polling and the eligibility check it  *)
(* triggers (CustomerService, PlPaymentsService, MyApplicationPage).        *)
(* A transaction of the database is one step; the browser, the gateway and  *)
(* the webhook interleave.                                                  *)
(***************************************************************************)
EXTENDS Naturals, FiniteSets

CONSTANTS FeeTabs,        \* browser tabs of the customer
          MaxTxns         \* bound on the payment rows

ASSUME FeeAssumption == MaxTxns \in Nat

VARIABLES feeApp,     \* the application row: status, platform decision, lender, CREATE event
          feeLink,    \* payment rows: status, age, and whether bound to the application
          feeInbox,   \* rows of pl_webhook_inbox: transaction and what its notice said
          feeGate,    \* what happened at the gateway
          feeNotices, \* webhooks under way
          feePage     \* each tab: step shown, transaction polled, what it waits for

feeVars == <<feeApp, feeLink, feeInbox, feeGate, feeNotices, feePage>>

Txns == 1..MaxTxns
EarlyStatuses == {"DRAFT", "ALLOCATION_PENDING", "LENDER_ALLOCATED", "ASSESSMENT_FEE_PAID"}
PaidStatuses == {"ASSESSMENT_FEE_PAID", "SUBMITTED"}

\* Every variable holds a value of its table or of its page.
FeeTypeOK ==
  /\ feeApp \in [status: EarlyStatuses \cup {"SUBMITTED", "PLATFORM_REJECTED"}, bre: {"NULL", "PASS", "FAIL"},
                 lender: BOOLEAN, evaluated: BOOLEAN, created: BOOLEAN]
  /\ feeLink \in [Txns -> [st: {"none", "CREATED", "SENT", "PROCESSING", "SUCCESS", "FAILED"},
                           stale: BOOLEAN, bound: BOOLEAN]]
  /\ feeInbox \subseteq Txns \X {"pending", "success", "failure"}
  /\ feeGate \in [Txns -> {"none", "open", "paid", "failed"}]
  /\ feeNotices \subseteq Txns \X {"pending", "success", "failure"}
  /\ feePage \in [FeeTabs -> [step: {"basic", "fee", "checking", "rejected", "profile"},
                              txn: 0..MaxTxns, busy: {"no", "widget", "poll"}]]

FeeInit ==
  /\ feeApp = [status |-> "DRAFT", bre |-> "NULL", lender |-> FALSE, evaluated |-> FALSE, created |-> FALSE]
  /\ feeLink = [n \in Txns |-> [st |-> "none", stale |-> FALSE, bound |-> FALSE]]
  /\ feeInbox = {}
  /\ feeGate = [n \in Txns |-> "none"]
  /\ feeNotices = {}
  /\ feePage = [t \in FeeTabs |-> [step |-> "basic", txn |-> 0, busy |-> "no"]]

InInbox(n) == \E s \in {"pending", "success", "failure"} : <<n, s>> \in feeInbox
FreshTxn(n) == feeLink[n].st = "none" /\ \A k \in Txns : k < n => feeLink[k].st # "none"

-----------------------------------------------------------------------------
(* Allocation and eligibility.                                              *)

\* The application after allocateLender(): an allocated one is returned as it is,
\* otherwise the MLM engine assigns a route, and eligibility is taken as passed.
allocated(assigned) ==
  IF feeApp.lender \/ ~assigned THEN feeApp
  ELSE [feeApp EXCEPT !.status = "LENDER_ALLOCATED", !.bre = "PASS", !.lender = TRUE]

\* Save & Continue on the basic details: resume the application, allocate, show the
\* fee.  Without a route, or without an active application, the customer stays.
handleBasicDetailsContinue(t) ==
  /\ feePage[t].step = "basic"
  /\ \E assigned \in BOOLEAN :
       LET ok == feeApp.status \in EarlyStatuses \cup {"SUBMITTED"} /\ (feeApp.lender \/ assigned) IN
       /\ feeApp' = IF ok THEN allocated(assigned) ELSE feeApp
       /\ feePage' = IF ok THEN [feePage EXCEPT ![t].step = "fee"] ELSE feePage
  /\ UNCHANGED <<feeLink, feeInbox, feeGate, feeNotices>>

\* The repeat of an eligibility check that passed is answered without evaluation.
alreadyPassed == feeApp.status \in {"LENDER_ALLOCATED", "ASSESSMENT_FEE_PAID"} /\ feeApp.bre = "PASS"

\* The application after an evaluation; a pass without a lender goes on to allocation.
evaluated(out, assigned) ==
  LET app == [feeApp EXCEPT !.bre = out, !.evaluated = TRUE,
                !.status = IF out = "FAIL" THEN "PLATFORM_REJECTED"
                           ELSE IF feeApp.status = "ASSESSMENT_FEE_PAID" THEN @
                           ELSE IF feeApp.lender THEN "LENDER_ALLOCATED" ELSE "ALLOCATION_PENDING"]
  IN IF out = "PASS" /\ assigned /\ ~feeApp.lender
     THEN [app EXCEPT !.status = "LENDER_ALLOCATED", !.lender = TRUE] ELSE app

\* runEligibility(): the endpoint.  A missing input is refused, nothing is written.
runEligibility ==
  /\ feeApp.status \in EarlyStatuses
  /\ \E out \in {"PASS", "FAIL", "MISSING"}, assigned \in BOOLEAN :
        feeApp' = IF alreadyPassed \/ out = "MISSING" THEN feeApp ELSE evaluated(out, assigned)

\* A client that asks for the check before the allocation.
callRunEligibility ==
  /\ ~feeApp.lender
  /\ runEligibility
  /\ UNCHANGED <<feeLink, feeInbox, feeGate, feeNotices, feePage>>

\* The check the page starts once the payment is confirmed, and the dialog it shows.
eligibilityDialog(t) ==
  /\ feePage[t].step = "checking"
  /\ IF feeApp.status \in EarlyStatuses
     THEN /\ runEligibility
          /\ feePage' = [feePage EXCEPT ![t].step = IF feeApp'.bre = "PASS" THEN "profile" ELSE "rejected"]
     ELSE /\ feePage' = [feePage EXCEPT ![t].step = "rejected"]
          /\ UNCHANGED feeApp
  /\ UNCHANGED <<feeLink, feeInbox, feeGate, feeNotices>>

-----------------------------------------------------------------------------
(* Payment rows.                                                            *)

\* Sessions of this purpose that are open and older than two minutes are given up.
swept ==
  [n \in Txns |-> IF feeLink[n].st \in {"CREATED", "PROCESSING"} /\ feeLink[n].stale
                  THEN [feeLink[n] EXCEPT !.st = "FAILED"] ELSE feeLink[n]]

\* The checkout session at the gateway: an access key, or a refusal.
initiateEasebuzzIframePayment(n, ok) ==
  feeGate' = IF ok THEN [feeGate EXCEPT ![n] = "open"] ELSE feeGate

\* initiateIframePayment() without an answer of the gateway: only the sweep is left.
initiationFails(t) ==
  /\ feePage[t].step = "fee" /\ feePage[t].busy = "no" /\ feeApp.lender
  /\ \E n \in Txns : FreshTxn(n) /\ initiateEasebuzzIframePayment(n, FALSE)
  /\ feeLink' = swept
  /\ UNCHANGED <<feeApp, feeInbox, feeNotices, feePage>>

\* initiateIframePayment(): sweep, session, then the row bound to the application.
initiateIframePayment(t, n) ==
  /\ feeApp.lender
  /\ FreshTxn(n)
  /\ initiateEasebuzzIframePayment(n, TRUE)
  /\ feeLink' = [swept EXCEPT ![n] = [st |-> "CREATED", stale |-> FALSE, bound |-> TRUE]]

\* Pay: the page opens the checkout with the key it was given.
handlePayClick(t) ==
  /\ feePage[t].step = "fee" /\ feePage[t].busy = "no"
  /\ \E n \in Txns : /\ initiateIframePayment(t, n)
                     /\ feePage' = [feePage EXCEPT ![t].txn = n, ![t].busy = "widget"]
  /\ UNCHANGED <<feeApp, feeInbox, feeNotices>>

\* A hosted EasyCollect link: an active one is sent again, a new one is not bound to
\* the application (its row carries the customer's code).
createPaymentLink ==
  /\ \/ /\ \E n \in Txns : /\ ~feeLink[n].bound /\ feeLink[n].st \in {"SENT", "PROCESSING"}
                           /\ UNCHANGED feeLink
        /\ UNCHANGED feeGate
     \/ /\ ~ \E n \in Txns : ~feeLink[n].bound /\ feeLink[n].st \in {"SENT", "PROCESSING"}
        /\ \E n \in Txns, ok \in BOOLEAN :
             /\ FreshTxn(n)
             /\ feeLink' = [feeLink EXCEPT ![n] = [st |-> IF ok THEN "SENT" ELSE "FAILED",
                                                   stale |-> FALSE, bound |-> FALSE]]
             /\ feeGate' = IF ok THEN [feeGate EXCEPT ![n] = "open"] ELSE feeGate
  /\ UNCHANGED <<feeApp, feeInbox, feeNotices, feePage>>

\* Two minutes pass.
ageLink(n) ==
  /\ feeLink[n].st # "none" /\ ~feeLink[n].stale
  /\ feeLink' = [feeLink EXCEPT ![n].stale = TRUE]
  /\ UNCHANGED <<feeApp, feeInbox, feeGate, feeNotices, feePage>>

\* The customer pays, gives up or (banks that answer late) leaves the payment pending.
payAtGateway(n) ==
  /\ feeGate[n] = "open"
  /\ \/ /\ feeGate' = [feeGate EXCEPT ![n] = "paid"]
        /\ feeNotices' = feeNotices \cup {<<n, "success">>}
     \/ /\ feeGate' = [feeGate EXCEPT ![n] = "failed"]
        /\ feeNotices' = feeNotices \cup {<<n, "failure">>}
  /\ UNCHANGED <<feeApp, feeLink, feeInbox, feePage>>

reportPending(n) ==
  /\ feeGate[n] = "open" /\ ~InInbox(n)
  /\ feeNotices' = feeNotices \cup {<<n, "pending">>}
  /\ UNCHANGED <<feeApp, feeLink, feeInbox, feeGate, feePage>>

-----------------------------------------------------------------------------
(* The webhook.                                                             *)

normalizeWebhookStatus(s) ==
  CASE s = "success" -> "SUCCESS" [] s = "failure" -> "FAILED" [] OTHER -> "PROCESSING"

\* The CREATE event of the application, once, by its idempotency key.
enqueueCreateAfterVerifiedPayment(app) == [app EXCEPT !.created = TRUE]

\* Mutant: a session that was given up no longer moves the application.
settleOpenPayment(n, s) ==
  /\ feeLink' = [feeLink EXCEPT ![n].st = normalizeWebhookStatus(s)]
  /\ feeApp' = IF s = "success" /\ feeLink[n].bound /\ feeLink[n].st # "FAILED"
               THEN enqueueCreateAfterVerifiedPayment([feeApp EXCEPT !.status = "ASSESSMENT_FEE_PAID"])
               ELSE feeApp

\* Payment row, application and CREATE event commit together; a bound payment of an
\* application that has moved on is refused as a whole.
settlePayment(n, s) ==
  LET next == IF feeLink[n].st = "SUCCESS" THEN "SUCCESS" ELSE normalizeWebhookStatus(s) IN
  /\ feeLink' = [feeLink EXCEPT ![n].st = next]
  /\ feeApp' = IF next = "SUCCESS" /\ feeLink[n].bound
               THEN enqueueCreateAfterVerifiedPayment([feeApp EXCEPT !.status = "ASSESSMENT_FEE_PAID"])
               ELSE feeApp

\* handleEasebuzzWebhook(): the inbox takes one notice per transaction, whatever it says.
handleEasebuzzWebhook(n, s) ==
  /\ <<n, s>> \in feeNotices
  /\ \/ feeNotices' = feeNotices \ {<<n, s>>}
     \/ ~InInbox(n) /\ UNCHANGED feeNotices     \* the gateway will send it again
  /\ LET refused == feeLink[n].bound /\ feeApp.status \notin {"LENDER_ALLOCATED", "ASSESSMENT_FEE_PAID"}
     IN IF InInbox(n) \/ refused THEN UNCHANGED <<feeApp, feeLink, feeInbox>>
        ELSE settlePayment(n, s) /\ feeInbox' = feeInbox \cup {<<n, s>>}
  /\ UNCHANGED <<feeGate, feePage>>

-----------------------------------------------------------------------------
(* The page after the checkout.                                             *)

\* The widget calls back: a failure frees the button, anything else starts polling.
handleEasebuzzResponse(t) ==
  /\ feePage[t].busy = "widget"
  /\ feePage' = [feePage EXCEPT ![t].busy =
                   IF feeGate[feePage[t].txn] = "failed" THEN "no" ELSE "poll"]
  /\ UNCHANGED <<feeApp, feeLink, feeInbox, feeGate, feeNotices>>

\* After eight seconds without a window the customer may start over.
handleRetryPayment(t) ==
  /\ feePage[t].busy = "widget"
  /\ feePage' = [feePage EXCEPT ![t].busy = "no"]
  /\ UNCHANGED <<feeApp, feeLink, feeInbox, feeGate, feeNotices>>

getPaymentStatus(t) == feeLink[feePage[t].txn].st

\* One poll; an open payment is asked about again, at most sixty times.
checkStatus(t) ==
  /\ feePage[t].busy = "poll"
  /\ feePage' = CASE getPaymentStatus(t) = "SUCCESS" ->
                       [feePage EXCEPT ![t].busy = "no", ![t].step = "checking"]
                  [] OTHER -> [feePage EXCEPT ![t].busy = "no"]
  /\ UNCHANGED <<feeApp, feeLink, feeInbox, feeGate, feeNotices>>

\* A reload: the step the backend permits, from the rows.
fetchFeeStep(t) ==
  /\ feePage' = [feePage EXCEPT ![t] =
       [step |-> CASE feeApp.status = "PLATFORM_REJECTED" -> "rejected"
                   [] feeApp.status # "PLATFORM_REJECTED" /\ ~feeApp.lender -> "basic"
                   [] feeApp.lender /\ ~ \E n \in Txns : feeLink[n].bound /\ feeLink[n].st = "SUCCESS" -> "fee"
                   [] OTHER -> "profile",
        txn |-> 0, busy |-> "no"]]
  /\ UNCHANGED <<feeApp, feeLink, feeInbox, feeGate, feeNotices>>

\* The rest of the journey submits the application.
feeAppMovesOn ==
  /\ feeApp.status = "ASSESSMENT_FEE_PAID"
  /\ \E t \in FeeTabs : feePage[t].step = "profile"
  /\ feeApp' = [feeApp EXCEPT !.status = "SUBMITTED"]
  /\ UNCHANGED <<feeLink, feeInbox, feeGate, feeNotices, feePage>>

FeeNext ==
  \/ callRunEligibility \/ createPaymentLink \/ feeAppMovesOn
  \/ \E n \in Txns : \/ ageLink(n) \/ payAtGateway(n) \/ reportPending(n)
                     \/ \E s \in {"pending", "success", "failure"} : handleEasebuzzWebhook(n, s)
  \/ \E t \in FeeTabs : \/ handleBasicDetailsContinue(t) \/ eligibilityDialog(t) \/ initiationFails(t)
                        \/ handlePayClick(t) \/ handleEasebuzzResponse(t) \/ handleRetryPayment(t)
                        \/ checkStatus(t) \/ fetchFeeStep(t)

\* The gateway delivers each notice: it repeats one that is not acknowledged.
FeeFairness == WF_feeVars(\E n \in Txns, s \in {"pending", "success", "failure"} : handleEasebuzzWebhook(n, s))
FeeSpec == FeeInit /\ [][FeeNext]_feeVars /\ FeeFairness

-----------------------------------------------------------------------------
(* The lender is asked to create an application exactly for the             *)
(* applications whose fee was really paid at the gateway in a session of     *)
(* this application, however sessions, hosted links, sweeps and repeated     *)
(* notices interleave.                                                       *)
CreateAfterPayment ==
  /\ feeApp.created => \E n \in Txns : feeLink[n].bound /\ feeLink[n].st = "SUCCESS"
  /\ \A n \in Txns : feeLink[n].st = "SUCCESS" => feeGate[n] = "paid"
  /\ feeApp.status \in PaidStatuses => feeApp.created

(* A confirmed payment stays confirmed: the sweep that clears the way for a  *)
(* new session, and late notices, leave it alone.                            *)
PaidStaysPaid ==
  [][/\ \A n \in Txns : feeLink[n].st = "SUCCESS" => feeLink'[n].st = "SUCCESS"
     /\ feeApp.status \in PaidStatuses => feeApp'.status \in PaidStatuses]_feeVars

(* A session the customer paid moves the application past the fee, also      *)
(* when the page was closed, the session had been swept or its notice came    *)
(* twice.  (Left out: a session whose "pending" notice took the inbox row.)   *)
PaidSessionCounts ==
  \A n \in Txns : feeGate[n] = "paid" /\ feeLink[n].bound
                    ~> feeApp.status \in PaidStatuses \/ <<n, "pending">> \in feeInbox

(* "If debited, your application status will update automatically."  (After a *)
(* "pending" notice it does not: the inbox takes the outcome for a replay.)   *)
DebitedFeeUpdates ==
  \A n \in Txns : feeGate[n] = "paid" /\ feeLink[n].bound ~> feeApp.status \in PaidStatuses

(* The page announces an evaluation "against platform policy" after the fee;  *)
(* an application that is submitted has had its policy evaluated.  (Allocation *)
(* already recorded a PASS, so the check returns at once.)                     *)
PolicyEvaluated == feeApp.status = "SUBMITTED" => feeApp.evaluated
=============================================================================
