---------------------------- MODULE LenderPipeline ----------------------------
(***************************************************************************)
(* One application on its way through the lender: what the handlers of     *)
(* LenderIntegrationService, the decision processor, the customer's calls, *)
(* the credit officer and the lender's rejection webhook do to the stage   *)
(* columns of the LenderApplicationLink and to the application's status.   *)
(*                                                                         *)
(* The outbox is reduced to the status of each row: LenderOutbox shows     *)
(* that one task at a time works on an application and that the fencing    *)
(* token guards its outcome.  What is kept here is everything a handler    *)
(* reads before an await and uses after it: a transaction that reads and   *)
(* then writes without a lock is two steps, as it is under the REPEATABLE  *)
(* READ that MySQL gives a Prisma transaction with no isolationLevel.      *)
(***************************************************************************)
EXTENDS Naturals, FiniteSets

CONSTANTS
  Clients,        \* requests that can be in flight at once for the customer
  Offers,         \* tenures the customer can pick
  NoOffer,
  Versions,       \* payload versions of UPDATE: 1 profile, 2 offer, 3 bank, 4 mandate
  CanPoll,        \* adapter.capabilities.statusPolling
  MaxPolls,       \* bound on STATUS polls, 5 in the code
  CallLimit,      \* bound: times each of the customer's calls is made
  MaxFailures,    \* bound: lender calls that fail
  MaxCrashes,     \* bound: worker crashes
  MaxReplays      \* bound: replays of failed events

ASSUME PipelineAssumption ==
  /\ Versions \subseteq 1..4 /\ {1, 2} \subseteq Versions
  /\ NoOffer \notin Offers
  /\ CanPoll \in BOOLEAN
  /\ CallLimit \in [{"save", "submit", "select", "push"} -> Nat]
  /\ {MaxPolls, MaxFailures, MaxCrashes, MaxReplays} \subseteq Nat

VARIABLES
  row,            \* status of each outbox row, "absent" before its upsert
  link,           \* the LenderApplicationLink: stage columns and versions
  app,            \* PlApplication: status, selected offer
  profile,        \* employment, KYC, liveness and addresses are complete
  consents,       \* the three decision consents are recorded
  worker,         \* the task at work on this application
  client,         \* the customer's requests in flight
  review,         \* the credit officer's transaction: idle, approve or reject
  used,           \* budgets spent
  lender,         \* history: what the lender has received
  heard,          \* history: verdicts whose processing was committed
  lost            \* history: a crash dropped a handler's follow-up

vars == <<row, link, app, profile, consents, worker, client, review, used, lender, heard, lost>>

Keys ==
  {<<"CREATE", 1>>, <<"CONSENT", 1>>, <<"OTHER_CONSENT", 1>>}
    \cup {<<"UPDATE", v>> : v \in Versions}
    \cup {<<"DECISION", v>> : v \in 1..2}
    \cup {<<"STATUS", v>> : v \in 1..MaxPolls}

RowStatus == {"absent", "PENDING", "PROCESSING", "RETRY_PENDING", "COMPLETED", "FAILED"}
Column == {"NOT_STARTED", "PENDING", "PROCESSING", "ACKNOWLEDGED", "RETRY_PENDING", "FAILED", "COMPLETED"}
AppStatus == {"ASSESSMENT_FEE_PAID", "LENDER_REVIEW", "LENDER_PRE_APPROVED",
              "PENDING_CREDIT_REVIEW", "LENDER_APPROVED", "LENDER_REJECTED"}
Done == {"ACKNOWLEDGED", "COMPLETED"}
Verdicts == {"APPROVED", "REJECTED", "PENDING"}
NoVerdict == [stage |-> 0, verdict |-> "none"]

Links == [create : Column, consent : Column, update : Column, updateVersion : Versions,
          decision : Column, decisionVersion : 1..2, asked : BOOLEAN]
NewLink == [create |-> "NOT_STARTED", consent |-> "NOT_STARTED", update |-> "NOT_STARTED",
            updateVersion |-> 1, decision |-> "NOT_STARTED", decisionVersion |-> 1, asked |-> FALSE]
Idle == [pc |-> "idle", key |-> <<"CREATE", 1>>, link |-> NewLink,
         status |-> "ASSESSMENT_FEE_PAID", offer |-> NoOffer, answer |-> NoVerdict]
NoCall == [pc |-> "idle", version |-> 1, link |-> NewLink, offer |-> NoOffer]

\* upsert({ where: { idempotencyKey }, create, update: {} })
Upsert(rows, k) == IF rows[k] = "absent" THEN [rows EXCEPT ![k] = "PENDING"] ELSE rows

\* The link column a stage owns; a supplementary consent owns none.
ColumnOf(k) ==
  CASE k[1] = "CREATE"  -> {"create"}
    [] k[1] = "CONSENT" -> {"consent"}
    [] k[1] = "OTHER_CONSENT" -> {}
    [] k[1] = "UPDATE"  -> {"update"}
    [] OTHER            -> {"decision"}
SetColumns(l, columns, status) == [f \in DOMAIN l |-> IF f \in columns THEN status ELSE l[f]]

\* evaluateUpdateReadiness(): CREATE and CONSENT landed and the customer's data is complete.
UpdateReady(l) == l.create \in Done /\ l.consent \in Done /\ profile

Spend(what) == used' = [used EXCEPT ![what] = @ + 1]

(***************************************************************************)
(* enqueueUpdateWhenReady() and enqueueDecisionWhenReady(): what they read *)
(* is `l`, what their transaction then writes does not look again.         *)
(***************************************************************************)
writeUpdate(version, l) ==
  /\ row' = Upsert(row, <<"UPDATE", version>>)
  /\ link' = IF l.update \in Done /\ l.updateVersion >= version
             THEN link
             ELSE [link EXCEPT !.update = "PENDING", !.updateVersion = version]

DecisionReady(version, l) ==
  l.update \in Done /\ l.updateVersion >= version /\ consents

writeDecision(version, l) ==
  /\ row' = Upsert(row, <<"DECISION", version>>)
  /\ link' = IF l.decisionVersion <= version
             THEN [link EXCEPT !.decision = "PENDING", !.decisionVersion = version, !.asked = TRUE]
             ELSE link

(***************************************************************************)
(* The worker.                                                             *)
(***************************************************************************)
\* The claim, and processEvent()'s read of the application and its link.  The first
\* event creates the link (createLink).
loadEvent(k) ==
  /\ worker.pc = "idle"
  /\ row[k] \in {"PENDING", "RETRY_PENDING"}
  /\ row' = [row EXCEPT ![k] = "PROCESSING"]
  /\ link' = IF link.create = "NOT_STARTED" THEN [link EXCEPT !.create = "PENDING"] ELSE link
  /\ worker' = [pc |-> "loaded", key |-> k, link |-> link', status |-> app.status,
                offer |-> app.offer, answer |-> NoVerdict]
  /\ UNCHANGED <<app, profile, consents, client, review, used, lender, heard, lost>>

\* Mutant: the version is left out of the early return of processUpdate.
AlreadyDoneAnyVersion(k, l) ==
  CASE k[1] = "CREATE"  -> l.create \in Done
    [] k[1] = "CONSENT" -> l.consent = "COMPLETED"
    [] k[1] = "UPDATE"  -> l.update \in Done
    [] OTHER            -> FALSE

\* The early `return false` of processCreate, processConsent and processUpdate.
AlreadyDone(k, l) ==
  CASE k[1] = "CREATE"  -> l.create \in Done
    [] k[1] = "CONSENT" -> l.consent = "COMPLETED"
    [] k[1] = "UPDATE"  -> l.update \in Done /\ l.updateVersion >= k[2]
    [] OTHER            -> FALSE

\* The permanent errors: LENDER_CONSENT_BEFORE_CREATE, LENDER_UPDATE_BEFORE_CONSENT,
\* LENDER_DECISION_BEFORE_UPDATE, and consent evidence missing for a decision.
Permitted(k, l) ==
  CASE k[1] = "CREATE" -> TRUE
    [] k[1] \in {"CONSENT", "OTHER_CONSENT"} -> l.create = "COMPLETED"
    [] k[1] = "UPDATE" -> l.consent = "COMPLETED"
    [] k[1] = "DECISION" -> l.update \in Done /\ consents
    [] k[1] = "STATUS" -> l.update \in Done /\ CanPoll

returnFalse ==
  /\ worker.pc = "loaded"
  /\ AlreadyDone(worker.key, worker.link)
  /\ row' = [row EXCEPT ![worker.key] = "COMPLETED"]
  /\ worker' = Idle
  /\ UNCHANGED <<link, app, profile, consents, client, review, used, lender, heard, lost>>

refuse ==
  /\ worker.pc = "loaded"
  /\ ~AlreadyDone(worker.key, worker.link)
  /\ ~Permitted(worker.key, worker.link)
  /\ worker' = [worker EXCEPT !.pc = "failing"]
  /\ UNCHANGED <<row, link, app, profile, consents, client, review, used, lender, heard, lost>>

\* The stage's column becomes PROCESSING (STATUS has no such write) and the call goes out.
callLender ==
  LET k == worker.key
      columns == IF k[1] = "STATUS" THEN {} ELSE ColumnOf(k)
  IN
  /\ worker.pc = "loaded"
  /\ ~AlreadyDone(k, worker.link)
  /\ Permitted(k, worker.link)
  /\ link' = LET l == SetColumns(link, columns, "PROCESSING")
             IN IF k[1] = "DECISION" THEN [l EXCEPT !.asked = TRUE] ELSE l
  /\ worker' = [worker EXCEPT !.pc = "calling"]
  /\ UNCHANGED <<row, app, profile, consents, client, review, used, lender, heard, lost>>

\* What the lender knows once it has taken the call.
Received(k) ==
  [lender EXCEPT
     !.update = IF k[1] = "UPDATE" /\ k[2] > @ THEN k[2] ELSE @,
     !.offer  = IF k[1] = "UPDATE" /\ k[2] >= 2 THEN worker.offer ELSE @,
     !.stage  = IF k[1] = "DECISION" /\ k[2] > @ THEN k[2] ELSE @]

\* The lender answers.  To a DECISION or a STATUS call it answers for the latest decision
\* request it has received.
lenderAnswers(verdict) ==
  LET k == worker.key IN
  /\ worker.pc = "calling"
  /\ lender' = Received(k)
  /\ IF k[1] \in {"DECISION", "STATUS"}
     THEN worker' = [worker EXCEPT !.pc = "answered",
                       !.answer = [stage |-> lender'.stage, verdict |-> verdict]]
     ELSE worker' = [worker EXCEPT !.pc = "answered"]
  /\ UNCHANGED <<row, link, app, profile, consents, client, review, used, heard, lost>>

\* An error or a timeout, before or after the lender took the call.
lenderFails(retrying) ==
  /\ worker.pc = "calling"
  /\ used.failures < MaxFailures
  /\ Spend("failures")
  /\ lender' \in {lender, Received(worker.key)}
  /\ worker' = [worker EXCEPT !.pc = IF retrying THEN "retrying" ELSE "failing"]
  /\ UNCHANGED <<row, link, app, profile, consents, client, review, heard, lost>>

\* The completion transaction of processCreate; the follow-up queues the other consents.
completeCreate ==
  /\ worker.pc = "answered" /\ worker.key[1] = "CREATE"
  /\ link' = [link EXCEPT !.create = "COMPLETED", !.consent = "PENDING"]
  /\ row' = Upsert([row EXCEPT ![worker.key] = "COMPLETED"], <<"CONSENT", 1>>)
  /\ worker' = [worker EXCEPT !.pc = "followUp"]
  /\ UNCHANGED <<app, profile, consents, client, review, used, lender, heard, lost>>

completeConsent ==
  /\ worker.pc = "answered" /\ worker.key[1] \in {"CONSENT", "OTHER_CONSENT"}
  /\ link' = SetColumns(link, ColumnOf(worker.key), "COMPLETED")
  /\ row' = [row EXCEPT ![worker.key] = "COMPLETED"]
  /\ worker' = [worker EXCEPT !.pc = "followUp"]
  /\ UNCHANGED <<app, profile, consents, client, review, used, lender, heard, lost>>

\* Mutant: the version alternative of the decision request is dropped.
completeUpdateAskingOnce ==
  LET v == worker.key[2] IN
  /\ worker.pc = "answered" /\ worker.key[1] = "UPDATE"
  /\ link' = [link EXCEPT !.update = "COMPLETED", !.updateVersion = v]
  /\ row' = [row EXCEPT ![worker.key] = "COMPLETED"]
  /\ worker' = IF v <= 2 /\ ~worker.link.asked THEN [worker EXCEPT !.pc = "followUp"] ELSE Idle
  /\ UNCHANGED <<app, profile, consents, client, review, used, lender, heard, lost>>

\* processUpdate asks for a decision after V1 and V2 only, judged by the link it loaded.
completeUpdate ==
  LET v == worker.key[2]
      asks == v <= 2 /\ (~worker.link.asked \/ worker.link.decisionVersion < v)
  IN
  /\ worker.pc = "answered" /\ worker.key[1] = "UPDATE"
  /\ link' = [link EXCEPT !.update = "COMPLETED", !.updateVersion = v]
  /\ row' = [row EXCEPT ![worker.key] = "COMPLETED"]
  /\ worker' = IF asks THEN [worker EXCEPT !.pc = "followUp"] ELSE Idle
  /\ UNCHANGED <<app, profile, consents, client, review, used, lender, heard, lost>>

\* LenderDecisionProcessor.process(): the transaction reads link and application ...
readDecision ==
  /\ worker.pc = "answered" /\ worker.key[1] \in {"DECISION", "STATUS"}
  /\ worker' = [worker EXCEPT !.pc = "deciding", !.link = link, !.status = app.status, !.offer = app.offer]
  /\ UNCHANGED <<row, link, app, profile, consents, client, review, used, lender, heard, lost>>

\* Mutant: the stage is taken from the event's own payloadVersion, as a STATUS poll also has one.
IsFinalByEvent(l) == worker.key[2] >= 2
IsFinal(l) == l.decisionVersion >= 2
AlreadyResolved(final, status) ==
  status \in IF final THEN {"PENDING_CREDIT_REVIEW", "LENDER_APPROVED", "LENDER_REJECTED"}
                      ELSE {"LENDER_PRE_APPROVED", "LENDER_REJECTED"}

Outcome(final, verdict, status) ==
  CASE verdict = "REJECTED" -> "LENDER_REJECTED"
    [] verdict = "APPROVED" -> IF final THEN "PENDING_CREDIT_REVIEW" ELSE "LENDER_PRE_APPROVED"
    [] OTHER -> IF final THEN status ELSE "LENDER_REVIEW"

\* ... and writes the outcome, the next poll and the completed row.  A final approval with
\* no selected offer would be refused (LENDER_APPROVAL_TERMS_MISSING); ApprovalTermsStored
\* says that it never comes, so that refusal has no action.
commitDecision ==
  LET k == worker.key
      verdict == worker.answer.verdict
      final == IsFinal(worker.link)
      resolved == AlreadyResolved(final, worker.status)
      poll == IF k[1] = "STATUS" THEN k[2] + 1 ELSE 1
      completed == [row EXCEPT ![k] = "COMPLETED"]
  IN
  /\ worker.pc = "deciding"
  /\ resolved \/ ~(final /\ verdict = "APPROVED" /\ worker.offer = NoOffer)
  /\ row' = IF ~resolved /\ verdict = "PENDING" /\ CanPoll /\ poll <= MaxPolls
            THEN Upsert(completed, <<"STATUS", poll>>) ELSE completed
  /\ link' = IF resolved THEN link
             ELSE [link EXCEPT !.decision = IF verdict = "PENDING" THEN "ACKNOWLEDGED" ELSE "COMPLETED"]
  /\ app' = IF resolved THEN app ELSE [app EXCEPT !.status = Outcome(final, verdict, @)]
  /\ heard' = heard \cup {worker.answer}
  /\ worker' = Idle
  /\ UNCHANGED <<profile, consents, client, review, used, lender, lost>>

\* markStageFailure(), then the worker's own write of the row.
markStageFailure ==
  /\ worker.pc \in {"retrying", "failing"}
  /\ link' = SetColumns(link, ColumnOf(worker.key),
                        IF worker.pc = "retrying" THEN "RETRY_PENDING" ELSE "FAILED")
  /\ worker' = [worker EXCEPT !.pc = IF @ = "retrying" THEN "settleRetry" ELSE "settleFailed"]
  /\ UNCHANGED <<row, app, profile, consents, client, review, used, lender, heard, lost>>

settleFailure ==
  /\ worker.pc \in {"settleRetry", "settleFailed"}
  /\ row' = [row EXCEPT ![worker.key] = IF worker.pc = "settleRetry" THEN "RETRY_PENDING" ELSE "FAILED"]
  /\ worker' = Idle
  /\ UNCHANGED <<link, app, profile, consents, client, review, used, lender, heard, lost>>

\* What a handler does after its completion transaction: enqueueConsentSubmissions()
\* after CREATE, otherwise the read of enqueueUpdateWhenReady(1) or
\* enqueueDecisionWhenReady(version).  An exception here finds the row COMPLETED and is
\* dropped by the worker.
followUp ==
  LET k == worker.key
      ready == IF k[1] = "UPDATE" THEN DecisionReady(k[2], link) ELSE UpdateReady(link)
  IN
  /\ worker.pc = "followUp"
  /\ IF k[1] = "CREATE"
     THEN /\ row' = IF consents THEN Upsert(row, <<"OTHER_CONSENT", 1>>) ELSE row
          /\ worker' = Idle
     ELSE /\ worker' = IF ready THEN [worker EXCEPT !.pc = "followWrite", !.link = link] ELSE Idle
          /\ UNCHANGED row
  /\ UNCHANGED <<link, app, profile, consents, client, review, used, lender, heard, lost>>

followWrite ==
  /\ worker.pc = "followWrite"
  /\ IF worker.key[1] = "UPDATE"
     THEN writeDecision(worker.key[2], worker.link)
     ELSE writeUpdate(1, worker.link)
  /\ worker' = Idle
  /\ UNCHANGED <<app, profile, consents, client, review, used, lender, heard, lost>>

\* The process dies.  A row left PROCESSING is swept to RETRY_PENDING once its lease is over.
crash ==
  /\ worker.pc # "idle"
  /\ used.crashes < MaxCrashes
  /\ Spend("crashes")
  /\ lost' = (lost \/ worker.pc \in {"followUp", "followWrite"})
  /\ worker' = Idle
  /\ UNCHANGED <<row, link, app, profile, consents, client, review, lender, heard>>

sweep(k) ==
  /\ worker.pc = "idle"
  /\ row[k] = "PROCESSING"
  /\ row' = [row EXCEPT ![k] = "RETRY_PENDING"]
  /\ UNCHANGED <<link, app, profile, consents, worker, client, review, used, lender, heard, lost>>

(***************************************************************************)
(* The customer.                                                           *)
(***************************************************************************)
CanCall(c, what) == client[c].pc = "idle" /\ used[what] < CallLimit[what]

\* saveApplicationAddress() and the other profile saves: the data is stored, then
\* enqueueUpdateWhenReady(1) is called.
saveProfile(c) ==
  /\ CanCall(c, "save")
  /\ Spend("save")
  /\ profile' = TRUE
  /\ client' = [client EXCEPT ![c].pc = "enqueueUpdate"]
  /\ UNCHANGED <<row, link, app, consents, worker, review, lender, heard, lost>>

\* bank verification and mandate authorisation of an approved loan push V3 and V4
stagePush(c, v) ==
  /\ v >= 3 /\ app.status = "LENDER_APPROVED"
  /\ CanCall(c, "push")
  /\ Spend("push")
  /\ client' = [client EXCEPT ![c].pc = "enqueueUpdate", ![c].version = v]
  /\ UNCHANGED <<row, link, app, profile, consents, worker, review, lender, heard, lost>>

enqueueUpdateWhenReady(c) ==
  /\ client[c].pc = "enqueueUpdate"
  /\ client' = [client EXCEPT ![c] = IF UpdateReady(link) THEN [@ EXCEPT !.pc = "writeUpdate", !.link = link] ELSE NoCall]
  /\ UNCHANGED <<row, link, app, profile, consents, worker, review, used, lender, heard, lost>>

commitUpdate(c) ==
  /\ client[c].pc = "writeUpdate"
  /\ writeUpdate(client[c].version, client[c].link)
  /\ client' = [client EXCEPT ![c] = NoCall]
  /\ UNCHANGED <<app, profile, consents, worker, review, used, lender, heard, lost>>

\* recordDecisionConsents(): the consents are committed, their submissions queued if
\* CREATE has landed, and the decision requested if UPDATE has.
recordDecisionConsents(c) ==
  /\ CanCall(c, "submit")
  /\ Spend("submit")
  /\ consents' = TRUE
  /\ client' = [client EXCEPT ![c].pc = "enqueueConsents"]
  /\ UNCHANGED <<row, link, app, profile, worker, review, lender, heard, lost>>

enqueueConsentSubmissions(c) ==
  /\ client[c].pc = "enqueueConsents"
  /\ row' = IF link.create \in Done THEN Upsert(row, <<"OTHER_CONSENT", 1>>) ELSE row
  /\ client' = [client EXCEPT ![c].pc = "enqueueDecision"]
  /\ UNCHANGED <<link, app, profile, consents, worker, review, used, lender, heard, lost>>

enqueueDecisionWhenReady(c) ==
  /\ client[c].pc = "enqueueDecision"
  /\ client' = [client EXCEPT ![c] = IF DecisionReady(1, link) THEN [@ EXCEPT !.pc = "writeDecision", !.link = link] ELSE NoCall]
  /\ UNCHANGED <<row, link, app, profile, consents, worker, review, used, lender, heard, lost>>

commitDecisionRequest(c) ==
  /\ client[c].pc = "writeDecision"
  /\ writeDecision(1, client[c].link)
  /\ client' = [client EXCEPT ![c] = NoCall]
  /\ UNCHANGED <<app, profile, consents, worker, review, used, lender, heard, lost>>

\* selectPreApprovalOffer(): the checks on a plain read, then the write by id, then V2.
selectPreApprovalOffer(c, offer) ==
  /\ CanCall(c, "select")
  /\ app.status = "LENDER_PRE_APPROVED" /\ app.offer = NoOffer
  /\ Spend("select")
  /\ client' = [client EXCEPT ![c].pc = "writeOffer", ![c].offer = offer]
  /\ UNCHANGED <<row, link, app, profile, consents, worker, review, lender, heard, lost>>

writeOffer(c) ==
  /\ client[c].pc = "writeOffer"
  /\ app' = [app EXCEPT !.offer = client[c].offer]
  /\ client' = [client EXCEPT ![c].pc = "enqueueUpdate", ![c].version = 2]
  /\ UNCHANGED <<row, link, profile, consents, worker, review, used, lender, heard, lost>>

(***************************************************************************)
(* The lender's webhook, the credit officer and the operator.              *)
(***************************************************************************)
processLenderRejectionWebhook ==
  /\ used.webhook < 1
  /\ Spend("webhook")
  /\ app.status # "LENDER_REJECTED"
  /\ app' = [app EXCEPT !.status = "LENDER_REJECTED"]
  /\ link' = IF link.create = "NOT_STARTED" THEN link ELSE [link EXCEPT !.decision = "COMPLETED"]
  /\ UNCHANGED <<row, profile, consents, worker, client, review, lender, heard, lost>>

\* CreditReviewService.approve() and reject(): a transaction that reads the status ...
startReview(decision) ==
  /\ review = "idle"
  /\ app.status = "PENDING_CREDIT_REVIEW"
  /\ review' = decision
  /\ UNCHANGED <<row, link, app, profile, consents, worker, client, used, lender, heard, lost>>

\* ... and updates the application by id.  approve() also creates the loan.
commitApprove ==
  /\ review = "approve"
  /\ app' = [app EXCEPT !.status = "LENDER_APPROVED"]
  /\ review' = "idle"
  /\ UNCHANGED <<row, link, profile, consents, worker, client, used, lender, heard, lost>>

commitReject ==
  /\ review = "reject"
  /\ app' = [app EXCEPT !.status = "LENDER_REJECTED"]
  /\ review' = "idle"
  /\ UNCHANGED <<row, link, profile, consents, worker, client, used, lender, heard, lost>>

\* replayFailedEvent(), also reached by the customer's retryLenderSubmission().
replayFailedEvent(k) ==
  /\ used.replays < MaxReplays
  /\ Spend("replays")
  /\ row[k] \in {"FAILED", "RETRY_PENDING"}
  /\ app.status \notin {"LENDER_APPROVED", "LENDER_REJECTED"}
  /\ row' = [row EXCEPT ![k] = "PENDING"]
  /\ link' = IF k[1] = "STATUS" THEN link ELSE SetColumns(link, ColumnOf(k), "PENDING")
  /\ UNCHANGED <<app, profile, consents, worker, client, review, lender, heard, lost>>

\* The journey starts where enqueueCreateAfterVerifiedPayment() has queued CREATE.
Init ==
  /\ row = [k \in Keys |-> IF k = <<"CREATE", 1>> THEN "PENDING" ELSE "absent"]
  /\ link = NewLink
  /\ app = [status |-> "ASSESSMENT_FEE_PAID", offer |-> NoOffer]
  /\ profile = FALSE /\ consents = FALSE
  /\ worker = Idle /\ review = "idle"
  /\ client = [c \in Clients |-> NoCall]
  /\ used = [what \in DOMAIN CallLimit \cup {"failures", "crashes", "replays", "webhook"} |-> 0]
  /\ lender = [update |-> 0, offer |-> NoOffer, stage |-> 0]
  /\ heard = {} /\ lost = FALSE

WorkerStep ==
  \/ \E k \in Keys : loadEvent(k)
  \/ returnFalse \/ refuse \/ callLender
  \/ \E verdict \in Verdicts : lenderAnswers(verdict)
  \/ \E retrying \in BOOLEAN : lenderFails(retrying)
  \/ completeCreate \/ completeConsent \/ completeUpdate
  \/ readDecision \/ commitDecision
  \/ markStageFailure \/ settleFailure
  \/ followUp \/ followWrite

ClientStep(c) ==
  \/ saveProfile(c) \/ enqueueUpdateWhenReady(c) \/ commitUpdate(c)
  \/ recordDecisionConsents(c) \/ enqueueConsentSubmissions(c)
  \/ enqueueDecisionWhenReady(c) \/ commitDecisionRequest(c)
  \/ \E offer \in Offers : selectPreApprovalOffer(c, offer)
  \/ writeOffer(c)
  \/ \E v \in Versions : stagePush(c, v)

Next ==
  \/ WorkerStep
  \/ crash
  \/ \E k \in Keys : sweep(k) \/ replayFailedEvent(k)
  \/ \E c \in Clients : ClientStep(c)
  \/ processLenderRejectionWebhook
  \/ \E decision \in {"approve", "reject"} : startReview(decision)
  \/ commitApprove \/ commitReject

Spec == Init /\ [][Next]_vars

(***************************************************************************)
(* Properties.                                                             *)
(***************************************************************************)
\* Every variable keeps its type.
TypeOK ==
  /\ row \in [Keys -> RowStatus]
  /\ link \in Links
  /\ app \in [status : AppStatus, offer : Offers \cup {NoOffer}]
  /\ profile \in BOOLEAN /\ consents \in BOOLEAN /\ lost \in BOOLEAN
  /\ review \in {"idle", "approve", "reject"}
  /\ worker.key \in Keys /\ worker.link \in Links
  /\ \A c \in Clients : client[c].version \in Versions /\ client[c].link \in Links

\* An UPDATE event is closed only when the lender has taken that version of the profile,
\* or a later one: the version check that lets processUpdate return early never drops a
\* push that is still owed.
NoUpdateSkipped ==
  \A v \in Versions : row[<<"UPDATE", v>>] = "COMPLETED" => lender.update >= v

\* The lender is asked for its final decision only after it has received the offer the
\* customer selected.
FinalAfterOffer == lender.stage = 2 => lender.update >= 2 /\ lender.offer # NoOffer

\* The outcome the decision processor refuses, a final approval of an application with no
\* selected offer, cannot come: who decides by a final request read the offer with it.
ApprovalTermsStored == worker.pc = "deciding" /\ IsFinal(worker.link) => worker.offer # NoOffer

\* A verdict that was processed shows in the application's status, and the status reaches
\* credit review and approval only by the lender's approval of the final request: a verdict
\* on the pre-approval is never taken for the final one, nor the other way round.
VerdictHonoured ==
  /\ \A s \in 1..2 : [stage |-> s, verdict |-> "REJECTED"] \in heard => app.status = "LENDER_REJECTED"
  /\ [stage |-> 1, verdict |-> "APPROVED"] \in heard =>
       app.status \notin {"ASSESSMENT_FEE_PAID", "LENDER_REVIEW"}
  /\ [stage |-> 2, verdict |-> "APPROVED"] \in heard =>
       app.status \in {"PENDING_CREDIT_REVIEW", "LENDER_APPROVED", "LENDER_REJECTED"}
  /\ app.status \in {"PENDING_CREDIT_REVIEW", "LENDER_APPROVED"} =>
       [stage |-> 2, verdict |-> "APPROVED"] \in heard

Quiet == worker.pc = "idle" /\ \A c \in Clients : client[c].pc = "idle"

\* The customer's submit and the worker's UPDATE each look for the other's trace after
\* leaving their own, so whichever comes second requests the decision: with both done and
\* nobody at work the decision event exists, unless a crash dropped a follow-up.
DecisionRequested ==
  Quiet /\ ~lost /\ consents /\ link.update \in Done =>
    \A v \in 1..2 : v <= link.updateVersion => row[<<"DECISION", v>>] # "absent"

\* The comment of LenderDecisionProcessor: a rejection is terminal at either stage.
RejectionIsTerminal ==
  [][app.status = "LENDER_REJECTED" => app'.status = "LENDER_REJECTED"]_vars

\* The comment of enqueueUpdateWhenReady(): re-saving the address, or any other trigger of
\* the method, does not undo an UPDATE completed at that version.
UpdateNotUndone ==
  [][link.update = "COMPLETED" /\ link'.update = "PENDING" => link'.updateVersion > link.updateVersion]_vars

\* The comment of selectPreApprovalOffer(): the V2 push carries the selected offer.  When
\* the lender's final approval is in, the offer it was told is the one stored.
ApprovedOfferIsSelected ==
  app.status = "PENDING_CREDIT_REVIEW" => lender.offer = app.offer

\* The comment of selectPreApprovalOffer(): the final decision is what moves the status to
\* PENDING_CREDIT_REVIEW; so once it is processed the status is not LENDER_PRE_APPROVED.
FinalApprovalMovesStatus ==
  [stage |-> 2, verdict |-> "APPROVED"] \in heard => app.status # "LENDER_PRE_APPROVED"
================================================================================
