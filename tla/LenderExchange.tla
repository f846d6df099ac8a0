------------------------------ MODULE LenderExchange ------------------------------
(***************************************************************************)
(* One outbox event on its way to the lender: the context the stage        *)
(* handler builds (LenderIntegrationService), the payload and the checks   *)
(* of the answer (FintreeFinanceV1Adapter and its mapper), the request     *)
(* itself (LenderHttpService), the document read from disk                 *)
(* (LenderDocumentFileService) and its transfer row, and the verdict on    *)
(* every kind of failure, on which the retry depends.                      *)
(*                                                                         *)
(* The queue, the leases and the decision's consequences are LenderOutbox  *)
(* and LenderPipeline; here an event is claimed, tried and settled.  What  *)
(* the application's records hold is a version number per fact, zero when  *)
(* the fact is missing; a body is the facts it carries.                    *)
(***************************************************************************)
EXTENDS Naturals, Sequences, FiniteSets

CONSTANTS
  Runners,       \* workers
  StagesSent,    \* stages an event may be of
  Gaps,          \* sets of facts that may be missing at the start
  Setups,        \* sets of settings that may be wrong at the start
  Troubles,      \* ways the request may fail on the wire
  MaxTries,      \* maximumRetryAttempts
  MaxTroubles,   \* bound on failed requests
  MaxEdits,      \* bound on facts changed while the event waits
  MaxDeaths,     \* bound on workers lost
  Overrun        \* whether a lease may end under a running worker

VARIABLES
  stage,         \* integrationStage of the event
  fact,          \* the application's records: a version per fact, 0 when missing
  wrong,         \* settings that are wrong
  event,         \* the outbox row: status, attemptCount, lockToken
  transfer,      \* LenderDocumentTransfer.transferStatus
  runner,        \* per worker: the event being processed
  holds,         \* external: the bodies the lender accepted for this event
  recorded,      \* the body of the acknowledged request
  tally          \* troubles, edits and deaths so far, and whether a trouble was a final one

exVars == <<stage, fact, wrong, event, transfer, runner, holds, recorded, tally>>

ExFacts == {"allocation", "lan", "partner", "product", "payment", "sharing", "pan", "profile",
            "readiness", "offer", "bank", "mandate", "consents", "amount", "repayment", "charge",
            "dueDate", "waiver", "document", "file", "signature"}
NoBody == <<>>
IdleRunner == [at |-> "idle", token |-> 0, body |-> NoBody, result |-> "none"]

-------------------------------------------------------------------------------
(* Contexts and payloads: the facts each stage cannot do without, and those it carries *)

\* buildCreateContext(): the product of the allocated lender, the paid fee, the data-sharing
\* consent and the LAN; the payload needs the verified PAN and the names.
buildCreateContext == {"product", "payment", "sharing", "lan"}
mapFintreeCreatePayload == {"pan", "profile"}
createBody == {"lan", "product", "pan", "profile"}

\* buildConsentContext(): the newest consent of the event's type, its text matching its hash.
buildConsentContext == {"sharing", "lan"}
mapFintreeConsentPayload == {"lan", "sharing"}

\* buildUpdateContext(): everything getUpdateReadiness() asks for; the offer, the bank account
\* and the mandate are sent as they are, or as null.
buildUpdateContext == {"readiness"}
detailsOfCustomer == {"lan", "profile"}
detailsOfEvidence == {"readiness"}
optionalDetails == {"offer", "bank", "mandate"}
mapFintreeDetailsPayload == detailsOfCustomer \cup detailsOfEvidence \cup optionalDetails

buildDecisionContext == {"product", "consents"}
mapFintreeDecisionPayload == {"product", "consents"}

buildDisburseContext == {"lan", "amount"}
mapFintreeDisbursePayload == {"lan", "amount"}

buildRepaymentContext == {"lan", "repayment"}
mapFintreeRepaymentPayload == {"lan", "repayment"}

\* buildChargeContext(): a charge without a due date cannot be reported.
buildChargeContext == {"lan", "charge", "dueDate"}
mapFintreeChargePayload == {"lan", "charge", "dueDate"}

buildChargeWaiverContext == {"lan", "waiver"}
mapFintreeChargeWaiverPayload == {"lan", "waiver"}

\* processDocument(): the transfer of a verified borrower Aadhaar document of the right type.
documentContext == {"document", "lan"}
mapFintreeDocumentPayload == {"lan", "document", "file"}

Requires ==
  [CREATE |-> buildCreateContext \cup mapFintreeCreatePayload,
   CONSENT |-> buildConsentContext \cup {"partner"},
   UPDATE |-> buildUpdateContext \cup {"partner"},
   DOCUMENT |-> documentContext \cup {"partner"},
   DECISION |-> buildDecisionContext \cup {"partner"},
   DISBURSE |-> buildDisburseContext \cup {"partner"},
   REPAYMENT |-> buildRepaymentContext \cup {"partner"},
   CHARGE |-> buildChargeContext \cup {"partner"},
   CHARGE_WAIVER |-> buildChargeWaiverContext \cup {"partner"}]

Carries ==
  [CREATE |-> createBody, CONSENT |-> mapFintreeConsentPayload,
   UPDATE |-> mapFintreeDetailsPayload, DOCUMENT |-> mapFintreeDocumentPayload,
   DECISION |-> mapFintreeDecisionPayload, DISBURSE |-> mapFintreeDisbursePayload,
   REPAYMENT |-> mapFintreeRepaymentPayload, CHARGE |-> mapFintreeChargePayload,
   CHARGE_WAIVER |-> mapFintreeChargeWaiverPayload]

bodyOf(s) == [f \in Carries[s] |-> fact[f]]
lacking(s) == {f \in Requires[s] : fact[f] = 0}

-------------------------------------------------------------------------------
(* Verdicts *)

retryable(verdict) == verdict = "TEMPORARY"

\* verifyEventAllocation(), verifyLinkAllocation() and the integration's own configuration.
admitted ==
  IF fact["allocation"] = 0 THEN "PERMANENT_VALIDATION"
  ELSE IF "inactive" \in wrong THEN "AUTHENTICATION_CONFIGURATION" ELSE "ok"

\* requirePath(), resolvePartnerPath(): the endpoint's path, with the partner's id in it.
requirePath == IF "path" \in wrong THEN "AUTHENTICATION_CONFIGURATION" ELSE "ok"

\* resolveSecret() for the key header, authenticationHeaders() for the transport's own scheme.
resolveSecret == IF "secret" \in wrong THEN "AUTHENTICATION_CONFIGURATION" ELSE "ok"
authenticationHeaders == IF "scheme" \in wrong THEN "AUTHENTICATION_CONFIGURATION" ELSE "ok"

\* validateHost(): an allowed host whose name resolves; a name service that fails is reported
\* like a wrong name.
validateHost == IF "host" \in wrong THEN "AUTHENTICATION_CONFIGURATION" ELSE "ok"

\* resolveRequestUrl(): a base URL and a path that stay within it, on such a host.
resolveRequestUrl == IF "url" \in wrong THEN "AUTHENTICATION_CONFIGURATION" ELSE validateHost

\* validateFileSignature() and loadDocument(): the stored file, inside the upload root, of a
\* size that fits and with the bytes of its declared type.
validateFileSignature == fact["signature"] # 0
loadDocument ==
  IF stage = "DOCUMENT" /\ ~(fact["file"] # 0 /\ validateFileSignature)
  THEN "PERMANENT_VALIDATION" ELSE "ok"

\* Mutant: a server error is not worth another try.
normalizeServerErrorsFinal(trouble) ==
  CASE trouble \in {"reset", "timeout"} -> "TEMPORARY"
    [] trouble \in {"429", "503", "400", "404"} -> "PERMANENT_VALIDATION"
    [] trouble = "401" -> "AUTHENTICATION_CONFIGURATION"
    [] OTHER -> "UNKNOWN"

\* normalizeLenderIntegrationError(): a broken connection, a rate limit and a server error are
\* temporary; the other statuses are the request's or the configuration's fault.
normalizeLenderIntegrationError(trouble) ==
  CASE trouble \in {"reset", "timeout", "429", "503"} -> "TEMPORARY"
    [] trouble = "401" -> "AUTHENTICATION_CONFIGURATION"
    [] trouble \in {"400", "404"} -> "PERMANENT_VALIDATION"
    [] OTHER -> "UNKNOWN"

\* partnerError(): the lender's own error codes, in an answer that is not a success.
partnerError(code) ==
  CASE code = "UNAUTHORIZED" -> "AUTHENTICATION_CONFIGURATION"
    [] code = "RATE_LIMITED" -> "TEMPORARY"
    [] OTHER -> "PERMANENT_VALIDATION"

\* The end of callFintree() and the first check of every method: an answer of the agreed shape,
\* and a success.
fintreeAnswer(answer) ==
  CASE answer.kind = "error" -> partnerError(answer.code)
    [] answer.kind = "malformed" -> "PERMANENT_VALIDATION"
    [] OTHER -> "ok"

matching(answer, fits) ==
  IF fintreeAnswer(answer) = "ok" /\ ~fits THEN "PERMANENT_VALIDATION" ELSE fintreeAnswer(answer)

\* The adapter's methods, by what they make of an answer to the body sent.  An answer about
\* another LAN, details version or file is refused; so is a decision of an unknown status, and
\* an approval without a limit.
createApplication(body, answer) == matching(answer, answer.echo = body)
submitConsent(body, answer) == fintreeAnswer(answer)
updateApplication(body, answer) == matching(answer, answer.echo = body)
uploadDocument(body, answer) == matching(answer, answer.echo = body)
requestDecision(body, answer) ==
  matching(answer, answer.code \in {"approved", "rejected", "pending"})
requestDisbursal(body, answer) == fintreeAnswer(answer)
recordRepayment(body, answer) == fintreeAnswer(answer)
addServicingCharge(body, answer) == fintreeAnswer(answer)
waiveCharge(body, answer) == fintreeAnswer(answer)

answerVerdict(body, answer) ==
  CASE stage = "CREATE" -> createApplication(body, answer)
    [] stage = "CONSENT" -> submitConsent(body, answer)
    [] stage = "UPDATE" -> updateApplication(body, answer)
    [] stage = "DOCUMENT" -> uploadDocument(body, answer)
    [] stage = "DECISION" -> requestDecision(body, answer)
    [] stage = "DISBURSE" -> requestDisbursal(body, answer)
    [] stage = "REPAYMENT" -> recordRepayment(body, answer)
    [] stage = "CHARGE" -> addServicingCharge(body, answer)
    [] OTHER -> waiveCharge(body, answer)

-------------------------------------------------------------------------------
(* The worker *)

Owner(w) == event.status = "PROCESSING" /\ event.token = runner[w].token

claimEvent(w) ==
  /\ runner[w] = IdleRunner
  /\ event.status \in {"PENDING", "RETRY_PENDING"}
  /\ event' = [status |-> "PROCESSING", attempts |-> event.attempts + 1,
               token |-> event.attempts + 1]
  /\ runner' = [runner EXCEPT ![w] = [IdleRunner EXCEPT !.at = "claimed",
                                                       !.token = event.attempts + 1]]
  /\ UNCHANGED <<stage, fact, wrong, transfer, holds, recorded, tally>>

\* processEvent() and the stage handler up to the adapter's call.  A document already
\* acknowledged is not sent again: the worker completes the row.
buildContext(w) ==
  /\ runner[w].at = "claimed"
  /\ LET verdict == IF ~Owner(w) THEN "TEMPORARY"
                    ELSE IF admitted # "ok" THEN admitted
                    ELSE IF stage = "DOCUMENT" /\ transfer = "ACKNOWLEDGED" THEN "done"
                    ELSE IF lacking(stage) # {} THEN "PERMANENT_VALIDATION" ELSE "ok"
     IN  /\ event' = IF verdict = "done" THEN [event EXCEPT !.status = "COMPLETED"] ELSE event
         /\ runner' = [runner EXCEPT ![w] =
              CASE verdict = "done" -> IdleRunner
                [] verdict = "ok" -> [@ EXCEPT !.at = "built"]
                [] OTHER -> [@ EXCEPT !.at = "failing", !.result = verdict]]
         /\ transfer' = IF verdict = "ok" /\ stage = "DOCUMENT" THEN "PROCESSING" ELSE transfer
  /\ UNCHANGED <<stage, fact, wrong, holds, recorded, tally>>

\* The catch of processDocument() marks the transfer, whoever owns the event by then.
failExchange(w, verdict) ==
  /\ runner' = [runner EXCEPT ![w].at = "failing", ![w].result = verdict]
  /\ transfer' = IF stage = "DOCUMENT" THEN "FAILED" ELSE transfer

\* callFintree() and requestJson() before the request leaves; the body is taken now.
requestJson(w) ==
  /\ runner[w].at = "built"
  /\ LET faults == {v \in {loadDocument, requirePath, resolveSecret, resolveRequestUrl,
                            authenticationHeaders} : v # "ok"}
     IN  IF faults # {} THEN \E v \in faults : failExchange(w, v)
         ELSE /\ runner' = [runner EXCEPT ![w].at = "sent", ![w].body = bodyOf(stage)]
              /\ UNCHANGED transfer
  /\ UNCHANGED <<stage, fact, wrong, event, holds, recorded, tally>>

-------------------------------------------------------------------------------
(* The wire and the lender *)

Answer(kind, echo, code) == [kind |-> kind, echo |-> echo, code |-> code]

\* The lender under an Idempotency-Key: a known key with the same body gets the first answer
\* again, with another body a conflict.
lenderAnswer(body) ==
  IF holds = <<>> \/ holds[1] = body THEN Answer("ok", body, "approved")
  ELSE Answer("error", NoBody, "IDEMPOTENCY_CONFLICT")

\* Mutant: the request carries no Idempotency-Key.
callWithoutKey(body) == holds' = Append(holds, body)

\* callFintree(): the event's own idempotencyKey goes with every attempt, so what the lender
\* holds changes with the first request that reaches it.
callFintree(body) == holds' = IF holds = <<>> THEN <<body>> ELSE holds

\* The request reaches the lender, and its answer the worker.
answerArrives(w) ==
  /\ runner[w].at = "sent"
  /\ callFintree(runner[w].body)
  /\ runner' = [runner EXCEPT ![w].at = "answered",
                 ![w].result = answerVerdict(runner[w].body, lenderAnswer(runner[w].body))]
  /\ UNCHANGED <<stage, fact, wrong, event, transfer, recorded, tally>>

\* Answers that are no success: the lender refused the request before it took it up, or took it
\* up and answered something the adapter does not accept.
Refused == {"UNAUTHORIZED", "RATE_LIMITED", "VALIDATION_ERROR"}
Unfit(body) ==
  [malformed |-> Answer("malformed", NoBody, "none"),
   other |-> Answer("ok", NoBody, "approved"),
   undecided |-> Answer("ok", body, "on hold")]

troubleVerdict(body, trouble) ==
  IF trouble \in Refused THEN answerVerdict(body, Answer("error", NoBody, trouble))
  ELSE IF trouble \in DOMAIN Unfit(body) THEN answerVerdict(body, Unfit(body)[trouble])
  ELSE normalizeLenderIntegrationError(trouble)

\* Troubles that another try can overcome.
Passing == {"reset", "timeout", "429", "503", "RATE_LIMITED"}

\* A request that fails: of a time-out nobody knows whether the lender saw it.
requestFails(w) ==
  /\ runner[w].at = "sent" /\ tally.troubles < MaxTroubles
  /\ \E trouble \in Troubles :
       LET verdict == troubleVerdict(runner[w].body, trouble)
       IN  /\ verdict # "ok"
           /\ \/ trouble \notin DOMAIN Unfit(runner[w].body) /\ UNCHANGED holds
              \/ /\ trouble = "timeout" \/ trouble \in DOMAIN Unfit(runner[w].body)
                 /\ callFintree(runner[w].body)
           /\ failExchange(w, verdict)
           /\ tally' = [tally EXCEPT !.troubles = @ + 1,
                                     !.final = @ \/ trouble \notin Passing]
  /\ UNCHANGED <<stage, fact, wrong, event, recorded>>

-------------------------------------------------------------------------------
(* Completion, failure, recovery *)

\* The handler's transaction: the acknowledgement and COMPLETED together, while the lease holds.
acknowledged(w) ==
  /\ runner[w].at = "answered" /\ runner[w].result = "ok" /\ Owner(w)
  /\ event' = [event EXCEPT !.status = "COMPLETED"]
  /\ transfer' = IF stage = "DOCUMENT" THEN "ACKNOWLEDGED" ELSE transfer
  /\ recorded' = runner[w].body
  /\ runner' = [runner EXCEPT ![w] = IdleRunner]
  /\ UNCHANGED <<stage, fact, wrong, holds, tally>>

\* An answer the adapter refuses, or one that comes after the lease was lost.
notAcknowledged(w) ==
  /\ runner[w].at = "answered" /\ ~(runner[w].result = "ok" /\ Owner(w))
  /\ failExchange(w, IF runner[w].result = "ok" THEN "TEMPORARY" ELSE runner[w].result)
  /\ UNCHANGED <<stage, fact, wrong, event, holds, recorded, tally>>

\* The worker's catch and markStageFailure(): another try only for a temporary failure, and
\* only while attempts are left; a worker that lost the lease writes nothing.
markStageFailure(w) ==
  /\ runner[w].at = "failing"
  /\ LET again == retryable(runner[w].result) /\ event.attempts < MaxTries
     IN  IF Owner(w)
         THEN /\ event' = [event EXCEPT !.status = IF again THEN "RETRY_PENDING" ELSE "FAILED"]
              /\ transfer' = IF stage = "DOCUMENT" THEN IF again THEN "PENDING" ELSE "FAILED"
                             ELSE transfer
         ELSE UNCHANGED <<event, transfer>>
  /\ runner' = [runner EXCEPT ![w] = IdleRunner]
  /\ UNCHANGED <<stage, fact, wrong, holds, recorded, tally>>

\* A worker process dies.
runnerDies(w) ==
  /\ runner[w] # IdleRunner /\ tally.deaths < MaxDeaths
  /\ runner' = [runner EXCEPT ![w] = IdleRunner]
  /\ tally' = [tally EXCEPT !.deaths = @ + 1]
  /\ UNCHANGED <<stage, fact, wrong, event, transfer, holds, recorded>>

\* recoverStaleEvents(): a lease past its time is taken back; of a worker still at work, only
\* when its request may outlast the lease (Overrun).
recoverLease ==
  /\ event.status = "PROCESSING"
  /\ (\E w \in Runners : runner[w] # IdleRunner /\ Owner(w)) => Overrun
  /\ event' = [event EXCEPT !.status = "RETRY_PENDING"]
  /\ UNCHANGED <<stage, fact, wrong, transfer, runner, holds, recorded, tally>>

\* An operator repairs a setting; the records behind the facts change while the event waits.
settingRepaired ==
  /\ \E setting \in wrong : wrong' = wrong \ {setting}
  /\ UNCHANGED <<stage, fact, event, transfer, runner, holds, recorded, tally>>

recordChanges ==
  /\ tally.edits < MaxEdits
  /\ \E f \in Carries[stage] : fact' = [fact EXCEPT ![f] = @ + 1]
  /\ tally' = [tally EXCEPT !.edits = @ + 1]
  /\ UNCHANGED <<stage, wrong, event, transfer, runner, holds, recorded>>

-------------------------------------------------------------------------------
ExInit ==
  /\ stage \in StagesSent
  /\ \E gap \in Gaps : fact = [f \in ExFacts |-> IF f \in gap THEN 0 ELSE 1]
  /\ wrong \in Setups
  /\ event = [status |-> "PENDING", attempts |-> 0, token |-> 0]
  /\ transfer = IF stage = "DOCUMENT" THEN "PENDING" ELSE "none"
  /\ runner = [w \in Runners |-> IdleRunner]
  /\ holds = <<>> /\ recorded = NoBody
  /\ tally = [troubles |-> 0, edits |-> 0, deaths |-> 0, final |-> FALSE]

exchangeStep(w) ==
  \/ claimEvent(w) \/ buildContext(w) \/ requestJson(w)
  \/ answerArrives(w) \/ acknowledged(w) \/ notAcknowledged(w) \/ markStageFailure(w)

ExNext ==
  \/ \E w \in Runners : exchangeStep(w) \/ requestFails(w) \/ runnerDies(w)
  \/ recoverLease \/ settingRepaired \/ recordChanges

\* Workers keep running, and the sweep comes back; failures, repairs and edits may not.
ExFairness == WF_exVars(recoverLease) /\ \A w \in Runners : WF_exVars(exchangeStep(w))
ExSpec == ExInit /\ [][ExNext]_exVars /\ ExFairness

-------------------------------------------------------------------------------
\* What the lender took up and what the platform recorded agree: one event makes the lender
\* accept at most one body, however often the request is tried, times out or is taken over, and
\* a completed event records the body the lender holds, its document transfer acknowledged.
AcceptedOnce ==
  /\ Len(holds) <= 1
  /\ event.status = "COMPLETED" =>
       /\ holds = <<recorded>>
       /\ stage = "DOCUMENT" => transfer = "ACKNOWLEDGED"

\* An event with nothing missing and nothing misconfigured is delivered, unless the lender
\* refuses it, its attempts run out or the records change under it: a temporary failure, a lost
\* answer or a lost worker only costs another try.
SoundAtStart == wrong = {} /\ \A f \in ExFacts : fact[f] # 0
SoundRequestCompletes ==
  SoundAtStart =>
    <>(\/ event.status = "COMPLETED" \/ tally.final \/ tally.edits > 0
       \/ tally.troubles + tally.deaths >= MaxTries)

===================================================================================
