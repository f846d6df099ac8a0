------------------------------- MODULE PartnerApi -------------------------------
(***************************************************************************)
(* Applications that a partner platform drives over the partner API: the   *)
(* HMAC guard, the idempotency interceptor, PartnerApplicationService and  *)
(* the webhook outbox with its worker.  A request reads the application    *)
(* and writes it by id in a later transaction; the idempotency record is   *)
(* stored after the handler returned.  resolvePreApproval() and            *)
(* resolveFinalApproval() are called by a decision processor that is not   *)
(* part of the repository.                                                 *)
(***************************************************************************)
EXTENDS Naturals, Sequences, FiniteSets, SequencesExt

CONSTANTS
  Calls,          \* requests that may be in flight at once
  Keys,           \* idempotency keys the partner may use for one operation
  Concurrent,     \* the partner sends a request while another one is out
  MaxDeliveries,  \* PARTNER_WEBHOOK_MAX_ATTEMPTS
  MaxCrashes,     \* bound: process crashes
  MaxBacklog      \* bound: webhook events not yet settled

ASSUME PartnerAssumption == Concurrent \in BOOLEAN /\ MaxDeliveries \in Nat \ {0}

VARIABLES
  active,         \* the partner's client row is ACTIVE
  application,    \* the partner application with its snapshots
  call,           \* per request: operation, key and progress
  apiKnown,       \* keys with a stored answer, with their operation
  events,         \* partner_webhook_outbox without the settled rows, in the order of creation
  told,           \* the status of the newest event
  crashes

apiVars == <<active, application, call, apiKnown, events, told, crashes>>

Operations == {"create", "consents", "profile", "preApproval", "onboard", "onboarded", "finalApproval",
               "mandate", "disburse"}

\* PARTNER_ALLOWED_TRANSITIONS
Allowed(status) ==
  CASE status = "CREATED" -> {"CONSENT_RECORDED"}
    [] status = "CONSENT_RECORDED" -> {"PROFILE_COMPLETE"}
    [] status = "PROFILE_COMPLETE" -> {"PRE_APPROVAL_PENDING"}
    [] status = "PRE_APPROVAL_PENDING" -> {"PRE_APPROVED", "REJECTED"}
    [] status = "PRE_APPROVED" -> {"ONBOARDING_IN_PROGRESS", "ONBOARDING_COMPLETE"}
    [] status = "ONBOARDING_IN_PROGRESS" -> {"ONBOARDING_COMPLETE"}
    [] status = "ONBOARDING_COMPLETE" -> {"FINAL_APPROVAL_PENDING"}
    [] status = "FINAL_APPROVAL_PENDING" -> {"FINAL_APPROVED", "REJECTED"}
    [] status = "FINAL_APPROVED" -> {"MANDATE_AUTHORIZED"}
    [] status = "MANDATE_AUTHORIZED" -> {"DISBURSEMENT_PENDING"}
    [] OTHER -> {}

Target ==
  [create |-> "CREATED", consents |-> "CONSENT_RECORDED", profile |-> "PROFILE_COMPLETE",
   preApproval |-> "PRE_APPROVAL_PENDING", onboard |-> "ONBOARDING_IN_PROGRESS",
   onboarded |-> "ONBOARDING_COMPLETE", finalApproval |-> "FINAL_APPROVAL_PENDING",
   mandate |-> "MANDATE_AUTHORIZED", disburse |-> "DISBURSEMENT_PENDING"]

NoApplication ==
  [status |-> "none", consents |-> FALSE, profile |-> FALSE, onboarding |-> "none",
   mandate |-> FALSE, disbursements |-> 0, plApplications |-> 0]
NoApiCall == [op |-> "none", key |-> "none", pc |-> "idle"]

ApiInit ==
  /\ active = TRUE
  /\ application = NoApplication
  /\ call = [c \in Calls |-> NoApiCall]
  /\ apiKnown = {}
  /\ events = <<>> /\ told = "none"
  /\ crashes = 0

Exists == application.status # "none"
\* An event in the transaction that changes the status.
enqueueEvent(status) ==
  /\ events' = Append(events, [state |-> "PENDING", due |-> TRUE, attempts |-> 0])
  /\ told' = status

\* requestFinalApproval(): the snapshot exists and was marked complete.
onboardingComplete == application.onboarding = "complete"

\* Mutant: only a terminal application is refused.
assertNotTerminal(target) == application.status # "REJECTED"

\* assertValidTransition()
assertValidTransition(target) == target \in Allowed(application.status)

\* What each handler asks of the application it read.
updateOnboarding == application.status \in {"PRE_APPROVED", "ONBOARDING_IN_PROGRESS", "ONBOARDING_COMPLETE"}
requestFinalApproval == assertValidTransition("FINAL_APPROVAL_PENDING") /\ onboardingComplete
authorizeMandate == assertValidTransition("MANDATE_AUTHORIZED") /\ ~application.mandate
requestDisbursement == assertValidTransition("DISBURSEMENT_PENDING") /\ application.mandate

accepts(op) ==
  CASE op \in {"onboard", "onboarded"} -> updateOnboarding
    [] op = "finalApproval" -> requestFinalApproval
    [] op = "mandate" -> authorizeMandate
    [] op = "disburse" -> requestDisbursement
    [] OTHER -> assertValidTransition(Target[op])

\* PartnerAuthGuard.canActivate(): a signed call of an active partner.
canActivate == active

\* PartnerAuthGuard and IdempotencyInterceptor let the call through.  A known key is answered
\* from its record; a refused transition is answered with an error, which is not recorded.
sendCall(c, op, k) ==
  /\ call[c].pc = "idle" /\ canActivate
  /\ Concurrent \/ \A d \in Calls : call[d].pc = "idle"
  /\ <<op, k>> \notin apiKnown
  /\ IF op = "create" THEN TRUE ELSE Exists /\ accepts(op)
  /\ call' = [call EXCEPT ![c] =
       [op |-> op, key |-> k, pc |-> IF op = "create" /\ Exists THEN "store" ELSE "commit"]]
  /\ UNCHANGED <<active, application, apiKnown, events, told, crashes>>

\* createApplication(): customer, application, partner application and event in one
\* transaction, which the unique reference rolls back when another call was faster.
createPartnerApplication(c) ==
  IF Exists
  THEN /\ call' = [call EXCEPT ![c] = NoApiCall]
       /\ UNCHANGED <<application, events, told>>
  ELSE /\ application' = [NoApplication EXCEPT !.status = "CREATED", !.plApplications = 1]
       /\ enqueueEvent("CREATED")
       /\ call' = [call EXCEPT ![c].pc = "store"]

recordConsents(a) == [a EXCEPT !.consents = TRUE]
updateProfile(a) == [a EXCEPT !.profile = TRUE]
onboardingWritten(a, complete) == [a EXCEPT !.onboarding = IF complete THEN "complete" ELSE "open"]
mandateWritten(a) == [a EXCEPT !.mandate = TRUE]
disbursementWritten(a) == [a EXCEPT !.disbursements = @ + 1]

writtenBy(op, a) ==
  CASE op = "consents" -> recordConsents(a)
    [] op = "profile" -> updateProfile(a)
    [] op \in {"onboard", "onboarded"} -> onboardingWritten(a, op = "onboarded")
    [] op = "mandate" -> mandateWritten(a)
    [] op = "disburse" -> disbursementWritten(a)
    [] OTHER -> a

\* The transaction of a handler: snapshot, status by id, webhook event.
commitCall(c) ==
  /\ call[c].pc = "commit" /\ Len(events) < MaxBacklog
  /\ IF call[c].op = "create" THEN createPartnerApplication(c)
     ELSE /\ application' = [writtenBy(call[c].op, application) EXCEPT !.status = Target[call[c].op]]
          /\ enqueueEvent(Target[call[c].op])
          /\ call' = [call EXCEPT ![c].pc = "store"]
  /\ UNCHANGED <<active, apiKnown, crashes>>

\* The interceptor stores the answer under the key.
storeAnswer(c) ==
  /\ call[c].pc = "store"
  /\ apiKnown' = apiKnown \cup {<<call[c].op, call[c].key>>}
  /\ call' = [call EXCEPT ![c] = NoApiCall]
  /\ UNCHANGED <<active, application, events, told, crashes>>

\* The decision processor answers a pending approval.
resolvePreApproval(outcome) ==
  /\ application.status = "PRE_APPROVAL_PENDING" /\ Len(events) < MaxBacklog
  /\ application' = [application EXCEPT !.status = outcome]
  /\ outcome \in {"PRE_APPROVED", "REJECTED"}
  /\ enqueueEvent(outcome)
  /\ UNCHANGED <<active, call, apiKnown, crashes>>

resolveFinalApproval(outcome) ==
  /\ application.status = "FINAL_APPROVAL_PENDING" /\ Len(events) < MaxBacklog
  /\ outcome \in {"FINAL_APPROVED", "REJECTED"}
  /\ application' = [application EXCEPT !.status = outcome]
  /\ enqueueEvent(outcome)
  /\ UNCHANGED <<active, call, apiKnown, crashes>>

\* An administrator switches the partner off or on again.
toggleStatus ==
  /\ active' = ~active
  /\ UNCHANGED <<application, call, apiKnown, events, told, crashes>>

\* claimNextEvent(): due, and pending or failed; drainOnce() handles one at a time.
claimable(e) == events[e].state \in {"PENDING", "FAILED"} /\ events[e].due

claimNextEvent(e) ==
  /\ claimable(e) /\ \A f \in DOMAIN events : events[f].state # "PROCESSING"
  /\ events' = [events EXCEPT ![e].state = "PROCESSING"]
  /\ UNCHANGED <<active, application, call, apiKnown, told, crashes>>

\* The webhook is delivered, or the partner has none: SUCCESS, and the row is settled.
delivered(e) ==
  /\ events[e].state = "PROCESSING"
  /\ events' = RemoveAt(events, e)
  /\ UNCHANGED <<active, application, call, apiKnown, told, crashes>>

\* The delivery fails: FAILED and due later, or DEAD_LETTER, which settles the row.
deliveryFailed(e) ==
  LET attempts == events[e].attempts + 1
  IN /\ events[e].state = "PROCESSING"
     /\ events' = IF attempts >= MaxDeliveries THEN RemoveAt(events, e)
                  ELSE [events EXCEPT ![e] = [state |-> "FAILED", due |-> FALSE, attempts |-> attempts]]
     /\ UNCHANGED <<active, application, call, apiKnown, told, crashes>>

retryDue(e) ==
  /\ events[e].state = "FAILED" /\ ~events[e].due
  /\ events' = [events EXCEPT ![e].due = TRUE]
  /\ UNCHANGED <<active, application, call, apiKnown, told, crashes>>

\* The API process dies: the calls it was serving get no answer.  The partner sends such a
\* call again under its key.
apiCrash ==
  /\ crashes < MaxCrashes
  /\ crashes' = crashes + 1
  /\ call' = [c \in Calls |-> NoApiCall]
  /\ UNCHANGED <<active, application, apiKnown, events, told>>

ApiNext ==
  \/ \E c \in Calls, op \in Operations, k \in Keys : sendCall(c, op, k)
  \/ \E c \in Calls : commitCall(c) \/ storeAnswer(c)
  \/ \E o \in {"PRE_APPROVED", "REJECTED"} : resolvePreApproval(o)
  \/ \E o \in {"FINAL_APPROVED", "REJECTED"} : resolveFinalApproval(o)
  \/ toggleStatus
  \/ \E e \in DOMAIN events : claimNextEvent(e) \/ delivered(e) \/ deliveryFailed(e) \/ retryDue(e)
  \/ apiCrash

\* The worker polls, the HTTP call answers or times out, back-offs elapse.
WebhookFairness ==
  /\ WF_apiVars(\E e \in DOMAIN events : delivered(e) \/ deliveryFailed(e))
  /\ WF_apiVars(\E e \in DOMAIN events : claimNextEvent(e))
  /\ WF_apiVars(\E e \in DOMAIN events : retryDue(e))

ApiSpec == ApiInit /\ [][ApiNext]_apiVars /\ WebhookFairness

ApiTypeOK ==
  /\ active \in BOOLEAN /\ apiKnown \subseteq Operations \X Keys
  /\ Len(events) <= MaxBacklog
  /\ application.onboarding \in {"none", "open", "complete"}

Late == {"FINAL_APPROVAL_PENDING", "FINAL_APPROVED", "MANDATE_AUTHORIZED", "DISBURSEMENT_PENDING"}

\* Whatever was retried, repeated or interrupted by a crash: an application before the final
\* decision or later has its consents, its profile and a completed onboarding, money is asked
\* for once and under a mandate, one application was created, and the partner's last event
\* says what the application is.
EvidenceFirst ==
  /\ application.status \in Late =>
       application.consents /\ application.profile /\ application.onboarding = "complete"
  /\ application.disbursements = IF application.status = "DISBURSEMENT_PENDING" THEN 1 ELSE 0
  /\ application.disbursements > 0 => application.mandate
  /\ application.plApplications <= 1
  /\ told = application.status

\* Every event is delivered or given up after its attempts.
PartnerTold == (events # <<>>) ~> (events = <<>>)

\* partner-api.constants.ts, "Allowed state transitions in the partner application state
\* machine.": an application only moves along them.
TransitionsAllowed ==
  [][application.status \in {application'.status, "none"}
       \/ application'.status \in Allowed(application.status)]_apiVars
==============================================================================
