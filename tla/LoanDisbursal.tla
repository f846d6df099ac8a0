----------------------------- MODULE LoanDisbursal -----------------------------
(***************************************************************************)
(* The disbursal of one approved loan.  The customer asks for it           *)
(* (LoanService.requestDisbursal), the outbox worker triggers the lender   *)
(* (LenderIntegrationService.processDisburse), and the lender reports the  *)
(* outcome by webhook, several times and in any order                      *)
(* (LoanService.processDisbursalWebhook).  The lender may reject the loan, *)
(* an operator may replay a failed trigger, a reset wipes the disbursal.   *)
(*                                                                         *)
(* Each handler reads first and writes later; the read is kept as a        *)
(* snapshot.  The webhook's transaction takes its snapshot BEFORE          *)
(* `SELECT ... FOR UPDATE` and never reads the row again (MySQL,           *)
(* REPEATABLE READ), so from the lock to the commit it is one step on a    *)
(* stale snapshot, and only the unique keys of the inbox and of the        *)
(* schedule can stop it.                                                   *)
(***************************************************************************)
EXTENDS Naturals

CONSTANTS
  Requests,     \* calls of requestDisbursal
  Deliveries,   \* webhook deliveries
  Content,      \* [Deliveries -> Contents]: what each delivery carries
  MaxAttempts,  \* retry policy of the outbox row
  Limits        \* how often the environment acts: crash, replay, reject, reset, lost

LoanStatus == {"ESIGN_COMPLETED", "READY_FOR_DISBURSAL", "DISBURSAL_PROCESSING", "DISBURSED",
               "FAILED", "CANCELLED"}
Outcomes == {"DISBURSED", "DISBURSAL_PENDING", "DISBURSAL_PROCESSING", "DISBURSAL_FAILED"}
DisbursalStatus == Outcomes \cup {"NOT_STARTED", "DISBURSAL_REQUESTED", "DISBURSAL_TRIGGER_FAILED"}
\* A payload: the normalised status and the event id its hash covers.  All payloads of a
\* run carry the same UTR and amount, the ones the lender booked.
Contents == [outcome : Outcomes, event : Nat]
LimitNames == {"crash", "replay", "reject", "reset", "lost"}

ASSUME AttemptsAssumption == MaxAttempts \in Nat \ {0}
ASSUME ContentAssumption == Content \in [Deliveries -> Contents]
ASSUME LimitsAssumption == Limits \in [LimitNames -> Nat]

VARIABLES
  loan,      \* PlLoan: status and disbursalStatus
  ready,     \* the seven post-approval steps are complete
  approved,  \* PlApplication.status is LENDER_APPROVED
  schedule,  \* PlRepaymentSchedule rows exist
  inbox,     \* payloads in DisbursalWebhookEvent
  letters,   \* welcome letters sent
  referral,  \* the referrer's benefit: mapping qualified, benefits created
  row,       \* the outbox row of LENDER_REQUEST_DISBURSAL:V1
  worker,    \* the worker's task on that row
  taken,     \* the lender took the trigger
  request, delivery,   \* the calls in flight, with what they read
  rejecting, \* a rejection webhook passed its check
  used,      \* how often the environment acted
  undone     \* a recorded disbursal was taken back

vars == <<loan, ready, approved, schedule, inbox, letters, referral, row, worker, taken,
          request, delivery, rejecting, used, undone>>

Loans == [status : LoanStatus, disbursal : DisbursalStatus]
NewLoan == [status |-> "ESIGN_COMPLETED", disbursal |-> "NOT_STARTED"]
\* `loan.disbursalStatus === 'DISBURSED' || loan.status === PlLoanStatus.DISBURSED`
Disbursed(l) == l.disbursal = "DISBURSED" \/ l.status = "DISBURSED"

NoTask == [pc |-> "idle", approved |-> FALSE, retrying |-> FALSE]
NoRead == [pc |-> "new", loan |-> NewLoan, ready |-> FALSE, seen |-> FALSE, schedule |-> FALSE]

Spend(what) == used[what] < Limits[what] /\ used' = [used EXCEPT ![what] = @ + 1]
\* Every step keeps the history of a disbursal taken back.
Recorded == undone' = (undone \/ (Disbursed(loan) /\ ~Disbursed(loan')))

Init ==
  /\ loan = NewLoan
  /\ ready = FALSE
  /\ approved = TRUE
  /\ schedule = FALSE
  /\ inbox = {}
  /\ letters = 0
  /\ referral = [qualified |-> FALSE, benefits |-> 0]
  /\ row = [status |-> "absent", attempts |-> 0]
  /\ worker = NoTask
  /\ taken = FALSE
  /\ request = [r \in Requests |-> NoRead]
  /\ delivery = [d \in Deliveries |-> NoRead]
  /\ rejecting = FALSE
  /\ used = [what \in LimitNames |-> 0]
  /\ undone = FALSE

\* The last of offer, KYC, address, bank, KFS, mandate and e-sign is written to the loan.
completeSteps ==
  /\ ~ready
  /\ ready' = TRUE
  /\ UNCHANGED <<loan, approved, schedule, inbox, letters, referral, row, worker, taken,
                 request, delivery, rejecting, used, undone>>

(***************************************************************************)
(* requestDisbursal(): read and check, write by id, enqueue without        *)
(* waiting for the answer.                                                 *)
(***************************************************************************)
InProgress(l) == \/ l.disbursal \in {"DISBURSAL_REQUESTED", "DISBURSAL_PROCESSING"}
                 \/ l.status = "DISBURSAL_PROCESSING"

readRequest(r) ==
  /\ request[r].pc = "new"
  /\ ~Disbursed(loan) /\ ~InProgress(loan) /\ ready
  /\ request' = [request EXCEPT ![r].pc = "checked"]
  /\ UNCHANGED <<loan, ready, approved, schedule, inbox, letters, referral, row, worker, taken,
                 delivery, rejecting, used, undone>>

writeRequest(r) ==
  /\ request[r].pc = "checked"
  /\ loan' = [status |-> "DISBURSAL_PROCESSING", disbursal |-> "DISBURSAL_REQUESTED"]
  /\ request' = [request EXCEPT ![r].pc = "written"]
  /\ Recorded
  /\ UNCHANGED <<ready, approved, schedule, inbox, letters, referral, row, worker, taken,
                 delivery, rejecting, used>>

\* upsert by idempotency key, `update: {}`: a row that exists is left as it is.
enqueueDisbursalWhenReady(r) ==
  /\ request[r].pc = "written"
  /\ row' = IF row.status = "absent" THEN [status |-> "PENDING", attempts |-> 0] ELSE row
  /\ request' = [request EXCEPT ![r].pc = "done"]
  /\ UNCHANGED <<loan, ready, approved, schedule, inbox, letters, referral, worker, taken,
                 delivery, rejecting, used, undone>>

\* The enqueue fails (its error is only logged) or the process dies before it.
enqueueLost(r) ==
  /\ request[r].pc = "written"
  /\ Spend("lost")
  /\ request' = [request EXCEPT ![r].pc = "done"]
  /\ UNCHANGED <<loan, ready, approved, schedule, inbox, letters, referral, row, worker, taken,
                 delivery, rejecting, undone>>

(***************************************************************************)
(* The worker on the DISBURSE row.  Leases and fencing are the subject of  *)
(* LenderOutbox; here one worker holds the row until it dies.              *)
(***************************************************************************)
claim ==
  /\ worker.pc = "idle"
  /\ row.status \in {"PENDING", "RETRY_PENDING"}
  /\ row' = [status |-> "PROCESSING", attempts |-> row.attempts + 1]
  /\ worker' = [NoTask EXCEPT !.pc = "loaded", !.approved = approved]
  /\ UNCHANGED <<loan, ready, approved, schedule, inbox, letters, referral, taken,
                 request, delivery, rejecting, used, undone>>

\* processDisburse() up to the call: refuse, return false, or go on.
processDisburse ==
  /\ worker.pc = "loaded"
  /\ CASE ~worker.approved -> worker' = [worker EXCEPT !.pc = "failed", !.retrying = FALSE]
       [] worker.approved /\ Disbursed(loan) -> worker' = [worker EXCEPT !.pc = "nothing"]
       [] OTHER -> worker' = [worker EXCEPT !.pc = "calling"]
  /\ UNCHANGED <<loan, ready, approved, schedule, inbox, letters, referral, row, taken,
                 request, delivery, rejecting, used, undone>>

\* processEvent() answered false: processClaimed completes the row.
closeRow ==
  /\ worker.pc = "nothing"
  /\ row' = [row EXCEPT !.status = "COMPLETED"]
  /\ worker' = NoTask
  /\ UNCHANGED <<loan, ready, approved, schedule, inbox, letters, referral, taken,
                 request, delivery, rejecting, used, undone>>

\* External: the lender takes the trigger or never sees it.
lenderTakes ==
  /\ worker.pc = "calling"
  /\ taken' = TRUE
  /\ worker' = [worker EXCEPT !.pc = "waiting"]
  /\ UNCHANGED <<loan, ready, approved, schedule, inbox, letters, referral, row,
                 request, delivery, rejecting, used, undone>>

lenderAcknowledges ==
  /\ worker.pc = "waiting"
  /\ worker' = [worker EXCEPT !.pc = "acked"]
  /\ UNCHANGED <<loan, ready, approved, schedule, inbox, letters, referral, row, taken,
                 request, delivery, rejecting, used, undone>>

\* The call fails before or after the lender took it; retrying is decided by the kind of
\* error and the attempts left.
callFails(retryable) ==
  /\ worker.pc \in {"calling", "waiting"}
  /\ worker' = [worker EXCEPT !.pc = "failed",
                              !.retrying = retryable /\ row.attempts < MaxAttempts]
  /\ UNCHANGED <<loan, ready, approved, schedule, inbox, letters, referral, row, taken,
                 request, delivery, rejecting, used, undone>>

\* updateMany({ disbursalStatus: { notIn: ['DISBURSED', 'DISBURSAL_FAILED'] } }) and the
\* completion of the row, in one transaction.
acknowledge ==
  /\ worker.pc = "acked"
  /\ loan' = IF loan.disbursal \in {"DISBURSED", "DISBURSAL_FAILED"}
             THEN loan ELSE [loan EXCEPT !.disbursal = "DISBURSAL_PROCESSING"]
  /\ row' = [row EXCEPT !.status = "COMPLETED"]
  /\ worker' = NoTask
  /\ Recorded
  /\ UNCHANGED <<ready, approved, schedule, inbox, letters, referral, taken,
                 request, delivery, rejecting, used>>

\* Mutant: a failed trigger is recorded nowhere but in its row.
markStageFailureSilent ==
  /\ worker.pc = "failed"
  /\ worker' = [worker EXCEPT !.pc = "marked"]
  /\ UNCHANGED <<loan, ready, approved, schedule, inbox, letters, referral, row, taken,
                 request, delivery, rejecting, used, undone>>

\* The DISBURSE branch: nothing while retries remain, else the column is overwritten.
markStageFailure ==
  /\ worker.pc = "failed"
  /\ loan' = IF worker.retrying THEN loan
             ELSE [loan EXCEPT !.disbursal = "DISBURSAL_TRIGGER_FAILED"]
  /\ worker' = [worker EXCEPT !.pc = "marked"]
  /\ Recorded
  /\ UNCHANGED <<ready, approved, schedule, inbox, letters, referral, row, taken,
                 request, delivery, rejecting, used>>

settleFailure ==
  /\ worker.pc = "marked"
  /\ row' = [row EXCEPT !.status = IF worker.retrying THEN "RETRY_PENDING" ELSE "FAILED"]
  /\ worker' = NoTask
  /\ UNCHANGED <<loan, ready, approved, schedule, inbox, letters, referral, taken,
                 request, delivery, rejecting, used, undone>>

workerDies ==
  /\ worker.pc # "idle"
  /\ Spend("crash")
  /\ worker' = NoTask
  /\ UNCHANGED <<loan, ready, approved, schedule, inbox, letters, referral, row, taken,
                 request, delivery, rejecting, undone>>

\* recoverStaleEvents(): the lease of a dead worker runs out.
sweep ==
  /\ worker.pc = "idle" /\ row.status = "PROCESSING"
  /\ row' = [row EXCEPT !.status = "RETRY_PENDING"]
  /\ UNCHANGED <<loan, ready, approved, schedule, inbox, letters, referral, worker, taken,
                 request, delivery, rejecting, used, undone>>

\* The operator replays the trigger (in one step: LenderReplay has the race of its check): the row starts over and so does the loan's column,
\* whatever the loan became meanwhile.
replayFailedEvent ==
  /\ row.status \in {"FAILED", "RETRY_PENDING"}
  /\ Spend("replay")
  /\ row' = [status |-> "PENDING", attempts |-> 0]
  /\ loan' = [loan EXCEPT !.disbursal = "DISBURSAL_REQUESTED"]
  /\ Recorded
  /\ UNCHANGED <<ready, approved, schedule, inbox, letters, referral, worker, taken,
                 request, delivery, rejecting>>

(***************************************************************************)
(* processDisbursalWebhook().                                              *)
(***************************************************************************)
\* The transaction's snapshot: the inbox record, the loan and, later read from the same
\* snapshot, the number of schedule rows.
readDelivery(d) ==
  /\ taken /\ delivery[d].pc = "new"
  /\ delivery' = [delivery EXCEPT ![d] = [pc |-> "read", loan |-> loan, ready |-> ready,
                                          seen |-> Content[d] \in inbox, schedule |-> schedule]]
  /\ UNCHANGED <<loan, ready, approved, schedule, inbox, letters, referral, row, worker, taken,
                 request, rejecting, used, undone>>

\* An idempotent duplicate, or post-approval requirements that are not met.
Refused(s) == Disbursed(s.loan) \/ ~s.ready
\* Mutant: the schedule rows are counted under the lock, so their key never collides.
KeyViolationCurrentCount(s, p) == s.seen # (p \in inbox)

\* The writes the database itself rejects: a second inbox record, the update of one that
\* is gone, or a second set of schedule rows.
KeyViolation(s, p) ==
  \/ s.seen # (p \in inbox)
  \/ p.outcome = "DISBURSED" /\ ~s.schedule /\ schedule

refuseDelivery(d) ==
  /\ delivery[d].pc = "read"
  /\ Refused(delivery[d]) \/ KeyViolation(delivery[d], Content[d])
  /\ delivery' = [delivery EXCEPT ![d] = [NoRead EXCEPT !.pc = "done"]]
  /\ UNCHANGED <<loan, ready, approved, schedule, inbox, letters, referral, row, worker, taken,
                 request, rejecting, used, undone>>

\* Mutant: the mapping is marked qualified only after the benefit exists.
onLoanDisbursedBenefitFirst ==
  IF referral.qualified THEN {referral}
  ELSE {[qualified |-> TRUE, benefits |-> referral.benefits + 1],
        [qualified |-> FALSE, benefits |-> referral.benefits + 1], referral}

\* ReferralService.onLoanDisbursed(), on a connection of its own: the mapping is qualified,
\* then the benefit created; it may stop before, between or after the two.
onLoanDisbursed ==
  IF referral.qualified THEN {referral}
  ELSE {[qualified |-> TRUE, benefits |-> referral.benefits + 1],
        [qualified |-> TRUE, benefits |-> referral.benefits], referral}

\* Mutant: the schedule is generated on the way out of DISBURSAL_PROCESSING.
scheduleFromProcessing(s, p) ==
  schedule \/ (p.outcome = "DISBURSED" /\ s.loan.disbursal = "DISBURSAL_PROCESSING")

\* existingRpsCount === 0: the rows are created, unless the snapshot already has them.
generateSchedule(s, p) == schedule \/ (p.outcome = "DISBURSED" /\ ~s.schedule)

\* Lock, checks on the snapshot, writes, commit; then the welcome letter.
commitDelivery(d) ==
  LET s == delivery[d]
      p == Content[d]
      success == p.outcome = "DISBURSED"
  IN /\ s.pc = "read"
     /\ ~Refused(s) /\ ~KeyViolation(s, p)
     /\ inbox' = inbox \cup {p}
     /\ loan' = [status |-> IF success THEN "DISBURSED" ELSE "FAILED", disbursal |-> p.outcome]
     /\ schedule' = generateSchedule(s, p)
     /\ referral' \in IF success THEN onLoanDisbursed ELSE {referral}
     /\ letters' = IF success THEN letters + 1 ELSE letters
     /\ delivery' = [delivery EXCEPT ![d] = [NoRead EXCEPT !.pc = "done"]]
     /\ Recorded
     /\ UNCHANGED <<ready, approved, row, worker, taken, request, rejecting, used>>

\* The transaction dies before its commit (time-out, crash) and the lender delivers again;
\* what onLoanDisbursed wrote outside of it stays.
abortDelivery(d) ==
  /\ delivery[d].pc = "read"
  /\ Spend("crash")
  /\ referral' \in IF Content[d].outcome = "DISBURSED" /\ ~Refused(delivery[d])
                      /\ ~KeyViolation(delivery[d], Content[d])
                   THEN onLoanDisbursed ELSE {referral}
  /\ delivery' = [delivery EXCEPT ![d] = NoRead]
  /\ UNCHANGED <<loan, ready, approved, schedule, inbox, letters, row, worker, taken,
                 request, rejecting, undone>>

(***************************************************************************)
(* The other writers of the loan.                                          *)
(***************************************************************************)
\* The loan half of the rejection webhook; LenderPipeline has the application's.  The
\* transaction reads, finds the loan not rejected yet, and writes.
readRejection ==
  /\ ~rejecting
  /\ approved /\ loan.status \notin {"CANCELLED", "FAILED"}
  /\ Spend("reject")
  /\ rejecting' = TRUE
  /\ UNCHANGED <<loan, ready, approved, schedule, inbox, letters, referral, row, worker, taken,
                 request, delivery, undone>>

processLenderRejectionWebhook ==
  /\ rejecting
  /\ loan' = [loan EXCEPT !.status = "CANCELLED"]
  /\ approved' = FALSE
  /\ rejecting' = FALSE
  /\ Recorded
  /\ UNCHANGED <<ready, schedule, inbox, letters, referral, row, worker, taken,
                 request, delivery, used>>

resetLoanRpsAndDisbursal ==
  /\ Spend("reset")
  /\ loan' = [status |-> "READY_FOR_DISBURSAL", disbursal |-> "NOT_STARTED"]
  /\ schedule' = FALSE
  /\ inbox' = {}
  /\ Recorded
  /\ UNCHANGED <<ready, approved, letters, referral, row, worker, taken, request, delivery, rejecting>>

WorkerStep == \/ claim \/ processDisburse \/ closeRow \/ lenderTakes \/ lenderAcknowledges
              \/ \E retryable \in BOOLEAN : callFails(retryable)
              \/ acknowledge \/ markStageFailure \/ settleFailure
RequestStep(r) == readRequest(r) \/ writeRequest(r) \/ enqueueDisbursalWhenReady(r)
                  \/ enqueueLost(r)
DeliveryStep(d) == readDelivery(d) \/ refuseDelivery(d) \/ commitDelivery(d) \/ abortDelivery(d)

Next ==
  \/ completeSteps
  \/ \E r \in Requests : RequestStep(r)
  \/ WorkerStep
  \/ workerDies
  \/ sweep
  \/ replayFailedEvent
  \/ \E d \in Deliveries : DeliveryStep(d)
  \/ readRejection
  \/ processLenderRejectionWebhook
  \/ resetLoanRpsAndDisbursal

Spec == Init /\ [][Next]_vars

\* The worker's loop, its HTTP timeout and the lease sweep always go on, and a call of
\* requestDisbursal that wrote the loan goes on to its enqueue.
FairSpec == /\ Spec
            /\ WF_vars(WorkerStep) /\ WF_vars(sweep)
            /\ \A r \in Requests : WF_vars(enqueueDisbursalWhenReady(r))

(***************************************************************************)
(* Properties.                                                             *)
(***************************************************************************)
Snapshots == [pc : {"new", "checked", "written", "read", "done"}, loan : Loans,
              ready : BOOLEAN, seen : BOOLEAN, schedule : BOOLEAN]

\* Every variable keeps its shape; the attempts of the trigger stay below the policy's
\* maximum plus one per recovered lease.
TypeOK ==
  /\ loan \in Loans
  /\ ready \in BOOLEAN /\ approved \in BOOLEAN /\ schedule \in BOOLEAN /\ taken \in BOOLEAN
  /\ undone \in BOOLEAN /\ rejecting \in BOOLEAN
  /\ inbox \subseteq Contents
  /\ letters \in Nat
  /\ referral \in [qualified : BOOLEAN, benefits : Nat]
  /\ row.status \in {"absent", "PENDING", "PROCESSING", "RETRY_PENDING", "COMPLETED", "FAILED"}
  /\ row.attempts \in 0..(MaxAttempts + Limits["crash"])
  /\ worker \in [pc : {"idle", "loaded", "nothing", "calling", "waiting", "acked", "failed",
                       "marked"}, approved : BOOLEAN, retrying : BOOLEAN]
  /\ request \in [Requests -> Snapshots]
  /\ delivery \in [Deliveries -> Snapshots]
  /\ used \in [LimitNames -> Nat]

\* As long as no recorded disbursal was taken back, the customer gets one welcome letter:
\* concurrent deliveries that look different are stopped by the schedule's unique key, not
\* by the row lock (processDisbursalWebhook).
WelcomeOnce == ~undone => letters <= 1

\* As long as no recorded disbursal was taken back, a disbursed loan has its repayment
\* schedule, also when the webhook overtakes the acknowledgement of the trigger.
ScheduleBacksDisbursal == ~undone /\ Disbursed(loan) => schedule

\* The referrer is rewarded at most once, however often a delivery dies between the
\* writes of onLoanDisbursed and its own commit.
BenefitOnce == referral.benefits <= 1

\* The request for a loan that was not paid out yet ends: the lender is triggered or the
\* trigger is given up (markStageFailure), it is not "processing" forever.  Two things end
\* that promise: an enqueue that was lost after the loan was marked requested, and an
\* operator's reset, which takes the loan back while the row stays closed.
RequestAnswered ==
  (loan.disbursal = "DISBURSAL_REQUESTED" /\ ~schedule)
    ~> \/ loan.disbursal # "DISBURSAL_REQUESTED"
       \/ schedule
       \/ used["lost"] > 0 \/ used["reset"] > 0

\* The row lock is meant "to prevent concurrent webhook replays racing on the
\* already-disbursed check": a recorded disbursal stays recorded.
DisbursedStays == ~undone

\* The worker only advances disbursalStatus "if the async webhook hasn't already resolved
\* it": none of its steps replaces DISBURSED.
WebhookOutcomeKept ==
  [][worker' # worker /\ loan.disbursal = "DISBURSED" => loan'.disbursal = "DISBURSED"]_vars
================================================================================
