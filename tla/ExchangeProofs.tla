---------------------------- MODULE ExchangeProofs ----------------------------
(***************************************************************************)
(* What is exchanged with other platforms: one outbox event on its way to  *)
(* the lender (LenderExchange), and the application a partner drives over  *)
(* the partner API (PartnerApi).                                           *)
(***************************************************************************)
EXTENDS LenderExchange, PartnerApi, SequenceTheorems, TLAPS

-------------------------------------------------------------------------------
(* One event, one body.                                                     *)

RunnersShaped ==
  /\ DOMAIN runner = Runners
  /\ \A w \in Runners : DOMAIN runner[w] = {"at", "token", "body", "result"}
EventShaped ==
  event \in [status : {"PENDING", "PROCESSING", "RETRY_PENDING", "COMPLETED", "FAILED"},
             attempts : Nat, token : Nat]

\* The lender holds one body at most, and a worker with a good answer sent that one.
HeldOnce == holds = <<>> \/ holds = <<holds[1]>>
AnswersHeld ==
  \A w \in Runners : runner[w].at = "answered" /\ runner[w].result = "ok" => holds = <<runner[w].body>>

\* What is recorded is what the lender holds; a transfer is acknowledged only together with
\* the event.
RecordedHeld ==
  /\ event.status = "COMPLETED" => holds = <<recorded>>
  /\ transfer = "ACKNOWLEDGED" => event.status = "COMPLETED"

\* As long as no lease ends under a running worker, the worker at work owns the event, and it
\* is the only one; nobody is left to mark the transfer of a completed event.
Alone ==
  /\ \A w \in Runners : runner[w] # IdleRunner => Owner(w)
  /\ \A w, v \in Runners : runner[w] # IdleRunner /\ runner[v] # IdleRunner => w = v
  /\ event.status = "COMPLETED" /\ stage = "DOCUMENT" => transfer = "ACKNOWLEDGED"

ExInv ==
  /\ RunnersShaped /\ EventShaped
  /\ HeldOnce /\ AnswersHeld /\ RecordedHeld
  /\ Overrun \/ Alone

\* Only an answer to the body the lender holds, or holds from now on, is good: under the
\* event's key another body gets a conflict, which no method of the adapter accepts.
LEMMA GoodAnswerIsHeld ==
  ASSUME NEW body, answerVerdict(body, lenderAnswer(body)) = "ok"
  PROVE  holds = <<>> \/ holds[1] = body
<1> SUFFICES ASSUME ~(holds = <<>> \/ holds[1] = body)
             PROVE  FALSE
  OBVIOUS
<1> DEFINE answer == Answer("error", NoBody, "IDEMPOTENCY_CONFLICT")
<1>1. lenderAnswer(body) = answer
  BY DEF lenderAnswer
<1>2. fintreeAnswer(answer) = "PERMANENT_VALIDATION"
  BY DEF fintreeAnswer, Answer, partnerError
<1> HIDE DEF answer
<1>3. answerVerdict(body, answer) = "PERMANENT_VALIDATION"
  BY <1>2 DEF answerVerdict, createApplication, submitConsent, updateApplication, uploadDocument,
              requestDecision, requestDisbursal, recordRepayment, addServicingCharge, waiveCharge,
              matching
<1>4. QED
  BY <1>1, <1>3

LEMMA HeldAtMostOne ==
  ASSUME HeldOnce
  PROVE  Len(holds) <= 1
<1>1. CASE holds = <<>>
  BY <1>1
<1>2. ASSUME NEW b, holds = <<b>>
      PROVE  Len(holds) <= 1
  <2>1. Len(<<b>>) = 1
    OBVIOUS
  <2>2. QED
    BY <1>2, <2>1
<1>3. QED
  BY <1>1, <1>2 DEF HeldOnce

\* callFintree() leaves what the lender holds alone once it holds something.
LEMMA HeldStays ==
  ASSUME HeldOnce, NEW body, callFintree(body)
  PROVE  /\ HeldOnce'
         /\ \A b : holds = <<b>> => holds' = <<b>>
         /\ holds = <<>> \/ holds[1] = body => holds' = <<body>>
  BY DEF HeldOnce, callFintree

\* An idle worker is no worker at work.
LEMMA IdleIsIdle ==
  /\ IdleRunner.at = "idle" /\ DOMAIN IdleRunner = {"at", "token", "body", "result"}
  BY DEF IdleRunner

LEMMA ExchangeStarts == ExInit => ExInv
  BY IdleIsIdle DEF ExInit, ExInv, RunnersShaped, EventShaped, HeldOnce, AnswersHeld, RecordedHeld, Alone,
                    NoBody

\* A step of one worker that leaves the event as it is, and the transfer of no completed
\* event: the worker stays at work or becomes idle.
LEMMA WorkerMoves ==
  ASSUME ExInv, NEW w \in Runners, runner[w] # IdleRunner,
         NEW r, DOMAIN r = {"at", "token", "body", "result"}, runner' = [runner EXCEPT ![w] = r],
         r # IdleRunner => r.token = runner[w].token,
         UNCHANGED <<stage, event, recorded>>,
         HeldOnce', \A b : holds = <<b>> => holds' = <<b>>,
         r.at = "answered" /\ r.result = "ok" => holds' = <<r.body>>,
         transfer' = transfer \/ transfer' # "ACKNOWLEDGED"
  PROVE  ExInv'
<1>1. RunnersShaped' /\ EventShaped'
  BY DEF ExInv, RunnersShaped, EventShaped
<1>2. AnswersHeld'
  <2> SUFFICES ASSUME NEW v \in Runners, runner'[v].at = "answered", runner'[v].result = "ok"
               PROVE  holds' = <<runner'[v].body>>
    BY DEF AnswersHeld
  <2>1. CASE v = w
    BY <2>1 DEF ExInv, RunnersShaped
  <2>2. CASE v # w
    BY <2>2 DEF ExInv, RunnersShaped, AnswersHeld
  <2>3. QED
    BY <2>1, <2>2
<1>3. RecordedHeld'
  BY DEF ExInv, RecordedHeld
<1>4. ASSUME Alone PROVE Alone'
  <2>1. Owner(w) /\ event.status # "COMPLETED"
    BY <1>4 DEF Alone, Owner
  <2>2. QED
    BY <1>4, <2>1 DEF ExInv, RunnersShaped, Alone, Owner
<1>5. QED
  BY <1>1, <1>2, <1>3, <1>4 DEF ExInv

\* The transfer is marked failed, whoever owns the event.
LEMMA FailureMoves ==
  ASSUME ExInv, NEW w \in Runners, runner[w] # IdleRunner, NEW verdict, failExchange(w, verdict),
         UNCHANGED <<stage, event, recorded>>,
         HeldOnce', \A b : holds = <<b>> => holds' = <<b>>
  PROVE  ExInv'
<1> DEFINE r == [runner[w] EXCEPT !.at = "failing", !.result = verdict]
<1>1. /\ DOMAIN r = {"at", "token", "body", "result"} /\ r.token = runner[w].token
      /\ r.at = "failing"
  BY DEF ExInv, RunnersShaped
<1>2. runner' = [runner EXCEPT ![w] = r] /\ (transfer' = transfer \/ transfer' # "ACKNOWLEDGED")
  BY DEF failExchange, ExInv, RunnersShaped
<1> HIDE DEF r
<1>3. QED
  BY <1>1, <1>2, WorkerMoves

LEMMA ClaimKeeps ==
  ASSUME ExInv, NEW w \in Runners, claimEvent(w)
  PROVE  ExInv'
<1> DEFINE r == [IdleRunner EXCEPT !.at = "claimed", !.token = event.attempts + 1]
           e == [status |-> "PROCESSING", attempts |-> event.attempts + 1,
                 token |-> event.attempts + 1]
<1>1. /\ DOMAIN r = {"at", "token", "body", "result"} /\ r.token = event.attempts + 1
      /\ r.at = "claimed"
  BY IdleIsIdle
<1>2. /\ e \in [status : {"PENDING", "PROCESSING", "RETRY_PENDING", "COMPLETED", "FAILED"},
                attempts : Nat, token : Nat]
      /\ e.status = "PROCESSING" /\ e.token = event.attempts + 1
  BY DEF ExInv, EventShaped
<1>3. /\ event' = e /\ runner' = [runner EXCEPT ![w] = r] /\ event.status \in {"PENDING", "RETRY_PENDING"}
      /\ UNCHANGED <<stage, transfer, holds, recorded>>
  BY DEF claimEvent
<1> HIDE DEF r, e
<1>4. RunnersShaped' /\ EventShaped' /\ HeldOnce' /\ AnswersHeld' /\ RecordedHeld'
  BY <1>1, <1>2, <1>3 DEF ExInv, RunnersShaped, EventShaped, HeldOnce, AnswersHeld, RecordedHeld
<1>5. ASSUME Alone PROVE Alone'
  <2>1. \A v \in Runners : runner[v] = IdleRunner
    BY <1>3, <1>5 DEF Alone, Owner
  <2>2. QED
    BY <1>1, <1>2, <1>3, <2>1 DEF ExInv, RunnersShaped, Alone, Owner
<1>6. QED
  BY <1>4, <1>5 DEF ExInv

LEMMA BuildKeeps ==
  ASSUME ExInv, NEW w \in Runners, buildContext(w)
  PROVE  ExInv'
<1> DEFINE verdict == IF ~Owner(w) THEN "TEMPORARY"
                      ELSE IF admitted # "ok" THEN admitted
                      ELSE IF stage = "DOCUMENT" /\ transfer = "ACKNOWLEDGED" THEN "done"
                      ELSE IF lacking(stage) # {} THEN "PERMANENT_VALIDATION" ELSE "ok"
<1>1. runner[w].at = "claimed" /\ runner[w] # IdleRunner
  BY IdleIsIdle DEF buildContext
<1>2. verdict # "done"
  BY DEF Owner, ExInv, RecordedHeld, admitted
<1> DEFINE r == IF verdict = "ok" THEN [runner[w] EXCEPT !.at = "built"]
                ELSE [runner[w] EXCEPT !.at = "failing", !.result = verdict]
<1>3. /\ runner' = [runner EXCEPT ![w] = r] /\ transfer' \in {transfer, "PROCESSING"}
      /\ UNCHANGED <<stage, event, recorded, holds>>
  <2> HIDE DEF verdict
  <2>1. /\ event' = IF verdict = "done" THEN [event EXCEPT !.status = "COMPLETED"] ELSE event
        /\ runner' = [runner EXCEPT ![w] =
              CASE verdict = "done" -> IdleRunner
                [] verdict = "ok" -> [@ EXCEPT !.at = "built"]
                [] OTHER -> [@ EXCEPT !.at = "failing", !.result = verdict]]
        /\ transfer' = IF verdict = "ok" /\ stage = "DOCUMENT" THEN "PROCESSING" ELSE transfer
        /\ UNCHANGED <<stage, recorded, holds>>
    BY DEF buildContext, verdict
  <2>2. QED
    BY <1>2, <2>1 DEF ExInv, RunnersShaped
<1>4. /\ DOMAIN r = {"at", "token", "body", "result"} /\ r.token = runner[w].token
      /\ r.at # "answered"
  <2> HIDE DEF verdict
  <2>1. QED
    BY DEF ExInv, RunnersShaped
<1> HIDE DEF r, verdict
<1>5. HeldOnce'
  BY <1>3 DEF ExInv, HeldOnce
<1>6. QED
  BY <1>1, <1>3, <1>4, <1>5, WorkerMoves

LEMMA RequestKeeps ==
  ASSUME ExInv, NEW w \in Runners, requestJson(w)
  PROVE  ExInv'
<1>1. runner[w] # IdleRunner /\ UNCHANGED <<stage, event, holds, recorded>> /\ HeldOnce'
  BY IdleIsIdle DEF requestJson, ExInv, HeldOnce
<1>2. ASSUME NEW v, failExchange(w, v) PROVE ExInv'
  BY <1>1, <1>2, FailureMoves
<1> DEFINE r == [runner[w] EXCEPT !.at = "sent", !.body = bodyOf(stage)]
<1>3. ASSUME runner' = [runner EXCEPT ![w] = r], UNCHANGED transfer PROVE ExInv'
  <2>1. /\ DOMAIN r = {"at", "token", "body", "result"} /\ r.token = runner[w].token
        /\ r.at = "sent"
    BY DEF ExInv, RunnersShaped
  <2> HIDE DEF r
  <2>2. QED
    BY <1>1, <1>3, <2>1, WorkerMoves
<1>4. \/ \E v : failExchange(w, v)
      \/ runner' = [runner EXCEPT ![w] = r] /\ UNCHANGED transfer
  BY DEF requestJson, ExInv, RunnersShaped
<1>5. QED
  BY <1>2, <1>3, <1>4

LEMMA AnswerKeeps ==
  ASSUME ExInv, NEW w \in Runners, answerArrives(w)
  PROVE  ExInv'
<1> DEFINE body == runner[w].body
           r == [runner[w] EXCEPT !.at = "answered", !.result = answerVerdict(body, lenderAnswer(body))]
<1>1. /\ runner[w] # IdleRunner /\ callFintree(body)
      /\ runner' = [runner EXCEPT ![w] = r] /\ UNCHANGED <<stage, event, transfer, recorded>>
  BY IdleIsIdle DEF answerArrives, ExInv, RunnersShaped
<1>2. /\ DOMAIN r = {"at", "token", "body", "result"} /\ r.token = runner[w].token /\ r.body = body
      /\ r.result = answerVerdict(body, lenderAnswer(body))
  BY DEF ExInv, RunnersShaped
<1> HIDE DEF r, body
<1>3. HeldOnce' /\ \A b : holds = <<b>> => holds' = <<b>>
  BY <1>1, HeldStays DEF ExInv
<1>4. r.result = "ok" => holds' = <<r.body>>
  BY <1>1, <1>2, HeldStays, GoodAnswerIsHeld DEF ExInv
<1>5. QED
  BY <1>1, <1>2, <1>3, <1>4, WorkerMoves

LEMMA TroubleKeeps ==
  ASSUME ExInv, NEW w \in Runners, requestFails(w)
  PROVE  ExInv'
<1>1. runner[w] # IdleRunner /\ UNCHANGED <<stage, event, recorded>>
  BY IdleIsIdle DEF requestFails
<1>2. /\ holds' = holds \/ callFintree(runner[w].body)
      /\ \E v : failExchange(w, v)
  BY DEF requestFails
<1>3. HeldOnce' /\ \A b : holds = <<b>> => holds' = <<b>>
  BY <1>2, HeldStays DEF ExInv, HeldOnce
<1>4. QED
  BY <1>1, <1>2, <1>3, FailureMoves

\* The transaction of the handler records the body of the answered request, which is held.
LEMMA AcknowledgementKeeps ==
  ASSUME ExInv, NEW w \in Runners, acknowledged(w)
  PROVE  ExInv'
<1> DEFINE e == [event EXCEPT !.status = "COMPLETED"]
<1>1. /\ e \in [status : {"PENDING", "PROCESSING", "RETRY_PENDING", "COMPLETED", "FAILED"},
                attempts : Nat, token : Nat]
      /\ e.status = "COMPLETED"
  BY DEF ExInv, EventShaped
<1>2. /\ event' = e /\ recorded' = runner[w].body /\ runner' = [runner EXCEPT ![w] = IdleRunner]
      /\ UNCHANGED <<stage, holds>> /\ transfer' = IF stage = "DOCUMENT" THEN "ACKNOWLEDGED" ELSE transfer
      /\ runner[w].at = "answered" /\ runner[w].result = "ok" /\ runner[w] # IdleRunner
  BY IdleIsIdle DEF acknowledged
<1> HIDE DEF e
<1>3. holds = <<runner[w].body>>
  BY <1>2 DEF ExInv, AnswersHeld
<1>4. RunnersShaped' /\ EventShaped' /\ HeldOnce' /\ AnswersHeld' /\ RecordedHeld'
  BY <1>1, <1>2, <1>3, IdleIsIdle
     DEF ExInv, RunnersShaped, EventShaped, HeldOnce, AnswersHeld, RecordedHeld
<1>5. ASSUME Alone PROVE Alone'
  BY <1>1, <1>2, <1>5 DEF ExInv, RunnersShaped, Alone, Owner
<1>6. QED
  BY <1>4, <1>5 DEF ExInv

LEMMA RefusalKeeps ==
  ASSUME ExInv, NEW w \in Runners, notAcknowledged(w)
  PROVE  ExInv'
<1>1. /\ runner[w] # IdleRunner /\ UNCHANGED <<stage, event, recorded, holds>>
      /\ \E v : failExchange(w, v)
  BY IdleIsIdle DEF notAcknowledged
<1>2. HeldOnce' /\ \A b : holds = <<b>> => holds' = <<b>>
  BY <1>1 DEF ExInv, HeldOnce
<1>3. QED
  BY <1>1, <1>2, FailureMoves

\* A worker that lost its lease writes nothing; one that owns it leaves the event open.
LEMMA SettlementKeeps ==
  ASSUME ExInv, NEW w \in Runners, markStageFailure(w)
  PROVE  ExInv'
<1>1. /\ runner[w] # IdleRunner /\ runner' = [runner EXCEPT ![w] = IdleRunner]
      /\ UNCHANGED <<stage, recorded, holds>>
  BY IdleIsIdle DEF markStageFailure
<1>2. HeldOnce'
  BY <1>1 DEF ExInv, HeldOnce
<1>3. CASE ~Owner(w)
  <2>1. UNCHANGED <<event, transfer>>
    BY <1>3 DEF markStageFailure
  <2>2. QED
    BY <1>1, <1>2, <2>1, IdleIsIdle, WorkerMoves
<1>4. CASE Owner(w)
  <2>1. PICK s \in {"RETRY_PENDING", "FAILED"} : event' = [event EXCEPT !.status = s]
    BY <1>4 DEF markStageFailure
  <2>2. transfer' \in {transfer, "PENDING", "FAILED"}
    BY <1>4 DEF markStageFailure
  <2> DEFINE e == [event EXCEPT !.status = s]
  <2>3. /\ e \in [status : {"PENDING", "PROCESSING", "RETRY_PENDING", "COMPLETED", "FAILED"},
                  attempts : Nat, token : Nat]
        /\ e.status = s /\ event' = e
    BY <2>1 DEF ExInv, EventShaped
  <2> HIDE DEF e
  <2>4. transfer # "ACKNOWLEDGED"
    BY <1>4 DEF ExInv, RecordedHeld, Owner
  <2>5. RunnersShaped' /\ EventShaped' /\ AnswersHeld' /\ RecordedHeld'
    BY <1>1, <2>2, <2>3, <2>4, IdleIsIdle
       DEF ExInv, RunnersShaped, EventShaped, AnswersHeld, RecordedHeld
  <2>6. ASSUME Alone PROVE Alone'
    BY <1>1, <2>3, <2>6 DEF ExInv, RunnersShaped, Alone, Owner
  <2>7. QED
    BY <1>2, <2>5, <2>6 DEF ExInv
<1>5. QED
  BY <1>3, <1>4

LEMMA DeathKeeps ==
  ASSUME ExInv, NEW w \in Runners, runnerDies(w)
  PROVE  ExInv'
<1>1. /\ runner[w] # IdleRunner /\ runner' = [runner EXCEPT ![w] = IdleRunner]
      /\ UNCHANGED <<stage, event, transfer, recorded, holds>>
  BY DEF runnerDies
<1>2. HeldOnce'
  BY <1>1 DEF ExInv, HeldOnce
<1>3. QED
  BY <1>1, <1>2, IdleIsIdle, WorkerMoves

LEMMA RecoveryKeeps ==
  ASSUME ExInv, recoverLease
  PROVE  ExInv'
<1> DEFINE e == [event EXCEPT !.status = "RETRY_PENDING"]
<1>1. /\ e \in [status : {"PENDING", "PROCESSING", "RETRY_PENDING", "COMPLETED", "FAILED"},
                attempts : Nat, token : Nat]
      /\ e.status = "RETRY_PENDING"
  BY DEF ExInv, EventShaped
<1>2. /\ event' = e /\ event.status = "PROCESSING"
      /\ UNCHANGED <<stage, transfer, runner, holds, recorded>>
      /\ (\E w \in Runners : runner[w] # IdleRunner /\ Owner(w)) => Overrun
  BY DEF recoverLease
<1> HIDE DEF e
<1>3. RunnersShaped' /\ EventShaped' /\ HeldOnce' /\ AnswersHeld' /\ RecordedHeld'
  BY <1>1, <1>2 DEF ExInv, RunnersShaped, EventShaped, HeldOnce, AnswersHeld, RecordedHeld
<1>4. ASSUME Alone, ~Overrun PROVE Alone'
  <2>1. \A w \in Runners : runner[w] = IdleRunner
    BY <1>2, <1>4 DEF Alone
  <2>2. QED
    BY <1>1, <1>2, <2>1 DEF Alone
<1>5. QED
  BY <1>3, <1>4 DEF ExInv

LEMMA ExInvInductive == ExInv /\ [ExNext]_exVars => ExInv'
<1> SUFFICES ASSUME ExInv, [ExNext]_exVars
             PROVE  ExInv'
  OBVIOUS
<1>1. ASSUME UNCHANGED <<stage, event, transfer, runner, holds, recorded>>
      PROVE  ExInv'
  BY <1>1 DEF ExInv, RunnersShaped, EventShaped, HeldOnce, AnswersHeld, RecordedHeld, Alone, Owner
<1>2. ASSUME NEW w \in Runners, exchangeStep(w) \/ requestFails(w) \/ runnerDies(w)
      PROVE  ExInv'
  BY <1>2, ClaimKeeps, BuildKeeps, RequestKeeps, AnswerKeeps, TroubleKeeps, AcknowledgementKeeps,
     RefusalKeeps, SettlementKeeps, DeathKeeps DEF exchangeStep
<1>3. CASE recoverLease
  BY <1>3, RecoveryKeeps
<1>4. CASE settingRepaired \/ recordChanges
  BY <1>1, <1>4 DEF settingRepaired, recordChanges
<1>5. CASE UNCHANGED exVars
  BY <1>1, <1>5 DEF exVars
<1>6. QED
  BY <1>2, <1>3, <1>4, <1>5 DEF ExNext

\* Whatever is retried, times out or is taken over by another worker, the lender takes up one
\* body for an event at most, and a completed event records the body it holds
\* (LenderHttpService and the completion transaction of LenderIntegrationService); for any
\* number of workers, tries and troubles, leases ending under a worker included.
THEOREM HeldIsRecorded ==
  ExSpec => [](Len(holds) <= 1 /\ (event.status = "COMPLETED" => holds = <<recorded>>))
<1>1. ExInv => Len(holds) <= 1 /\ (event.status = "COMPLETED" => holds = <<recorded>>)
  BY HeldAtMostOne DEF ExInv, RecordedHeld
<1>2. QED
  BY <1>1, ExchangeStarts, ExInvInductive, PTL DEF ExSpec

\* While no request outlasts its lease, a completed event's document transfer is acknowledged
\* as well: nobody is left whose failure would mark it (processDocument()).
THEOREM AcceptedOnceHolds == ~Overrun => (ExSpec => []AcceptedOnce)
<1> SUFFICES ASSUME ~Overrun
             PROVE  ExSpec => []AcceptedOnce
  OBVIOUS
<1>1. ExInv => AcceptedOnce
  BY HeldAtMostOne DEF ExInv, RecordedHeld, Alone, AcceptedOnce
<1>2. QED
  BY <1>1, ExchangeStarts, ExInvInductive, PTL DEF ExSpec

-------------------------------------------------------------------------------
(* The partner's application.                                               *)

PartnerStatuses ==
  {"none", "CREATED", "CONSENT_RECORDED", "PROFILE_COMPLETE", "PRE_APPROVAL_PENDING",
   "PRE_APPROVED", "ONBOARDING_IN_PROGRESS", "ONBOARDING_COMPLETE", "FINAL_APPROVAL_PENDING",
   "FINAL_APPROVED", "MANDATE_AUTHORIZED", "DISBURSEMENT_PENDING", "REJECTED"}
Applications ==
  [status : PartnerStatuses, consents : BOOLEAN, profile : BOOLEAN,
   onboarding : {"none", "open", "complete"}, mandate : BOOLEAN, disbursements : {0, 1},
   plApplications : {0, 1}]

\* What an application of a status has in evidence.
Evidenced(a) ==
  /\ a \in Applications
  /\ a.status \notin {"none", "CREATED", "REJECTED"} => a.consents
  /\ a.status \notin {"none", "CREATED", "CONSENT_RECORDED", "REJECTED"} => a.profile
  /\ a.status \in Late => a.onboarding = "complete"
  /\ a.status \in {"MANDATE_AUTHORIZED", "DISBURSEMENT_PENDING"} => a.mandate
  /\ a.disbursements = IF a.status = "DISBURSEMENT_PENDING" THEN 1 ELSE 0

\* What a handler checked of the application it read: the status its transition starts from,
\* and the snapshot it asks for.
ReadyFor(a, op) ==
  CASE op = "consents" -> a.status = "CREATED"
    [] op = "profile" -> a.status = "CONSENT_RECORDED"
    [] op = "preApproval" -> a.status = "PROFILE_COMPLETE"
    [] op \in {"onboard", "onboarded"} ->
         a.status \in {"PRE_APPROVED", "ONBOARDING_IN_PROGRESS", "ONBOARDING_COMPLETE"}
    [] op = "finalApproval" -> a.status = "ONBOARDING_COMPLETE" /\ a.onboarding = "complete"
    [] op = "mandate" -> a.status = "FINAL_APPROVED"
    [] op = "disburse" -> a.status = "MANDATE_AUTHORIZED"
    [] OTHER -> FALSE

\* The application that a handler's transaction leaves behind.
After(a, op) == [writtenBy(op, a) EXCEPT !.status = Target[op]]

CallsShaped ==
  /\ DOMAIN call = Calls
  /\ \A c \in Calls : /\ DOMAIN call[c] = {"op", "key", "pc"}
                      /\ call[c].op \in Operations \cup {"none"}

\* With one call of the partner at a time, what its handler checked is still so when its
\* transaction writes.
Sequential ==
  /\ ~Concurrent
  /\ CallsShaped
  /\ \A c, d \in Calls : call[c].pc # "idle" /\ call[d].pc # "idle" => c = d
  /\ \A c \in Calls : call[c].pc = "commit" =>
       call[c].op \in Operations /\ (call[c].op # "create" => ReadyFor(application, call[c].op))

Told == told = application.status
PartnerInv == Evidenced(application) /\ Told /\ Sequential

\* assertValidTransition() and the handlers' own checks say what ReadyFor() says.
LEMMA AcceptsIsReady ==
  ASSUME NEW op \in Operations, op # "create", application \in Applications, accepts(op)
  PROVE  ReadyFor(application, op)
<1>1. application.status \in PartnerStatuses
  BY DEF Applications
<1>2. ASSUME NEW target, target \in Allowed(application.status)
      PROVE  /\ target = "CONSENT_RECORDED" => application.status = "CREATED"
             /\ target = "PROFILE_COMPLETE" => application.status = "CONSENT_RECORDED"
             /\ target = "PRE_APPROVAL_PENDING" => application.status = "PROFILE_COMPLETE"
             /\ target = "FINAL_APPROVAL_PENDING" => application.status = "ONBOARDING_COMPLETE"
             /\ target = "MANDATE_AUTHORIZED" => application.status = "FINAL_APPROVED"
             /\ target = "DISBURSEMENT_PENDING" => application.status = "MANDATE_AUTHORIZED"
  BY <1>1, <1>2 DEF Allowed, PartnerStatuses
<1>3. CASE op \in {"consents", "profile", "preApproval"}
  BY <1>2, <1>3 DEF accepts, assertValidTransition, Target, ReadyFor
<1>4. CASE op \in {"onboard", "onboarded"}
  BY <1>4 DEF accepts, updateOnboarding, ReadyFor
<1>5. CASE op = "finalApproval"
  BY <1>2, <1>5 DEF accepts, requestFinalApproval, assertValidTransition, onboardingComplete, ReadyFor
<1>6. CASE op = "mandate"
  BY <1>2, <1>6 DEF accepts, authorizeMandate, assertValidTransition, ReadyFor
<1>7. CASE op = "disburse"
  BY <1>2, <1>7 DEF accepts, requestDisbursement, assertValidTransition, ReadyFor
<1>8. QED
  BY <1>3, <1>4, <1>5, <1>6, <1>7 DEF Operations

\* A transition from the status its handler checked keeps the evidence.
LEMMA TransitionKeepsEvidence ==
  ASSUME NEW a, Evidenced(a), NEW op \in Operations, op # "create", ReadyFor(a, op)
  PROVE  Evidenced(After(a, op)) /\ After(a, op).status = Target[op]
<1>1. CASE op = "consents"
  BY <1>1 DEF Evidenced, Applications, PartnerStatuses, Late, ReadyFor, After, writtenBy, Target,
              recordConsents
<1>2. CASE op = "profile"
  BY <1>2 DEF Evidenced, Applications, PartnerStatuses, Late, ReadyFor, After, writtenBy, Target,
              updateProfile
<1>3. CASE op = "preApproval"
  BY <1>3 DEF Evidenced, Applications, PartnerStatuses, Late, ReadyFor, After, writtenBy, Target
<1>4. CASE op = "onboard"
  BY <1>4 DEF Evidenced, Applications, PartnerStatuses, Late, ReadyFor, After, writtenBy, Target,
              onboardingWritten
<1>5. CASE op = "onboarded"
  BY <1>5 DEF Evidenced, Applications, PartnerStatuses, Late, ReadyFor, After, writtenBy, Target,
              onboardingWritten
<1>6. CASE op = "finalApproval"
  BY <1>6 DEF Evidenced, Applications, PartnerStatuses, Late, ReadyFor, After, writtenBy, Target
<1>7. CASE op = "mandate"
  BY <1>7 DEF Evidenced, Applications, PartnerStatuses, Late, ReadyFor, After, writtenBy, Target,
              mandateWritten
<1>8. CASE op = "disburse"
  <2>1. a.status = "MANDATE_AUTHORIZED" /\ a \in Applications
    BY <1>8 DEF Evidenced, ReadyFor
  <2>2. a.disbursements + 1 = 1
    BY <2>1 DEF Evidenced, Applications
  <2>3. After(a, op) = [a EXCEPT !.disbursements = 1, !.status = "DISBURSEMENT_PENDING"]
    BY <1>8, <2>1, <2>2 DEF After, writtenBy, Target, disbursementWritten, Applications
  <2>4. QED
    BY <1>8, <2>1, <2>3 DEF Evidenced, Applications, PartnerStatuses, Late, Target
<1>9. QED
  BY <1>1, <1>2, <1>3, <1>4, <1>5, <1>6, <1>7, <1>8 DEF Operations

\* A decision keeps the evidence too, and no call waits for it: none starts from a pending
\* approval.
LEMMA DecisionKeepsEvidence ==
  ASSUME NEW a, Evidenced(a), NEW outcome \in PartnerStatuses,
         \/ a.status = "PRE_APPROVAL_PENDING" /\ outcome \in {"PRE_APPROVED", "REJECTED"}
         \/ a.status = "FINAL_APPROVAL_PENDING" /\ outcome \in {"FINAL_APPROVED", "REJECTED"}
  PROVE  /\ Evidenced([a EXCEPT !.status = outcome])
         /\ [a EXCEPT !.status = outcome].status = outcome
         /\ \A op \in Operations : ~ReadyFor(a, op)
<1>1. Evidenced([a EXCEPT !.status = outcome]) /\ [a EXCEPT !.status = outcome].status = outcome
  BY DEF Evidenced, Applications, PartnerStatuses, Late
<1>2. ASSUME NEW op \in Operations PROVE ~ReadyFor(a, op)
  BY DEF ReadyFor, Operations
<1>3. QED
  BY <1>1, <1>2

LEMMA PartnerInvInductive == PartnerInv /\ [ApiNext]_apiVars => PartnerInv'
<1> SUFFICES ASSUME PartnerInv, [ApiNext]_apiVars
             PROVE  PartnerInv'
  OBVIOUS
<1>1. ASSUME UNCHANGED <<application, call, told>>
      PROVE  PartnerInv'
  BY <1>1 DEF PartnerInv, Told, Sequential, CallsShaped
\* A call that moves on, or ends, without a transaction.
<1>2. ASSUME NEW c \in Calls, NEW r, DOMAIN r = {"op", "key", "pc"}, call' = [call EXCEPT ![c] = r],
             r.op \in Operations \cup {"none"}, r.pc # "commit", UNCHANGED <<application, told>>,
             call[c].pc # "idle" \/ r.pc = "idle" \/ \A d \in Calls : call[d].pc = "idle"
      PROVE  PartnerInv'
  BY <1>2 DEF PartnerInv, Told, Sequential, CallsShaped
<1>3. ASSUME NEW c \in Calls, NEW op \in Operations, NEW k \in Keys, sendCall(c, op, k)
      PROVE  PartnerInv'
  <2> DEFINE r == [op |-> op, key |-> k, pc |-> IF op = "create" /\ Exists THEN "store" ELSE "commit"]
  <2>1. DOMAIN r = {"op", "key", "pc"} /\ r.op = op /\ r.pc \in {"store", "commit"}
    OBVIOUS
  <2>2. /\ call' = [call EXCEPT ![c] = r] /\ \A d \in Calls : call[d].pc = "idle"
        /\ UNCHANGED <<application, told>>
    BY <1>3 DEF sendCall, PartnerInv, Sequential
  <2>3. op # "create" => ReadyFor(application, op)
    BY <1>3, AcceptsIsReady DEF sendCall, PartnerInv, Evidenced
  <2> HIDE DEF r
  <2>4. QED
    BY <2>1, <2>2, <2>3 DEF PartnerInv, Told, Sequential, CallsShaped
<1>4. ASSUME NEW c \in Calls, commitCall(c)
      PROVE  PartnerInv'
  <2> DEFINE op == call[c].op
             r == [call[c] EXCEPT !.pc = "store"]
  <2>1. DOMAIN r = {"op", "key", "pc"} /\ r.op = op /\ r.pc = "store"
    BY DEF PartnerInv, Sequential, CallsShaped
  <2>2. op \in Operations /\ (op # "create" => ReadyFor(application, op)) /\ call[c].pc = "commit"
    BY <1>4 DEF commitCall, PartnerInv, Sequential
  <2>3. NoApiCall.pc = "idle" /\ NoApiCall.op = "none" /\ DOMAIN NoApiCall = {"op", "key", "pc"}
    BY DEF NoApiCall
  <2>4. CASE op = "create" /\ Exists
    <3>1. call' = [call EXCEPT ![c] = NoApiCall] /\ UNCHANGED <<application, told>>
      BY <1>4, <2>4 DEF commitCall, createPartnerApplication
    <3>2. QED
      BY <1>2, <2>2, <2>3, <3>1
  \* A transaction: the application and its event; nobody else is at work.
  <2>5. ASSUME NEW a, Evidenced(a), application' = a, told' = a.status, call' = [call EXCEPT ![c] = r]
        PROVE  PartnerInv'
    <3> HIDE DEF r
    <3>1. \A d \in Calls : call'[d].pc # "idle" => d = c
      BY <2>2, <2>5 DEF PartnerInv, Sequential, CallsShaped
    <3>2. Sequential'
      BY <2>1, <2>2, <2>5, <3>1 DEF PartnerInv, Sequential, CallsShaped
    <3>3. QED
      BY <2>5, <3>2 DEF PartnerInv, Told
  <2>6. CASE op = "create" /\ ~Exists
    <3> DEFINE a == [NoApplication EXCEPT !.status = "CREATED", !.plApplications = 1]
    <3>1. application' = a /\ told' = "CREATED" /\ call' = [call EXCEPT ![c] = r]
      BY <1>4, <2>6 DEF commitCall, createPartnerApplication, enqueueEvent, PartnerInv, Sequential, CallsShaped
    <3>2. Evidenced(a) /\ a.status = "CREATED"
      BY DEF Evidenced, Applications, PartnerStatuses, Late, NoApplication
    <3> HIDE DEF a, r
    <3>3. QED
      BY <2>5, <3>1, <3>2
  <2>7. CASE op # "create"
    <3>1. application' = After(application, op) /\ told' = Target[op] /\ call' = [call EXCEPT ![c] = r]
      BY <1>4, <2>7 DEF commitCall, enqueueEvent, After, PartnerInv, Sequential, CallsShaped
    <3>2. Evidenced(After(application, op)) /\ After(application, op).status = Target[op]
      BY <2>2, <2>7, TransitionKeepsEvidence DEF PartnerInv
    <3> HIDE DEF r, op
    <3>3. QED
      BY <2>5, <3>1, <3>2
  <2>8. QED
    BY <2>4, <2>6, <2>7
<1>5. ASSUME NEW c \in Calls, storeAnswer(c)
      PROVE  PartnerInv'
  <2>1. NoApiCall.pc = "idle" /\ NoApiCall.op = "none" /\ DOMAIN NoApiCall = {"op", "key", "pc"}
    BY DEF NoApiCall
  <2>2. QED
    BY <1>2, <1>5, <2>1 DEF storeAnswer
<1>6. ASSUME NEW outcome \in PartnerStatuses, UNCHANGED call,
             application' = [application EXCEPT !.status = outcome], told' = outcome,
             \/ application.status = "PRE_APPROVAL_PENDING" /\ outcome \in {"PRE_APPROVED", "REJECTED"}
             \/ application.status = "FINAL_APPROVAL_PENDING" /\ outcome \in {"FINAL_APPROVED", "REJECTED"}
      PROVE  PartnerInv'
  <2>1. /\ Evidenced([application EXCEPT !.status = outcome])
        /\ [application EXCEPT !.status = outcome].status = outcome
        /\ \A op \in Operations : ~ReadyFor(application, op)
    BY <1>6, DecisionKeepsEvidence DEF PartnerInv
  <2>2. \A c \in Calls : call[c].pc = "commit" => call[c].op = "create"
    BY <2>1 DEF PartnerInv, Sequential
  <2>3. Sequential'
    BY <1>6, <2>2 DEF PartnerInv, Sequential, CallsShaped
  <2>4. QED
    BY <1>6, <2>1, <2>3 DEF PartnerInv, Told
<1>7. ASSUME NEW o \in {"PRE_APPROVED", "REJECTED"}, resolvePreApproval(o)
      PROVE  PartnerInv'
  BY <1>6, <1>7 DEF resolvePreApproval, enqueueEvent, PartnerStatuses
<1>8. ASSUME NEW o \in {"FINAL_APPROVED", "REJECTED"}, resolveFinalApproval(o)
      PROVE  PartnerInv'
  BY <1>6, <1>8 DEF resolveFinalApproval, enqueueEvent, PartnerStatuses
<1>9. CASE toggleStatus
  BY <1>1, <1>9 DEF toggleStatus
<1>10. ASSUME NEW e \in DOMAIN events, claimNextEvent(e) \/ delivered(e) \/ deliveryFailed(e) \/ retryDue(e)
       PROVE  PartnerInv'
  BY <1>1, <1>10 DEF claimNextEvent, delivered, deliveryFailed, retryDue
<1>11. CASE apiCrash
  <2>1. NoApiCall.pc = "idle" /\ NoApiCall.op = "none" /\ DOMAIN NoApiCall = {"op", "key", "pc"}
    BY DEF NoApiCall
  <2>2. QED
    BY <1>11, <2>1 DEF apiCrash, PartnerInv, Told, Sequential, CallsShaped
<1>12. CASE UNCHANGED apiVars
  BY <1>1, <1>12 DEF apiVars
<1>13. QED
  BY <1>3, <1>4, <1>5, <1>7, <1>8, <1>9, <1>10, <1>11, <1>12 DEF ApiNext

\* Whatever is retried, repeated or interrupted by a crash: evidence before the final decision,
\* money asked for once and under a mandate, one application, and the partner told of the
\* status it has (PartnerApplicationService), for a partner that waits for the answer to a
\* call before it makes the next; for any number of keys, crashes, deliveries and events.
THEOREM EvidenceFirstHolds == ~Concurrent => (ApiSpec => []EvidenceFirst)
<1> SUFFICES ASSUME ~Concurrent
             PROVE  ApiSpec => []EvidenceFirst
  OBVIOUS
<1>1. ApiInit => PartnerInv
  BY DEF ApiInit, PartnerInv, Evidenced, Applications, PartnerStatuses, Late, Told, Sequential, CallsShaped,
         NoApplication, NoApiCall
<1>2. PartnerInv => EvidenceFirst
  BY DEF PartnerInv, Evidenced, Applications, PartnerStatuses, Late, Told, EvidenceFirst
<1>3. QED
  BY <1>1, <1>2, PartnerInvInductive, PTL DEF ApiSpec
================================================================================
