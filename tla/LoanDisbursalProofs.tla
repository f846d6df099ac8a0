-------------------------- MODULE LoanDisbursalProofs --------------------------
(***************************************************************************)
(* WelcomeOnce and ScheduleBacksDisbursal for any number of requests and   *)
(* deliveries, any payloads and any number of crashes, replays, rejections *)
(* and resets.                                                             *)
(*                                                                         *)
(* Neither is inductive: the webhook decides on its snapshot, so the       *)
(* invariant has to say what a snapshot can still be trusted for.  While   *)
(* no disbursal was taken back, the schedule exists exactly when the loan  *)
(* is disbursed, a letter was sent only for a loan that is disbursed now,  *)
(* and a snapshot that saw a schedule saw a disbursed loan.  A delivery    *)
(* that passes its checks on an older snapshot then meets the schedule's   *)
(* unique key.                                                             *)
(***************************************************************************)
EXTENDS LoanDisbursal, TLAPS

Shape ==
  /\ loan \in Loans
  /\ ready \in BOOLEAN /\ schedule \in BOOLEAN /\ undone \in BOOLEAN
  /\ letters \in Nat
  /\ delivery \in [Deliveries -> Snapshots]

ScheduleIffDisbursed == ~undone => (schedule <=> Disbursed(loan))
LetterMeansDisbursed == ~undone /\ letters # 0 => Disbursed(loan)
SnapshotsTrusted ==
  \A d \in Deliveries :
    ~undone /\ delivery[d].pc = "read" /\ delivery[d].schedule => Disbursed(delivery[d].loan)

Inv == Shape /\ ScheduleIffDisbursed /\ LetterMeansDisbursed /\ WelcomeOnce /\ SnapshotsTrusted

\* What the invariant is about.
core == <<loan, ready, schedule, undone, letters, delivery>>

\* The two ways a delivery leaves its snapshot behind.
LEMMA NoReadShape ==
  /\ NoRead \in Snapshots /\ NoRead.pc = "new"
  /\ [NoRead EXCEPT !.pc = "done"] \in Snapshots /\ [NoRead EXCEPT !.pc = "done"].pc = "done"
  BY DEF NoRead, Snapshots, NewLoan, Loans, LoanStatus, DisbursalStatus, Outcomes

\* The initial loan satisfies the invariant: nothing was read, sent or scheduled.
LEMMA InitInv == Init => Inv
<1> SUFFICES ASSUME Init PROVE Inv
  OBVIOUS
<1>1. Shape
  BY NoReadShape DEF Init, Shape, NewLoan, Loans, LoanStatus, DisbursalStatus, Outcomes
<1>2. ScheduleIffDisbursed /\ LetterMeansDisbursed /\ WelcomeOnce
  BY DEF Init, ScheduleIffDisbursed, LetterMeansDisbursed, WelcomeOnce, NewLoan, Disbursed
<1>3. SnapshotsTrusted
  BY NoReadShape DEF Init, SnapshotsTrusted
<1>4. QED
  BY <1>1, <1>2, <1>3 DEF Inv

\* A step outside the core keeps the invariant.
LEMMA CoreUnchanged == Inv /\ UNCHANGED core => Inv'
  BY DEF core, Inv, Shape, ScheduleIffDisbursed, LetterMeansDisbursed, WelcomeOnce,
         SnapshotsTrusted, Disbursed

\* A writer that only touches the loan and never makes it disbursed keeps the invariant:
\* either the loan stays disbursed or the step is recorded as taking the disbursal back.
LEMMA LoanWriter ==
  ASSUME Inv, Recorded, loan' \in Loans, Disbursed(loan') => Disbursed(loan),
         UNCHANGED <<ready, schedule, letters, delivery>>
  PROVE  Inv'
<1>1. undone' \in BOOLEAN /\ (~undone' => ~undone /\ (Disbursed(loan) <=> Disbursed(loan')))
  BY DEF Recorded, Inv, Shape
<1>2. QED
  BY <1>1 DEF Inv, Shape, ScheduleIffDisbursed, LetterMeansDisbursed, WelcomeOnce,
              SnapshotsTrusted

\* The transaction's snapshot is taken of a state that satisfies the invariant.
LEMMA ReadDeliveryInv ==
  ASSUME Inv, NEW d \in Deliveries, readDelivery(d)
  PROVE  Inv'
<1> DEFINE snap == [pc |-> "read", loan |-> loan, ready |-> ready,
                    seen |-> Content[d] \in inbox, schedule |-> schedule]
<1>1. snap \in Snapshots
  BY DEF Inv, Shape, Snapshots
<1>2. delivery' = [delivery EXCEPT ![d] = snap] /\ UNCHANGED <<loan, ready, schedule, undone, letters>>
  BY DEF readDelivery
<1>3. Shape'
  BY <1>1, <1>2 DEF Inv, Shape
<1>4. SnapshotsTrusted'
  BY <1>2 DEF Inv, Shape, SnapshotsTrusted, ScheduleIffDisbursed, Disbursed
<1>5. QED
  BY <1>2, <1>3, <1>4 DEF Inv, ScheduleIffDisbursed, LetterMeansDisbursed, WelcomeOnce, Disbursed

\* A delivery that is forgotten, refused or aborted leaves a snapshot nobody will use.
LEMMA DropDeliveryInv ==
  ASSUME Inv, NEW d \in Deliveries, NEW s \in Snapshots, s.pc # "read",
         delivery' = [delivery EXCEPT ![d] = s],
         UNCHANGED <<loan, ready, schedule, undone, letters>>
  PROVE  Inv'
<1>1. Shape'
  BY DEF Inv, Shape
<1>2. SnapshotsTrusted'
  BY DEF Inv, Shape, SnapshotsTrusted, Disbursed
<1>3. QED
  BY <1>1, <1>2 DEF Inv, ScheduleIffDisbursed, LetterMeansDisbursed, WelcomeOnce, Disbursed

\* The commit: a success on a snapshot without schedule finds none now, so the loan was
\* not disbursed and no letter was sent; a failure that replaces a disbursal is recorded.
LEMMA CommitDeliveryInv ==
  ASSUME Inv, NEW d \in Deliveries, commitDelivery(d)
  PROVE  Inv'
<1> DEFINE s == delivery[d]
           p == Content[d]
           success == p.outcome = "DISBURSED"
<1>1. /\ s.pc = "read" /\ ~Disbursed(s.loan) /\ ~(success /\ ~s.schedule /\ schedule)
      /\ loan' = [status |-> IF success THEN "DISBURSED" ELSE "FAILED", disbursal |-> p.outcome]
      /\ schedule' = (schedule \/ (success /\ ~s.schedule))
      /\ letters' = IF success THEN letters + 1 ELSE letters
      /\ delivery' = [delivery EXCEPT ![d] = [NoRead EXCEPT !.pc = "done"]]
      /\ Recorded /\ UNCHANGED ready
  BY DEF commitDelivery, Refused, KeyViolation, generateSchedule
<1>2. p.outcome \in Outcomes
  BY ContentAssumption DEF Contents
<1>3. Disbursed(loan') <=> success
  BY <1>1, <1>2 DEF Disbursed
<1>4. s \in Snapshots /\ s.schedule \in BOOLEAN
  BY DEF Inv, Shape, Snapshots
<1>5. undone' \in BOOLEAN /\ (~undone' => ~undone /\ (Disbursed(loan) => success))
  BY <1>1, <1>3 DEF Recorded, Inv, Shape
<1>6. ~undone => ~s.schedule
  BY <1>1, <1>4 DEF Inv, SnapshotsTrusted
<1>7. ~undone' /\ success => ~schedule /\ ~Disbursed(loan) /\ letters = 0
  BY <1>1, <1>5, <1>6 DEF Inv, Shape, ScheduleIffDisbursed, LetterMeansDisbursed
<1>8. Shape'
  BY <1>1, <1>2, <1>4, <1>5, NoReadShape
     DEF Inv, Shape, Loans, LoanStatus, DisbursalStatus
<1>9. ScheduleIffDisbursed'
  BY <1>1, <1>3, <1>5, <1>6, <1>7 DEF Inv, Shape, ScheduleIffDisbursed
<1>10. LetterMeansDisbursed' /\ WelcomeOnce'
  BY <1>1, <1>3, <1>5, <1>7 DEF Inv, Shape, LetterMeansDisbursed, WelcomeOnce
<1>11. SnapshotsTrusted'
  BY <1>1, <1>5, NoReadShape DEF Inv, Shape, SnapshotsTrusted
<1>12. QED
  BY <1>8, <1>9, <1>10, <1>11 DEF Inv

\* The reset wipes loan and schedule together.
LEMMA ResetInv == Inv /\ resetLoanRpsAndDisbursal => Inv'
<1> SUFFICES ASSUME Inv, resetLoanRpsAndDisbursal PROVE Inv'
  OBVIOUS
<1>1. /\ loan' = [status |-> "READY_FOR_DISBURSAL", disbursal |-> "NOT_STARTED"]
      /\ schedule' = FALSE /\ Recorded /\ UNCHANGED <<ready, letters, delivery>>
  BY DEF resetLoanRpsAndDisbursal
<1>2. ~Disbursed(loan') /\ loan' \in Loans
  BY <1>1 DEF Disbursed, Loans, LoanStatus, DisbursalStatus
<1>3. undone' \in BOOLEAN /\ (~undone' => ~undone /\ ~Disbursed(loan))
  BY <1>1, <1>2 DEF Recorded, Inv, Shape
<1>4. QED
  BY <1>1, <1>2, <1>3 DEF Inv, Shape, ScheduleIffDisbursed, LetterMeansDisbursed, WelcomeOnce,
                          SnapshotsTrusted

\* Every step keeps the invariant.
LEMMA NextInv == Inv /\ [Next]_vars => Inv'
<1> SUFFICES ASSUME Inv, [Next]_vars PROVE Inv'
  OBVIOUS
<1>shape. loan \in Loans /\ delivery \in [Deliveries -> Snapshots]
  BY DEF Inv, Shape
<1>1. CASE UNCHANGED vars
  BY <1>1, CoreUnchanged DEF vars, core
<1>2. CASE completeSteps
  BY <1>2 DEF completeSteps, Inv, Shape, ScheduleIffDisbursed, LetterMeansDisbursed, WelcomeOnce,
              SnapshotsTrusted, Disbursed
<1>3. ASSUME NEW r \in Requests, RequestStep(r) PROVE Inv'
  <2>1. CASE readRequest(r) \/ enqueueDisbursalWhenReady(r) \/ enqueueLost(r)
    BY <2>1, CoreUnchanged DEF readRequest, enqueueDisbursalWhenReady, enqueueLost, core
  <2>2. CASE writeRequest(r)
    <3>1. /\ loan' = [status |-> "DISBURSAL_PROCESSING", disbursal |-> "DISBURSAL_REQUESTED"]
          /\ Recorded /\ UNCHANGED <<ready, schedule, letters, delivery>>
      BY <2>2 DEF writeRequest
    <3>2. loan' \in Loans /\ ~Disbursed(loan')
      BY <3>1 DEF Loans, LoanStatus, DisbursalStatus, Disbursed
    <3>3. QED
      BY <3>1, <3>2, LoanWriter
  <2>3. QED
    BY <1>3, <2>1, <2>2 DEF RequestStep
<1>4. CASE WorkerStep
  <2>1. CASE claim \/ processDisburse \/ closeRow \/ lenderTakes \/ lenderAcknowledges
             \/ settleFailure
    BY <2>1, CoreUnchanged DEF claim, processDisburse, closeRow, lenderTakes, lenderAcknowledges,
                               settleFailure, core
  <2>2. ASSUME NEW retryable \in BOOLEAN, callFails(retryable) PROVE Inv'
    BY <2>2, CoreUnchanged DEF callFails, core
  <2>3. CASE acknowledge
    <3>1. loan' \in Loans /\ (Disbursed(loan') => Disbursed(loan))
      BY <2>3, <1>shape DEF acknowledge, Loans, DisbursalStatus, Outcomes, Disbursed
    <3>2. QED
      BY <2>3, <3>1, LoanWriter DEF acknowledge
  <2>4. CASE markStageFailure
    <3>1. loan' \in Loans /\ (Disbursed(loan') => Disbursed(loan))
      BY <2>4, <1>shape DEF markStageFailure, Loans, DisbursalStatus, Disbursed
    <3>2. QED
      BY <2>4, <3>1, LoanWriter DEF markStageFailure
  <2>5. QED
    BY <1>4, <2>1, <2>2, <2>3, <2>4 DEF WorkerStep
<1>5. CASE workerDies \/ sweep \/ readRejection
  BY <1>5, CoreUnchanged DEF workerDies, sweep, readRejection, core
<1>6. CASE replayFailedEvent
  <2>1. loan' \in Loans /\ (Disbursed(loan') => Disbursed(loan))
    BY <1>6, <1>shape DEF replayFailedEvent, Loans, DisbursalStatus, Disbursed
  <2>2. QED
    BY <1>6, <2>1, LoanWriter DEF replayFailedEvent
<1>7. ASSUME NEW d \in Deliveries, DeliveryStep(d) PROVE Inv'
  <2>1. CASE readDelivery(d)
    BY <2>1, ReadDeliveryInv
  <2>2. CASE refuseDelivery(d)
    BY <2>2, DropDeliveryInv, NoReadShape DEF refuseDelivery
  <2>3. CASE commitDelivery(d)
    BY <2>3, CommitDeliveryInv
  <2>4. CASE abortDelivery(d)
    BY <2>4, DropDeliveryInv, NoReadShape DEF abortDelivery
  <2>5. QED
    BY <1>7, <2>1, <2>2, <2>3, <2>4 DEF DeliveryStep
<1>8. CASE processLenderRejectionWebhook
  <2>1. loan' \in Loans /\ (Disbursed(loan') => Disbursed(loan))
    BY <1>8, <1>shape DEF processLenderRejectionWebhook, Loans, LoanStatus, Disbursed
  <2>2. QED
    BY <1>8, <2>1, LoanWriter DEF processLenderRejectionWebhook
<1>9. CASE resetLoanRpsAndDisbursal
  BY <1>9, ResetInv
<1>10. QED
  BY <1>1, <1>2, <1>3, <1>4, <1>5, <1>6, <1>7, <1>8, <1>9 DEF Next

\* The invariant holds throughout.
LEMMA InvAlways == Spec => []Inv
  BY InitInv, NextInv, PTL DEF Spec

\* One welcome letter as long as no recorded disbursal was taken back: for any number of
\* concurrent webhook deliveries, requests, crashes, replays, rejections and resets.
THEOREM WelcomeOnceHolds == Spec => []WelcomeOnce
<1>1. Inv => WelcomeOnce
  BY DEF Inv
<1>2. QED
  BY <1>1, InvAlways, PTL

\* A disbursed loan has its repayment schedule as long as no recorded disbursal was taken
\* back, whatever overtakes the webhook.
THEOREM ScheduleBacksDisbursalHolds == Spec => []ScheduleBacksDisbursal
<1>1. Inv => ScheduleBacksDisbursal
  BY DEF Inv, ScheduleIffDisbursed, ScheduleBacksDisbursal
<1>2. QED
  BY <1>1, InvAlways, PTL

--------------------------------------------------------------------------------
\* The referrer's benefit exists only where the mapping is qualified, which is written first.
QualifiedFirst ==
  /\ referral \in [qualified : BOOLEAN, benefits : 0..1]
  /\ referral.benefits # 0 => referral.qualified

\* onLoanDisbursed() keeps that order wherever it stops.
LEMMA BenefitAfterMapping ==
  ASSUME QualifiedFirst, referral' \in onLoanDisbursed \cup {referral}
  PROVE  QualifiedFirst'
<1>1. CASE referral' = referral
  BY <1>1 DEF QualifiedFirst
<1>2. CASE referral' # referral
  <2>1. ~referral.qualified /\ referral.benefits = 0
    BY <1>2 DEF onLoanDisbursed, QualifiedFirst
  <2>2. referral' = [qualified |-> TRUE, benefits |-> referral.benefits + 1]
        \/ referral' = [qualified |-> TRUE, benefits |-> referral.benefits]
    BY <1>2, <2>1 DEF onLoanDisbursed
  <2>3. referral.benefits + 1 = 1
    BY <2>1
  <2>4. referral' = [qualified |-> TRUE, benefits |-> 1] \/ referral' = [qualified |-> TRUE, benefits |-> 0]
    BY <2>1, <2>2, <2>3, Zenon
  <2>5. [qualified |-> TRUE, benefits |-> 1] \in [qualified : BOOLEAN, benefits : 0..1]
        /\ [qualified |-> TRUE, benefits |-> 0] \in [qualified : BOOLEAN, benefits : 0..1]
    OBVIOUS
  <2>6. referral'.qualified
    BY <2>4
  <2>7. QED
    BY <2>4, <2>5, <2>6, Zenon DEF QualifiedFirst
<1>3. QED
  BY <1>1, <1>2

\* The referrer is rewarded once at most, however many deliveries die after
\* onLoanDisbursed() wrote on a connection of its own.
THEOREM BenefitOnceHolds == Spec => []BenefitOnce
<1>1. Init => QualifiedFirst
  BY DEF Init, QualifiedFirst
<1>2. QualifiedFirst /\ [Next]_vars => QualifiedFirst'
  <2> SUFFICES ASSUME QualifiedFirst, [Next]_vars PROVE QualifiedFirst'
    OBVIOUS
  <2>1. ASSUME NEW d \in Deliveries, commitDelivery(d) \/ abortDelivery(d)
        PROVE  referral' \in onLoanDisbursed \cup {referral}
    BY <2>1 DEF commitDelivery, abortDelivery
  <2>2. ASSUME NEW d \in Deliveries, readDelivery(d) \/ refuseDelivery(d) PROVE UNCHANGED referral
    BY <2>2 DEF readDelivery, refuseDelivery
  <2>3. ASSUME NEW r \in Requests, RequestStep(r) PROVE UNCHANGED referral
    BY <2>3 DEF RequestStep, readRequest, writeRequest, enqueueDisbursalWhenReady, enqueueLost
  <2>4. WorkerStep => UNCHANGED referral
    BY DEF WorkerStep, claim, processDisburse, closeRow, lenderTakes, lenderAcknowledges, callFails,
           acknowledge, markStageFailure, settleFailure
  <2>5. completeSteps \/ workerDies \/ sweep \/ replayFailedEvent => UNCHANGED referral
    BY DEF completeSteps, workerDies, sweep, replayFailedEvent
  <2>6. readRejection \/ processLenderRejectionWebhook \/ resetLoanRpsAndDisbursal \/ UNCHANGED vars
          => UNCHANGED referral
    BY DEF readRejection, processLenderRejectionWebhook, resetLoanRpsAndDisbursal, vars
  <2>7. UNCHANGED referral \/ referral' \in onLoanDisbursed \cup {referral}
    BY <2>1, <2>2, <2>3, <2>4, <2>5, <2>6 DEF Next, DeliveryStep
  <2>8. QED
    BY <2>7, BenefitAfterMapping
<1>3. QualifiedFirst => BenefitOnce
  BY DEF QualifiedFirst, BenefitOnce
<1>4. QED
  BY <1>1, <1>2, <1>3, PTL DEF Spec
================================================================================
