------------------------------ MODULE StageReminder ------------------------------
(***************************************************************************)
(* WhatsApp reminders for one application that is stuck on a stage:        *)
(* StageResolverService (which stage an application is on),                *)
(* StageReminderQueueService (tracking rows and delayed BullMQ jobs), the  *)
(* worker that runs the jobs, the daily scan and the operator's enrolment. *)
(* A BullMQ job has a deterministic id: adding an id that exists does      *)
(* nothing, a job that is being worked cannot be removed, a failed one     *)
(* runs again.                                                             *)
(***************************************************************************)
EXTENDS Naturals, Sequences, FiniteSets

CONSTANTS
  Lives,          \* the records an application goes through, see AppRecord
  MaxReminders,   \* MAX_TOTAL_REMINDERS
  MaxMoves,       \* bound: changes of the application
  MaxRmFaults,    \* bound: jobs that fail half way and are tried again
  LostAdds,       \* TRUE: queue.add() may fail (Redis away); the error is only logged
  Overlap         \* TRUE: transition hook, scan and enrolment may overlap

ASSUME RmAssumption ==
  /\ MaxReminders \in Nat \ {0} /\ MaxMoves \in Nat /\ MaxRmFaults \in Nat
  /\ {LostAdds, Overlap} \subseteq BOOLEAN

------------------------------------------------------------------------------
(* StageResolverService.  An application record: account (ACTIVE or not), status (of the     *)
(* application), loan ("none" or the loan's status), step (its currentStep), done (its        *)
(* completed flags) and has (the customer data a draft already carries).                     *)

AccountTerminal(a) == a.account # "ACTIVE"

LoanTerminal(a) ==
  a.loan \in {"DISBURSED", "FULLY_PAID", "CANCELLED", "FAILED"} \/ "disbursal" \in a.done

ApplicationTerminal(a) == a.status \in {"PLATFORM_REJECTED", "LENDER_REJECTED", "LOAN_CLOSED"}

\* The first stage of a ladder whose condition holds.
FirstOf(ladder) ==
  ladder[CHOOSE i \in DOMAIN ladder : ladder[i][2] /\ \A k \in 1 .. (i - 1) : ~ladder[k][2]][1]

\* From the last stage back to the first: the loan's status, its step or the flag before it.
PostApprovalStage(a) ==
  LET disbursing == {"READY_FOR_DISBURSAL", "DISBURSAL_PROCESSING"}
  IN FirstOf(<<
       <<"READY_FOR_DISBURSAL", a.loan \in disbursing \/ a.step \in disbursing \/ "esign" \in a.done>>,
       <<"ESIGN", a.step = "ESIGN" \/ "mandate" \in a.done>>,
       <<"EMANDATE", a.step \in {"EMANDATE", "MANDATE"} \/ "kfs" \in a.done>>,
       <<"KFS_ACCEPTANCE", a.step \in {"KFS", "KFS_ACCEPTANCE"} \/ "bank" \in a.done>>,
       <<"BANK_VERIFICATION", a.step \in {"BANK_VERIFICATION", "BANK_DETAILS"} \/ "tenure" \in a.done>>,
       <<"ADDRESS_CONFIRMATION", a.step \in {"ADDRESS_CONFIRMATION", "CURRENT_ADDRESS"}>>,
       <<"DIGILOCKER_KYC", a.step = "DIGILOCKER_KYC">>,
       <<"APPROVAL_SUMMARY", TRUE>>>>)

\* The application's status, and for a draft the first thing it misses.
PreApprovalStage(a) ==
  LET named == {"LENDER_APPROVED", "LENDER_PRE_APPROVED", "PENDING_CREDIT_REVIEW", "LENDER_REVIEW",
                "ASSESSMENT_FEE_PAID", "SUBMITTED"}
  IN FirstOf(<<
       <<a.status, a.status \in named>>,
       <<"ALLOCATION_PENDING", a.status \in {"LENDER_ALLOCATED", "ALLOCATION_PENDING"}>>,
       <<"PAN_VERIFICATION", "pan" \notin a.has>>,
       <<"EMPLOYMENT_DETAILS", "employment" \notin a.has>>,
       <<"AADHAAR_VERIFICATION", "aadhaar" \notin a.has>>,
       <<"DRAFT", TRUE>>>>)

isTerminal(a) == AccountTerminal(a) \/ LoanTerminal(a) \/ ApplicationTerminal(a)

resolveStage(a) ==
  IF isTerminal(a) THEN "TERMINAL"
  ELSE IF a.loan # "none" THEN PostApprovalStage(a) ELSE PreApprovalStage(a)

Stages == {resolveStage(a) : a \in Lives} \ {"TERMINAL"}
Numbers == 1 .. MaxReminders
Jobs == Stages \X Numbers        \* buildReminderJobId()
Schedulers == {"transition", "scan", "enroll"}

------------------------------------------------------------------------------

VARIABLES
  life,       \* the application, its customer and its loan
  moves,      \* changes of it so far
  row,        \* plApplicationStageReminder, one row per stage
  job,        \* per job: none, delayed, or how far the worker is with it
  sched,      \* per scheduler: the call in progress
  reminded,   \* stages the customer got a message for since the application entered them
  rmFaults

rmVars == <<life, moves, row, job, sched, reminded, rmFaults>>

Stage == resolveStage(life)
NoRow == [status |-> "NONE", last |-> 0]
NoCallRm == [pc |-> "idle", stage |-> "", passes |-> 0, todo |-> {}, drop |-> <<>>]

RmInit ==
  /\ life \in {a \in Lives : ~isTerminal(a)}
  /\ moves = 0
  /\ row = [s \in Stages |-> NoRow]
  /\ job = [j \in Jobs |-> "none"]
  /\ sched = [c \in Schedulers |-> NoCallRm]
  /\ reminded = {}
  /\ rmFaults = 0

Active(s) == row[s].status = "ACTIVE"
MayStart(c) == sched[c].pc = "idle" /\ (Overlap \/ \A d \in Schedulers : sched[d].pc = "idle")
Starts(c, passes) ==
  sched' = [sched EXCEPT ![c] = [NoCallRm EXCEPT !.pc = "cancel", !.stage = Stage, !.passes = passes]]
Ends(c) == sched' = [sched EXCEPT ![c] = NoCallRm]

\* The application moves on (or back): any write of the journey that changes its stage.
applicationMoves(a) ==
  /\ moves < MaxMoves
  /\ ~isTerminal(life) /\ a # life
  /\ life' = a
  /\ moves' = moves + 1
  /\ reminded' = reminded \ {resolveStage(a)}
  /\ UNCHANGED <<row, job, sched, rmFaults>>

\* onStageTransition(): a terminal application ends its rows and leaves the jobs; another
\* one cancels the other stages and schedules, which cancels them again.
onStageTransition ==
  /\ MayStart("transition")
  /\ moves > 0
  /\ IF Stage = "TERMINAL"
       THEN /\ \E s \in Stages : Active(s)
            /\ row' = [s \in Stages |-> IF Active(s) THEN [row[s] EXCEPT !.status = "TERMINAL_STATUS"] ELSE row[s]]
            /\ UNCHANGED sched
       ELSE Starts("transition", 2) /\ UNCHANGED row
  /\ UNCHANGED <<life, moves, job, reminded, rmFaults>>

\* scanStuckApplications(): enrols an application whose stage has no active row.
scanStuckApplications ==
  /\ MayStart("scan")
  /\ Stage # "TERMINAL"
  /\ ~Active(Stage)
  /\ Starts("scan", 1)
  /\ UNCHANGED <<life, moves, row, job, reminded, rmFaults>>

\* enrollApplication(): an operator schedules the first reminder on demand.
enrollApplication ==
  /\ MayStart("enroll")
  /\ Stage # "TERMINAL"
  /\ Starts("enroll", 1)
  /\ UNCHANGED <<life, moves, row, job, reminded, rmFaults>>

\* cancelPreviousStageReminders(): the active rows of the other stages, read once.
cancelRead(c) ==
  /\ sched[c].pc = "cancel"
  /\ sched' = [sched EXCEPT ![c].pc = "cancelling",
                            ![c].todo = {<<s, row[s].last>> : s \in {s \in Stages \ {sched[c].stage} : Active(s)}}]
  /\ UNCHANGED <<life, moves, row, job, reminded, rmFaults>>

\* One of them is stopped by its id; its last job as it was read is dropped next.
cancelRow(c) ==
  /\ sched[c].pc = "cancelling" /\ sched[c].drop = <<>>
  /\ \E j \in sched[c].todo :
       /\ row' = [row EXCEPT ![j[1]].status = "STAGE_CHANGED"]
       /\ sched' = [sched EXCEPT ![c].todo = @ \ {j}, ![c].drop = j]
  /\ UNCHANGED <<life, moves, job, reminded, rmFaults>>

cancelJob(c) ==
  LET j == sched[c].drop
  IN /\ j # <<>>
     /\ job' = [i \in Jobs |-> IF i = j /\ job[i] = "delayed" THEN "none" ELSE job[i]]
     /\ sched' = [sched EXCEPT ![c].drop = <<>>]
     /\ UNCHANGED <<life, moves, row, reminded, rmFaults>>

cancelEnds(c) ==
  /\ sched[c].pc = "cancelling" /\ sched[c].todo = {} /\ sched[c].drop = <<>>
  /\ sched' = [sched EXCEPT ![c].pc = IF sched[c].passes = 2 THEN "cancel" ELSE "find",
                            ![c].passes = 1]
  /\ UNCHANGED <<life, moves, row, job, reminded, rmFaults>>

\* scheduleFirstReminder(): an active row ends the call, whatever its jobs are.
findExisting(c) ==
  /\ sched[c].pc = "find"
  /\ IF Active(sched[c].stage) THEN Ends(c)
     ELSE sched' = [sched EXCEPT ![c].pc = "upsert"]
  /\ UNCHANGED <<life, moves, row, job, reminded, rmFaults>>

upsertRow(c) ==
  /\ sched[c].pc = "upsert"
  /\ row' = [row EXCEPT ![sched[c].stage] = [status |-> "ACTIVE", last |-> 1]]
  /\ sched' = [sched EXCEPT ![c].pc = "add"]
  /\ UNCHANGED <<life, moves, job, reminded, rmFaults>>

\* queue.add() with the deterministic id.
Added(j) == [job EXCEPT ![j] = IF @ = "none" THEN "delayed" ELSE @]

addFirst(c) ==
  /\ sched[c].pc = "add"
  /\ job' \in {Added(<<sched[c].stage, 1>>)} \cup (IF LostAdds THEN {job} ELSE {})
  /\ Ends(c)
  /\ UNCHANGED <<life, moves, row, reminded, rmFaults>>

------------------------------------------------------------------------------
(* The worker. *)

\* Mutant: a reminder of a stage that has passed is dropped without a word to its row.
keepRow(s, status) == row

\* markReminderStopped()
markReminderStopped(s, status) == [row EXCEPT ![s].status = IF @ = "NONE" THEN @ ELSE status]

\* A due job reads the application; one that has left the stage stops the row and is done.
processJob(j) ==
  /\ job[j] = "delayed"
  /\ IF Stage = j[1]
       THEN job' = [job EXCEPT ![j] = "checked"] /\ UNCHANGED row
       ELSE /\ job' = [job EXCEPT ![j] = "none"]
            /\ row' = markReminderStopped(j[1], IF Stage = "TERMINAL" THEN "TERMINAL_STATUS" ELSE "STAGE_CHANGED")
  /\ UNCHANGED <<life, moves, sched, reminded, rmFaults>>

\* sendStageReminderWhatsApp(): two templates are tried; whether one was sent is not looked at.
sendStageReminderWhatsApp(j, sent) ==
  /\ job[j] = "checked"
  /\ job' = [job EXCEPT ![j] = "sent"]
  /\ reminded' = IF sent THEN reminded \cup ({j[1]} \cap {Stage}) ELSE reminded
  /\ rmFaults' = IF sent THEN rmFaults ELSE rmFaults + 1
  /\ rmFaults' <= MaxRmFaults
  /\ UNCHANGED <<life, moves, row, sched>>

\* The count is written by key, whatever the row's status is by then.
countReminder(j) ==
  /\ job[j] = "sent"
  /\ IF j[2] = MaxReminders
       THEN /\ row' = [row EXCEPT ![j[1]].status = "MAX_REACHED"]
            /\ job' = [job EXCEPT ![j] = "none"]
       ELSE /\ job' = [job EXCEPT ![j] = "counted"]
            /\ UNCHANGED row
  /\ UNCHANGED <<life, moves, sched, reminded, rmFaults>>

\* scheduleNextReminder(): the row names the next job, the queue takes it.
scheduleNextReminder(j) ==
  LET next == <<j[1], j[2] + 1>>
  IN /\ job[j] = "counted"
     /\ row' = [row EXCEPT ![j[1]].last = j[2] + 1]
     /\ \E after \in {Added(next)} \cup (IF LostAdds THEN {job} ELSE {}) :
          job' = [after EXCEPT ![j] = "none"]
     /\ UNCHANGED <<life, moves, sched, reminded, rmFaults>>

\* BullMQ: a job whose process died or whose write failed is run again from the start.
jobFails(j) ==
  /\ job[j] \in {"checked", "sent", "counted"}
  /\ rmFaults < MaxRmFaults
  /\ job' = [job EXCEPT ![j] = "delayed"]
  /\ rmFaults' = rmFaults + 1
  /\ UNCHANGED <<life, moves, row, sched, reminded>>

------------------------------------------------------------------------------

SchedulerStep ==
  \E c \in Schedulers : \/ cancelRead(c) \/ cancelRow(c) \/ cancelJob(c) \/ cancelEnds(c)
                        \/ findExisting(c) \/ upsertRow(c) \/ addFirst(c)

WorkerStep ==
  \E j \in Jobs : \/ processJob(j) \/ sendStageReminderWhatsApp(j, TRUE)
                  \/ countReminder(j) \/ scheduleNextReminder(j)

RmNext ==
  \/ \E a \in Lives : applicationMoves(a)
  \/ onStageTransition \/ scanStuckApplications \/ enrollApplication
  \/ SchedulerStep \/ WorkerStep
  \/ \E j \in Jobs : sendStageReminderWhatsApp(j, FALSE) \/ jobFails(j)

\* The scan runs every day, calls that were started end, BullMQ runs every due job.
RmFairness ==
  WF_rmVars(scanStuckApplications) /\ WF_rmVars(SchedulerStep) /\ WF_rmVars(WorkerStep)

RmSpec == RmInit /\ [][RmNext]_rmVars /\ RmFairness

RmTypeOK ==
  /\ life \in Lives
  /\ row \in [Stages -> [status : {"NONE", "ACTIVE", "STAGE_CHANGED", "TERMINAL_STATUS", "MAX_REACHED"},
                         last : 0 .. MaxReminders]]
  /\ job \in [Jobs -> {"none", "delayed", "checked", "sent", "counted"}]
  /\ reminded \subseteq Stages

\* The stage an application stays on is reminded of in the end, whatever earlier stages left
\* behind in rows and queue: the scan and the worker's stopping of stale rows see to it.
StuckIsReminded == <>[](Stage \in reminded \cup {"TERMINAL"})

\* stage-reminder.worker.ts, "Stopping all further messages.": after the last reminder a stage
\* the application has not left is not reminded of again unless an operator enrols it.
FinalIsFinal ==
  [][\A s \in Stages : row[s].status = "MAX_REACHED" /\ Stage = s /\ sched["enroll"].pc = "idle"
                         => row'[s].status # "ACTIVE"]_rmVars
==============================================================================
