--------------------------------- MODULE Messaging ---------------------------------
(***************************************************************************)
(* Automatic messages to a customer on three channels: calls by a voice    *)
(* agent (IvrService, IvrAutomationService), SMS (SmsService,              *)
(* SmsAutomationService) and WhatsApp (WhatsAppService,                    *)
(* WhatsAppAutomationService), sent by events of the loan, by crons and    *)
(* after a call.                                                           *)
(*                                                                         *)
(* Time goes in half days, day and night.  A call's cooldown is read from  *)
(* the call log; those of SMS and WhatsApp are kept in the memory of each  *)
(* process (two API servers and a worker run the crons and the events).    *)
(* A trigger checks the cooldown, waits for the database, and sends.       *)
(***************************************************************************)
EXTENDS Naturals, FiniteSets

CONSTANTS
  Scopes,          \* which customers, channels and part of the life an instance is about
  Servers,         \* API processes
  Batch,           \* rows a cron takes (take: 30, 50 or 100)
  Lookback         \* half days after which an application is too old for a follow-up (30 days)

VARIABLES
  scope,      \* customers (the numbers of their rows), channels, first and last life, and
              \* the bounds on failed sends and restarts
  life,       \* per customer: where the application and the loan are
  idle,       \* half days since updatedAt
  daytime,    \* within calling and messaging hours
  ran,        \* crons that ran in this half day
  left,       \* per cron: the rows of its snapshot still to do
  tasks,      \* triggers past their cooldown check
  cool,       \* cooldownCache, per process: half days left per key
  called,     \* per customer and call type: half days since the last logged call
  call,       \* per customer: the newest call's type and status
  texted,     \* half days since the last pending-step SMS was delivered
  stray,      \* WhatsApp messages that did not fit the customer's life when they were sent
  msgSpent    \* faults and restarts so far

msgVars == <<scope, life, idle, daytime, ran, left, tasks, cool, called, call, texted, stray,
             msgSpent>>

Worker == "worker"
Processes == Servers \cup {Worker}
Crons == {"smsPending", "smsDue", "waPending", "waDue", "ivrStuck", "ivrDue"}
Messages == {"APPROVED", "DISBURSED", "FULLY_PAID", "EMI_DUE", "PENDING"}
NoneYet == 2                    \* longer ago than any call cooldown
LongAgo == 6                    \* cap on the age of a text
NoCallYet == [type |-> "none", status |-> "none"]

channelOf(k) == IF k \in {"smsPending", "smsDue"} THEN "sms"
                ELSE IF k \in {"waPending", "waDue"} THEN "wa" ELSE "ivr"
messageOf(k) == IF k \in {"smsDue", "waDue", "ivrDue"} THEN "EMI_DUE" ELSE "PENDING"

Keys == (scope.chans \ {"ivr"}) \X Messages \X scope.custs

-------------------------------------------------------------------------------
(* Cooldowns *)

\* Mutant: SMS cooldowns of two days, like the one of a disbursal on WhatsApp.
cooldownOfTwoDays(ch, msg) == IF ch = "sms" THEN 4 ELSE 2

\* Hours of a message's cooldown, in half days.  The daily WhatsApp follow-up finds its own
\* 24 hours not quite over the next day.
cooldownOf(ch, msg) ==
  IF ch = "sms" THEN 2
  ELSE CASE msg = "DISBURSED" -> 4 [] msg = "FULLY_PAID" -> 6 [] msg = "PENDING" -> 3
         [] OTHER -> 2

\* isCooldownActive(): the process's own map.
isCooldownActive(p, key) == cool[p][key] > 0

\* isCallOnCooldown(): logged calls of the type within a day, of any type within half a day.
isCallOnCooldown(msg, c) ==
  IF msg = "PENDING" THEN \E m \in Messages : called[c][m] < 1 ELSE called[c][msg] < 2

onCooldown(p, ch, msg, c) ==
  IF ch = "ivr" THEN isCallOnCooldown(msg, c) ELSE isCooldownActive(p, <<ch, msg, c>>)

-------------------------------------------------------------------------------
(* Triggers *)

Task(p, ch, msg, c, from) == [proc |-> p, ch |-> ch, msg |-> msg, cust |-> c, from |-> from]

\* The first half of a trigger: disabled channels and cooldowns end it.
started(p, ch, msg, c, from) ==
  IF ch \in scope.chans /\ ~onCooldown(p, ch, msg, c) THEN {Task(p, ch, msg, c, from)} ELSE {}

fits(msg, c) ==
  CASE msg = "EMI_DUE" -> life[c] = "disbursed"
    [] msg = "FULLY_PAID" -> life[c] = "closed"
    [] msg = "PENDING" -> life[c] \in {"applying", "approved"}
    [] OTHER -> TRUE

\* triggerEmiDueReminderWhatsApp(): reads the instalment again; a paid one gets no reminder.
triggerEmiDueReminderWhatsApp(c) == life[c] = "disbursed"

\* triggerLoanFullyPaidWhatsApp(): only a closed loan.
triggerLoanFullyPaidWhatsApp(c) == life[c] = "closed"

\* triggerLoanApprovedWhatsApp(), triggerLoanDisbursedWhatsApp(), triggerPendingStepWhatsApp():
\* the row and its mobile number, whatever the status by now.
triggerLoanApprovedWhatsApp(c) == TRUE
triggerLoanDisbursedWhatsApp(c) == TRUE
triggerPendingStepWhatsApp(c) == TRUE

whatsAppAllows(msg, c) ==
  CASE msg = "EMI_DUE" -> triggerEmiDueReminderWhatsApp(c)
    [] msg = "FULLY_PAID" -> triggerLoanFullyPaidWhatsApp(c)
    [] msg = "APPROVED" -> triggerLoanApprovedWhatsApp(c)
    [] msg = "DISBURSED" -> triggerLoanDisbursedWhatsApp(c)
    [] OTHER -> triggerPendingStepWhatsApp(c)

\* triggerLoanApprovedSms(), triggerLoanDisbursedSms() and the SMS crons check nothing again.
smsAllows(msg, c) == TRUE

allowed(t) == IF t.ch = "wa" THEN whatsAppAllows(t.msg, t.cust) ELSE smsAllows(t.msg, t.cust)

noteStray(t) ==
  stray' = IF t.ch # "wa" \/ fits(t.msg, t.cust) THEN stray ELSE stray \cup {t.msg}

\* sendTemplateMessage(), sendGatewaySms(): delivered, and only then the cooldown is set.
delivered(t) ==
  LET key == <<t.ch, t.msg, t.cust>>
  IN  /\ cool' = [cool EXCEPT ![t.proc][key] = cooldownOf(t.ch, t.msg)]
      /\ texted' = IF t.ch = "sms" /\ t.msg = "PENDING" THEN [texted EXCEPT ![t.cust] = 0]
                   ELSE texted
      /\ noteStray(t)
      /\ UNCHANGED msgSpent

sendFails ==
  /\ msgSpent.faults < scope.faults
  /\ msgSpent' = [msgSpent EXCEPT !.faults = @ + 1]
  /\ UNCHANGED <<cool, texted, stray>>

notSent == UNCHANGED <<cool, texted, stray, msgSpent>>

\* The second half of an SMS or WhatsApp trigger.
messageSent(t) ==
  /\ t \in tasks /\ t.ch # "ivr"
  /\ tasks' = tasks \ {t}
  /\ IF allowed(t) THEN delivered(t) \/ sendFails ELSE notSent
  /\ UNCHANGED <<scope, life, idle, daytime, ran, left, called, call>>

\* deriveCustomerPendingStep(): the call type of a stuck customer's step.  The follow-up, KYC,
\* document, mandate and e-sign types differ only in what the agent says.
deriveCustomerPendingStep(c) ==
  CASE life[c] = "applying" -> {"STEP_PENDING"}
    [] life[c] = "approved" -> {"LOAN_APPROVAL", "STEP_PENDING"}
    [] OTHER -> {"DISBURSEMENT_CONFIRMATION"}

\* buildIvrCustomerContext(): what the voice agent is told to talk about.
buildIvrCustomerContext(msg, c) ==
  CASE msg = "APPROVED" -> {"LOAN_APPROVAL"}
    [] msg = "DISBURSED" -> {"DISBURSEMENT_CONFIRMATION"}
    [] msg = "FULLY_PAID" -> {"REPEAT_LOAN_OFFER"}
    [] msg = "EMI_DUE" -> {"EMI_REMINDER"}
    [] OTHER -> deriveCustomerPendingStep(c)

\* makeCall(): the provider is called, then the call is logged; a log that fails is a warning.
makeCall(t) ==
  /\ t \in tasks /\ t.ch = "ivr"
  /\ tasks' = tasks \ {t}
  /\ \/ /\ \E type \in buildIvrCustomerContext(t.msg, t.cust) :
             call' = [call EXCEPT ![t.cust] = [type |-> type, status |-> "INITIATED"]]
        /\ called' = [called EXCEPT ![t.cust][t.msg] = 0]
        /\ noteStray(t) /\ UNCHANGED <<cool, texted, msgSpent>>
     \/ sendFails /\ UNCHANGED <<called, call>>
  /\ UNCHANGED <<scope, life, idle, daytime, ran, left>>

-------------------------------------------------------------------------------
(* Events of the loan *)

triggered(p, msg, c) == UNION {started(p, ch, msg, c, "event") : ch \in {"ivr", "sms", "wa"}}

\* A loan is created from an approval: call, SMS and WhatsApp.
loanApproved(p, c) ==
  /\ life[c] = "applying" /\ scope.to # "applying"
  /\ life' = [life EXCEPT ![c] = "approved"] /\ idle' = [idle EXCEPT ![c] = 0]
  /\ tasks' = tasks \cup triggered(p, "APPROVED", c)
  /\ UNCHANGED <<scope, daytime, ran, left, cool, called, call, texted, stray, msgSpent>>

loanDisbursed(p, c) ==
  /\ life[c] = "approved" /\ scope.to # "approved"
  /\ life' = [life EXCEPT ![c] = "disbursed"] /\ idle' = [idle EXCEPT ![c] = 0]
  /\ tasks' = tasks \cup triggered(p, "DISBURSED", c)
  /\ UNCHANGED <<scope, daytime, ran, left, cool, called, call, texted, stray, msgSpent>>

\* The last repayment: a call and WhatsApp.
loanFullyPaid(p, c) ==
  /\ life[c] = "disbursed" /\ scope.to # "disbursed"
  /\ life' = [life EXCEPT ![c] = "closed"] /\ idle' = [idle EXCEPT ![c] = 0]
  /\ tasks' = tasks \cup UNION {started(p, ch, "FULLY_PAID", c, "event") : ch \in {"ivr", "wa"}}
  /\ UNCHANGED <<scope, daytime, ran, left, cool, called, call, texted, stray, msgSpent>>

applicationRejected(c) ==
  /\ life[c] = "applying" /\ scope.to # "applying"
  /\ life' = [life EXCEPT ![c] = "rejected"] /\ idle' = [idle EXCEPT ![c] = 0]
  /\ UNCHANGED <<scope, daytime, ran, left, tasks, cool, called, call, texted, stray, msgSpent>>

-------------------------------------------------------------------------------
(* Calls reported by the provider *)

\* handlePostIvrWhatsAppDispatch(): the template that goes with the call, unless this report
\* carries a refusal.
handlePostIvrWhatsAppDispatch(p, c) ==
  LET type == call[c].type
  IN  CASE type = "LOAN_APPROVAL" -> started(p, "wa", "APPROVED", c, "call")
        [] type = "DISBURSEMENT_CONFIRMATION" -> started(p, "wa", "DISBURSED", c, "call")
        [] type = "EMI_REMINDER" ->
             IF life[c] = "disbursed" THEN started(p, "wa", "EMI_DUE", c, "call") ELSE {}
        [] type = "REPEAT_LOAN_OFFER" -> started(p, "wa", "FULLY_PAID", c, "call")
        [] OTHER -> started(p, "wa", "PENDING", c, "call")

\* handleWebhook(): the status as reported; a completed and an analysed call both send.
handleWebhook(p, c) ==
  /\ call[c].status \in {"INITIATED", "STARTED", "COMPLETED"}
  /\ \E status \in CASE call[c].status = "INITIATED" -> {"STARTED", "NO_ANSWER"}
                     [] call[c].status = "STARTED" -> {"COMPLETED", "FAILED"}
                     [] OTHER -> {"ANALYSED"} :
       \E refusal \in BOOLEAN :
         /\ call' = [call EXCEPT ![c].status = status]
         /\ tasks' = IF status \in {"COMPLETED", "ANALYSED"} /\ ~refusal
                     THEN tasks \cup handlePostIvrWhatsAppDispatch(p, c) ELSE tasks
  /\ UNCHANGED <<scope, life, idle, daytime, ran, left, cool, called, texted, stray, msgSpent>>

-------------------------------------------------------------------------------
(* Crons, in the worker *)

firstOf(rows) == {c \in rows : Cardinality({d \in rows : d < c}) < Batch}

\* cronPendingStepFollowUp() of SMS: neither rejected nor closed, idle for three hours, not
\* older than the lookback; those on cooldown and those disbursed fill the batch too.
smsPendingRows ==
  firstOf({c \in scope.custs : life[c] \notin {"rejected", "closed"} /\ idle[c] \in 1..Lookback})

\* cronPendingStepFollowUp() of WhatsApp: applications before the approval, oldest first.
waPendingRows == firstOf({c \in scope.custs : life[c] = "applying" /\ idle[c] >= 1})

\* cronStuckCustomerFollowUp(): idle for three to twenty-four hours.
ivrStuckRows ==
  firstOf({c \in scope.custs : life[c] \notin {"rejected", "closed"} /\ idle[c] \in 1..2})

\* cronDueReminders() of the three services: pending instalments of disbursed loans.
dueRows == firstOf({c \in scope.custs : life[c] = "disbursed"})

rowsOf(k) ==
  CASE k = "smsPending" -> smsPendingRows
    [] k = "waPending" -> waPendingRows
    [] k = "ivrStuck" -> ivrStuckRows
    [] OTHER -> dueRows

cronStarts(k) ==
  /\ daytime /\ k \notin ran /\ left[k] = {} /\ channelOf(k) \in scope.chans
  /\ ran' = ran \cup {k}
  /\ left' = [left EXCEPT ![k] = rowsOf(k)]
  /\ UNCHANGED <<scope, life, idle, daytime, tasks, cool, called, call, texted, stray, msgSpent>>

\* One row after the other; of the snapshot, a disbursed loan gets no follow-up.
cronRow(k) ==
  /\ left[k] # {} /\ ~\E t \in tasks : t.from = k
  /\ LET c == CHOOSE x \in left[k] : \A y \in left[k] : x <= y
         skipped == messageOf(k) = "PENDING" /\ life[c] \in {"disbursed", "closed"} /\ k # "waPending"
     IN  /\ left' = [left EXCEPT ![k] = @ \ {c}]
         /\ tasks' = IF skipped THEN tasks
                     ELSE tasks \cup started(Worker, channelOf(k), messageOf(k), c, k)
  /\ UNCHANGED <<scope, life, idle, daytime, ran, cool, called, call, texted, stray, msgSpent>>

-------------------------------------------------------------------------------
(* Time and processes *)

\* Half a day passes, every cron of the day having run and finished.
halfDay ==
  /\ tasks = {} /\ \A k \in Crons : left[k] = {}
  /\ daytime => \A k \in Crons : channelOf(k) \in scope.chans => k \in ran
  /\ daytime' = ~daytime /\ ran' = {}
  /\ idle' = [c \in scope.custs |-> IF idle[c] > Lookback THEN idle[c] ELSE idle[c] + 1]
  /\ cool' = [p \in Processes |-> [k \in Keys |-> IF cool[p][k] = 0 THEN 0 ELSE cool[p][k] - 1]]
  /\ called' = [c \in scope.custs |->
                 [m \in Messages |-> IF called[c][m] = NoneYet THEN NoneYet ELSE called[c][m] + 1]]
  /\ texted' = [c \in scope.custs |-> IF texted[c] = LongAgo THEN LongAgo ELSE texted[c] + 1]
  /\ UNCHANGED <<scope, life, left, tasks, call, stray, msgSpent>>

\* The customer does something: updatedAt.
customerActs(c) ==
  /\ life[c] \in {"applying", "approved"} /\ idle[c] > 0
  /\ idle' = [idle EXCEPT ![c] = 0]
  /\ UNCHANGED <<scope, life, daytime, ran, left, tasks, cool, called, call, texted, stray,
                 msgSpent>>

\* A process restarts: its triggers and its cooldowns are gone.
processRestarts(p) ==
  /\ msgSpent.restarts < scope.restarts
  /\ msgSpent' = [msgSpent EXCEPT !.restarts = @ + 1]
  /\ tasks' = {t \in tasks : t.proc # p}
  /\ left' = IF p = Worker THEN [k \in Crons |-> {}] ELSE left
  /\ cool' = [cool EXCEPT ![p] = [k \in Keys |-> 0]]
  /\ UNCHANGED <<scope, life, idle, daytime, ran, called, call, texted, stray>>

-------------------------------------------------------------------------------
MsgInit ==
  /\ scope \in Scopes
  /\ life = [c \in scope.custs |-> scope.from] /\ idle = [c \in scope.custs |-> 0]
  /\ daytime = TRUE /\ ran = {} /\ left = [k \in Crons |-> {}] /\ tasks = {}
  /\ cool = [p \in Processes |-> [k \in Keys |-> 0]]
  /\ called = [c \in scope.custs |-> [m \in Messages |-> NoneYet]]
  /\ call = [c \in scope.custs |-> NoCallYet]
  /\ texted = [c \in scope.custs |-> LongAgo]
  /\ stray = {} /\ msgSpent = [faults |-> 0, restarts |-> 0]

messagingWork ==
  \/ \E t \in tasks : messageSent(t) \/ makeCall(t)
  \/ \E k \in Crons : cronStarts(k) \/ cronRow(k)

MsgNext ==
  \/ messagingWork \/ halfDay
  \/ \E c \in scope.custs :
       \/ applicationRejected(c) \/ customerActs(c)
       \/ \E p \in Servers : \/ loanApproved(p, c) \/ loanDisbursed(p, c) \/ loanFullyPaid(p, c)
                             \/ handleWebhook(p, c)
  \/ \E p \in Processes : processRestarts(p)

MsgSpec == MsgInit /\ [][MsgNext]_msgVars

-------------------------------------------------------------------------------
\* No WhatsApp reminder of an instalment that is paid, and no offer of a repeat loan before the
\* loan is closed, whatever the crons' snapshots and the reports of calls say
\* (triggerEmiDueReminderWhatsApp(), triggerLoanFullyPaidWhatsApp()).
WhatsAppFits == stray \cap {"EMI_DUE", "FULLY_PAID"} = {}

\* A customer who stays stuck is texted within a day and again every day, until the
\* application moves on or is too old; a failed send or a restart costs a day.  The SMS cron:
\* "If application remains pending after 24 hours, sends the follow-up again."
StuckIsFollowedUp ==
  "sms" \in scope.chans =>
    \A c \in scope.custs :
      life[c] \in {"applying", "approved"} /\ idle[c] <= Lookback
        => \/ idle[c] <= 2 + 2 * (msgSpent.faults + msgSpent.restarts)
           \/ texted[c] <= 2 + 2 * (msgSpent.faults + msgSpent.restarts)

\* No follow-up of a pending step to an applicant who is rejected or paid out.
FollowUpFits == "PENDING" \notin stray

=====================================================================================
