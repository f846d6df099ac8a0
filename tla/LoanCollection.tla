----------------------------- MODULE LoanCollection -----------------------------
(***************************************************************************)
(* Collecting the one instalment of a bullet loan.  The morning crons, the *)
(* operators and the reconciliation cron (EasebuzzCollectionCronService)   *)
(* drive mandate debits through Easebuzz; the customer may pay by a link   *)
(* (LoanService.initiateRepaymentPayment); webhooks report debits          *)
(* (LoanService.handleEasebuzzMandateWebhook) and link payments            *)
(* (PlPaymentsService.handleEasebuzzWebhook); every success ends in        *)
(* LoanService.processRepayment.                                           *)
(*                                                                         *)
(* A worker is one call or cron run in one process; it goes from await to  *)
(* await with what it read.  Transactions read a snapshot (MySQL,          *)
(* REPEATABLE READ) and write by id.                                       *)
(***************************************************************************)
EXTENDS Integers, FiniteSets, FiniteSetsExt, Totals

CONSTANTS
  Workers,      \* calls and cron runs that may overlap
  Links,        \* payment links
  Jobs,         \* the operations of this instance
  MandateType,  \* "ENACH" or "UPI"
  Emi,          \* emi of the instalment
  MandateLimit, \* amount of the mandate
  MaxAttempts,  \* EASEBUZZ_MAX_DEBIT_ATTEMPTS
  MaxDebits,    \* bound on debit rows
  MaxRuns,      \* bound on operations started
  MaxCrashes,   \* bound on operations that die
  Overdue       \* the due date has passed

ASSUME AmountsAssumption == Emi \in Nat \ {0} /\ MandateLimit \in Nat \ {0}
ASSUME DebitsAssumption == MaxDebits \in Nat \ {0} /\ MaxAttempts \in 1..MaxDebits
ASSUME LinksAssumption == IsFiniteSet(Links)

Attempts == 1..MaxDebits
Active == {"IN_PROCESS", "UNKNOWN", "SUBMITTING"}
RowStatus == Active \cup {"absent", "NOTIFIED", "SUCCESS", "FAILURE"}
\* A payment: a debit by its merchant request number, or a link by its txnid.
Debit(n) == <<"debit", n>>
Link(l) == <<"link", l>>
PaymentIds == {Debit(n) : n \in Attempts} \cup {Link(l) : l \in Links}

VARIABLES
  paid,      \* PlRepaymentSchedule.paidAmount
  closed,    \* PlLoan FULLY_PAID and PlApplication LOAN_CLOSED
  ledger,    \* PlRepayment: id (paymentId), ref (referenceNumber), amount
  debit,     \* EasebuzzDebitRequest by attempt number
  mandate,   \* whether the mandate is active, at the bank and in PlLoanMandate
  bank,      \* external: what became of each merchant request number, for how much, under
             \* which notification
  link,      \* PlPaymentLink: status and amount
  gateway,   \* external: the links the customer paid
  inbox,     \* PlWebhookInbox: one row per provider transaction
  worker,    \* the operations under way
  used       \* operations started and died

vars == <<paid, closed, ledger, debit, mandate, bank, link, gateway, inbox, worker, used>>

Remaining(p) == IF p >= Emi THEN 0 ELSE Emi - p
DebitAmount(p) == IF Remaining(p) < MandateLimit THEN Remaining(p) ELSE MandateLimit

Rows == {n \in Attempts : debit[n].status # "absent"}
ActiveRows == {n \in Attempts : debit[n].status \in Active}
NextAttempt == Cardinality(Rows) + 1

\* notif: the attempt whose pre-debit notification the row carries, 0 for none.
NoRow == [status |-> "absent", amount |-> 0, notif |-> 0]
NoSnap == [paid |-> 0, ledger |-> {}]
Idle == [pc |-> "idle", job |-> "none", n |-> 1, amount |-> 0, answer |-> "none",
         notif |-> 0, id |-> Debit(1), ref |-> Debit(1), snap |-> NoSnap]

Init ==
  /\ paid = 0
  /\ closed = FALSE
  /\ ledger = {}
  /\ debit = [n \in Attempts |-> NoRow]
  /\ bank = [n \in Attempts |-> [state |-> "none", amount |-> 0, notif |-> 0]]
  /\ mandate = "active"
  /\ link = [l \in Links |-> [status |-> "absent", amount |-> 0]]
  /\ gateway = {}
  /\ inbox = {}
  /\ worker = [w \in Workers |-> Idle]
  /\ used = [runs |-> 0, crashes |-> 0]

(***************************************************************************)
(* The client, EasebuzzAutoCollectService.  A post is accepted, refused in *)
(* the body of the answer, refused with a 4xx, or unclear (no answer, or a *)
(* 5xx); an unclear one may have arrived.                                  *)
(***************************************************************************)
Posts == [arrived : {TRUE}, http : {"accepted", "unclear"}]
         \cup [arrived : {FALSE}, http : {"refused", "4xx", "unclear"}]

\* `success`, `isUnknown` or neither, as the callers write it on the row.
initiateEnachPresentment(post) ==
  CASE post.http = "accepted" -> "IN_PROCESS"
    [] post.http = "unclear" -> "UNKNOWN"
    [] OTHER -> "FAILURE"

\* The bases are tried in turn until one is clear, and the last answer is returned: a base
\* that refuses the number hides that an unclear one before it took the debit.
executeUpiOrSiDebit ==
  Posts \cup {[arrived |-> a.arrived \/ b.arrived, http |-> b.http] :
              a \in {post \in Posts : post.http = "unclear"}, b \in Posts}

\* A refusal in the body leaves no error behind and counts as unknown.
sendUpiPreDebitNotification(http) ==
  CASE http = "accepted" -> "NOTIFIED"
    [] http = "4xx" -> "FAILURE"
    [] OTHER -> "UNKNOWN"

retrieveMandate == {mandate, "ServiceUnavailable"}
\* `isActive`: a mandate that cannot be looked up counts as not active.
getMandateStatus == {answer = "active" : answer \in retrieveMandate}

\* The provider's entries of a query, or none when the query fails.
getDebitRequests(entries) == {entries, {}}

\* An idle worker starts `job` in state s.
Start(w, job, s) ==
  /\ job \in Jobs /\ worker[w] = Idle
  /\ job # "reconcile" => used.runs < MaxRuns      \* the half-hourly cron never stops
  /\ used' = IF job = "reconcile" THEN used ELSE [used EXCEPT !.runs = @ + 1]
  /\ worker' = [worker EXCEPT ![w] = [s EXCEPT !.job = job]]
Goto(w, pc) == worker' = [worker EXCEPT ![w].pc = pc]
Finish(w) == worker' = [worker EXCEPT ![w] = Idle]

(***************************************************************************)
(* runDueEnachCollections(): the due instalments are read once for the     *)
(* batch, their debits one by one.                                         *)
(***************************************************************************)
readDue(w) ==
  /\ MandateType = "ENACH" /\ mandate = "active" /\ ~closed /\ DebitAmount(paid) > 0
  /\ Start(w, "enach", [Idle EXCEPT !.pc = "due", !.amount = DebitAmount(paid)])
  /\ UNCHANGED <<paid, closed, ledger, debit, mandate, bank, link, gateway, inbox>>

\* Mutant: a SUCCESS row is no reason to skip, the schedule is trusted for that.
BlockingActiveOnly == ActiveRows

\* `['SUCCESS', 'IN_PROCESS', 'UNKNOWN', 'SUBMITTING'].includes(d.status)`
Blocking == {n \in Attempts : debit[n].status \in Active \cup {"SUCCESS"}}

chooseAttempt(w) ==
  /\ worker[w].pc = "due"
  /\ IF Blocking # {} \/ Cardinality(Rows) >= MaxAttempts
     THEN Finish(w)
     ELSE worker' = [worker EXCEPT ![w].pc = "create", ![w].n = NextAttempt]
  /\ UNCHANGED <<paid, closed, ledger, debit, mandate, bank, link, gateway, inbox, used>>

\* The row of the attempt; merchantRequestNumber is unique.
createDebit(w) ==
  LET n == worker[w].n IN
  /\ worker[w].pc = "create"
  /\ IF debit[n].status # "absent"
     THEN Finish(w) /\ UNCHANGED debit
     ELSE /\ debit' = [debit EXCEPT ![n] = [status |-> "SUBMITTING", amount |-> worker[w].amount,
                                            notif |-> worker[w].notif]]
          /\ Goto(w, IF MandateType = "UPI" /\ worker[w].notif = 0 THEN "notify" ELSE "submit")
  /\ UNCHANGED <<paid, closed, ledger, mandate, bank, link, gateway, inbox, used>>

\* The debit is presented.  External: a request number the provider knows is not debited
\* again.  retryDebit() sends no notification number, and takes a refusal that mentions the
\* notification for IN_PROCESS.
present(w, post) ==
  LET n == worker[w].n
      retried == worker[w].job = "retry"
  IN /\ worker[w].pc = "submit"
     /\ post \in IF MandateType = "UPI" THEN executeUpiOrSiDebit ELSE Posts
     /\ post.arrived => mandate = "active"
     /\ bank' = IF post.arrived /\ bank[n].state = "none"
                THEN [bank EXCEPT ![n] = [state |-> "pending", amount |-> worker[w].amount,
                                          notif |-> IF retried THEN 0 ELSE worker[w].notif]]
                ELSE bank
     /\ \E answer \in {initiateEnachPresentment(post)}
                       \cup {s \in {"IN_PROCESS"} : /\ retried /\ worker[w].notif # 0
                                                    /\ post.http \in {"refused", "4xx"}} :
          worker' = [worker EXCEPT ![w].pc = "answered", ![w].answer = answer]
     /\ UNCHANGED <<paid, closed, ledger, debit, mandate, link, gateway, inbox, used>>

\* The answer is written over whatever the row became meanwhile.
recordAnswer(w) ==
  /\ worker[w].pc = "answered"
  /\ debit' = [debit EXCEPT ![worker[w].n].status = worker[w].answer]
  /\ Finish(w)
  /\ UNCHANGED <<paid, closed, ledger, mandate, bank, link, gateway, inbox, used>>

\* External: the bank collects or bounces a presented debit.
bankSettles(n, outcome) ==
  /\ bank[n].state = "pending"
  /\ bank' = [bank EXCEPT ![n].state = outcome]
  /\ UNCHANGED <<paid, closed, ledger, debit, mandate, link, gateway, inbox, worker, used>>

\* The mandate ends: cancelMandateForLoan() once the loan is fully paid, an administrator,
\* or the customer at the bank.  The first is not awaited and may fail.
mandateEnds ==
  /\ mandate = "active"
  /\ mandate' = "cancelled"
  /\ UNCHANGED <<paid, closed, ledger, debit, bank, link, gateway, inbox, worker, used>>

\* getMandateStatus() says the mandate is not active, or the notification was not sent.
giveUp(w) ==
  /\ \/ worker[w].pc \in {"due", "rows", "decide"} /\ FALSE \in getMandateStatus
     \/ worker[w].pc = "tell"
  /\ Finish(w)
  /\ UNCHANGED <<paid, closed, ledger, debit, mandate, bank, link, gateway, inbox, used>>

(***************************************************************************)
(* UPI: the customer is notified first, the debit is executed later.       *)
(***************************************************************************)
\* prepareDueUpiCollections() for attempt 1, sendPreDebitNotification() for the active row
\* or the next attempt; the notification has gone out.
readForNotification(w, job) ==
  LET n == IF job = "notify" /\ ActiveRows # {} THEN Max(ActiveRows)
           ELSE IF job = "notify" THEN NextAttempt ELSE 1
  IN /\ MandateType = "UPI" /\ mandate = "active" /\ DebitAmount(paid) > 0 /\ n \in Attempts
     /\ job = "prepare" => ~closed
     /\ Start(w, job, [Idle EXCEPT !.pc = "tell", !.n = n, !.amount = DebitAmount(paid),
                                   !.answer = IF n \in Rows /\ job = "notify" THEN "update"
                                              ELSE "create"])
     /\ UNCHANGED <<paid, closed, ledger, debit, mandate, bank, link, gateway, inbox>>

storeNotification(w) ==
  LET n == worker[w].n IN
  /\ worker[w].pc = "tell"
  /\ debit' = CASE worker[w].answer = "update" ->
                     [debit EXCEPT ![n].status = "NOTIFIED", ![n].notif = n]
                [] worker[w].answer = "create" /\ debit[n].status = "absent" ->
                     [debit EXCEPT ![n] = [status |-> "NOTIFIED", amount |-> worker[w].amount,
                                           notif |-> n]]
                [] OTHER -> debit
  /\ Finish(w)
  /\ UNCHANGED <<paid, closed, ledger, mandate, bank, link, gateway, inbox, used>>

\* runDueUpiOrSiExecutions(): the notified rows, whatever the instalment still owes.
findNotified(w, n) ==
  /\ debit[n].status = "NOTIFIED"
  /\ Start(w, "upi", [Idle EXCEPT !.pc = "found", !.n = n, !.amount = debit[n].amount,
                                !.notif = debit[n].notif])
  /\ UNCHANGED <<paid, closed, ledger, debit, mandate, bank, link, gateway, inbox>>

\* updateMany({ where: { id, status: req.status } })
claimNotified(w) ==
  LET n == worker[w].n IN
  /\ worker[w].pc = "found"
  /\ IF debit[n].status = "NOTIFIED"
     THEN debit' = [debit EXCEPT ![n].status = "SUBMITTING"] /\ Goto(w, "submit")
     ELSE Finish(w) /\ UNCHANGED debit
  /\ UNCHANGED <<paid, closed, ledger, mandate, bank, link, gateway, inbox, used>>

\* The row is given up when the mandate is not active, or cannot be looked up; retryDebit()
\* looks once more before it executes.
mandateRevoked(w) ==
  /\ \/ worker[w].pc = "found"
     \/ worker[w].pc = "submit" /\ worker[w].job = "retry" /\ MandateType = "UPI"
  /\ FALSE \in getMandateStatus
  /\ debit' = [debit EXCEPT ![worker[w].n].status = "FAILURE"]
  /\ Finish(w)
  /\ UNCHANGED <<paid, closed, ledger, mandate, bank, link, gateway, inbox, used>>

(***************************************************************************)
(* executeMandate() and retryDebit(): reconcile the active debit, then     *)
(* submit it again or open the next attempt.                               *)
(***************************************************************************)
readInstallment(w, job) ==
  /\ mandate = "active" /\ DebitAmount(paid) > 0
  /\ Start(w, job, [Idle EXCEPT !.pc = "rows", !.amount = DebitAmount(paid)])
  /\ UNCHANGED <<paid, closed, ledger, debit, mandate, bank, link, gateway, inbox>>

readDebits(w) ==
  /\ worker[w].pc = "rows" /\ ActiveRows # {}
  /\ worker' = [worker EXCEPT ![w].pc = "ask", ![w].n = Max(ActiveRows)]
  /\ UNCHANGED <<paid, closed, ledger, debit, mandate, bank, link, gateway, inbox, used>>

\* The notification these calls find: that of the active row, else of the last row that
\* has one; retryDebit wants that row in submission.
Notification(job) ==
  LET carrying == {n \in Rows : /\ debit[n].notif # 0
                                /\ job = "retry" => debit[n].status \in {"SUBMITTING", "IN_PROCESS"}}
  IN IF ActiveRows # {} /\ debit[Max(ActiveRows)].notif # 0 THEN debit[Max(ActiveRows)].notif
     ELSE IF carrying # {} THEN debit[Max(carrying)].notif ELSE 0

decide(w) ==
  LET job == worker[w].job
      notif == IF MandateType = "UPI" THEN Notification(job) ELSE 0
      n == IF ActiveRows = {} THEN NextAttempt ELSE Max(ActiveRows)
  IN /\ worker[w].pc = "decide" \/ (worker[w].pc = "rows" /\ ActiveRows = {})
     /\ TRUE \in getMandateStatus
     /\ n \in Attempts
     /\ IF MandateType = "UPI" /\ job = "execute" /\ notif = 0
        THEN Finish(w)
        ELSE worker' = [worker EXCEPT
               ![w].n = n, ![w].notif = notif,
               ![w].pc = CASE ActiveRows = {} -> "create"
                           [] ActiveRows # {} /\ MandateType = "UPI" /\ notif = 0 -> "notify"
                           [] OTHER -> "submit"]
     /\ UNCHANGED <<paid, closed, ledger, debit, mandate, bank, link, gateway, inbox, used>>

\* retryDebit() without a notification sends one and stops there.
notifyCustomer(w, http) ==
  /\ worker[w].pc = "notify"
  /\ debit' = [debit EXCEPT ![worker[w].n].status = sendUpiPreDebitNotification(http),
                            ![worker[w].n].notif = IF http = "accepted" THEN worker[w].n ELSE @]
  /\ Finish(w)
  /\ UNCHANGED <<paid, closed, ledger, mandate, bank, link, gateway, inbox, used>>

(***************************************************************************)
(* Reconciliation: the cron over unresolved rows, the single row of an     *)
(* operator's call.                                                        *)
(***************************************************************************)
\* Mutant: only IN_PROCESS rows are looked up.
readPendingInProcess(w, n) ==
  /\ debit[n].status = "IN_PROCESS"
  /\ Start(w, "reconcile", [Idle EXCEPT !.pc = "ask", !.n = n])
  /\ UNCHANGED <<paid, closed, ledger, debit, mandate, bank, link, gateway, inbox>>

readPending(w, n) ==
  /\ debit[n].status \in {"IN_PROCESS", "UNKNOWN"}
  /\ Start(w, "reconcile", [Idle EXCEPT !.pc = "ask", !.n = n])
  /\ UNCHANGED <<paid, closed, ledger, debit, mandate, bank, link, gateway, inbox>>

\* reconcileRpsDebit(): the latest row, whatever its status.
readLatest(w) ==
  /\ Rows # {}
  /\ Start(w, "single", [Idle EXCEPT !.pc = "ask", !.n = Max(Rows)])
  /\ UNCHANGED <<paid, closed, ledger, debit, mandate, bank, link, gateway, inbox>>

\* The entry taken for the row: the cron falls back to the notification, then to the
\* mandate's list, and takes the first entry when none matches; any of the queries may fail.
Known == {m \in Attempts : bank[m].state # "none"}
SameNotification(n) == {m \in Known : bank[m].notif # 0 /\ bank[m].notif = debit[n].notif}
Matches(w) ==
  LET n == worker[w].n
      own == {n} \cap Known
      same == own \cup SameNotification(n)
  IN IF worker[w].job # "reconcile" THEN own ELSE IF same # {} THEN same ELSE Known

AfterReconcile(job) == IF job \in {"retry", "execute"} THEN "decide" ELSE "idle"

\* The queries failed or found nothing, or nothing final yet.
askInVain(w) ==
  /\ worker[w].pc = "ask"
  /\ \E found \in getDebitRequests(Matches(w)) : found = {} \/ \E m \in found : bank[m].state = "pending"
  /\ IF AfterReconcile(worker[w].job) = "idle" THEN Finish(w) ELSE Goto(w, "decide")
  /\ UNCHANGED <<paid, closed, ledger, debit, mandate, bank, link, gateway, inbox, used>>

markFailure(w, m) ==
  /\ worker[w].pc = "ask" /\ m \in Matches(w) /\ bank[m].state = "bounced"
  /\ debit' = [debit EXCEPT ![worker[w].n].status = "FAILURE"]
  /\ IF AfterReconcile(worker[w].job) = "idle" THEN Finish(w) ELSE Goto(w, "decide")
  /\ UNCHANGED <<paid, closed, ledger, mandate, bank, link, gateway, inbox, used>>

\* The row is SUCCESS before the repayment is tried; a failure of that is only logged.
markSuccess(w, m) ==
  LET n == worker[w].n IN
  /\ worker[w].pc = "ask" /\ m \in Matches(w) /\ bank[m].state = "collected"
  /\ debit' = [debit EXCEPT ![n].status = "SUCCESS"]
  /\ worker' = [worker EXCEPT ![w].pc = "credit", ![w].id = Debit(n), ![w].ref = Debit(m),
                              ![w].amount = debit[n].amount]
  /\ UNCHANGED <<paid, closed, ledger, mandate, bank, link, gateway, inbox, used>>

(***************************************************************************)
(* processRepayment().                                                     *)
(***************************************************************************)
readLedger(w) ==
  /\ worker[w].pc = "credit"
  /\ worker' = [worker EXCEPT ![w].pc = "crediting",
                              ![w].snap = [paid |-> paid, ledger |-> ledger]]
  /\ UNCHANGED <<paid, closed, ledger, debit, mandate, bank, link, gateway, inbox, used>>

\* Mutant: only the payment id is looked up.
DuplicateById(s, id, ref) == \E r \in s.ledger : r.id = id

\* The idempotency guard, by referenceNumber and by paymentId, on the snapshot.
Duplicate(s, id, ref) == \E r \in s.ledger : r.ref = ref \/ r.id = id

commitRepayment(w) ==
  LET t == worker[w]
      refused == Remaining(t.snap.paid) = 0          \* "is already fully paid"
      taken == \E r \in ledger : r.id = t.id         \* paymentId is unique
  IN /\ t.pc = "crediting"
     /\ IF refused \/ Duplicate(t.snap, t.id, t.ref) \/ taken
        THEN UNCHANGED <<paid, closed, ledger>>
        ELSE /\ ledger' = ledger \cup {[id |-> t.id, ref |-> t.ref, amount |-> t.amount]}
             /\ paid' = t.snap.paid + t.amount
             /\ closed' = (closed \/ Remaining(paid') = 0)
     /\ IF t.job = "webhook" THEN Goto(w, "closing") ELSE Finish(w)
     /\ UNCHANGED <<debit, mandate, bank, link, gateway, inbox, used>>

(***************************************************************************)
(* The presentment webhook.  Its transaction holds the inbox row of the    *)
(* provider's id, so two deliveries of it do not overlap; the repayment    *)
(* commits on its own, before the transaction does.                        *)
(***************************************************************************)
ReportedRows(n) == {n} \cup {r \in Rows : bank[n].notif # 0 /\ debit[r].notif = bank[n].notif}

readReport(w, n) ==
  /\ bank[n].state = "collected" /\ Debit(n) \notin inbox
  /\ \A v \in Workers : worker[v].job = "webhook" => worker[v].id # Debit(n)
  /\ \E r \in ReportedRows(n) :
       Start(w, "webhook", [Idle EXCEPT !.pc = "credit", !.n = r, !.id = Debit(n),
                                        !.ref = Debit(n), !.amount = debit[r].amount])
  /\ UNCHANGED <<paid, closed, ledger, debit, mandate, bank, link, gateway, inbox>>

closeReport(w) ==
  /\ worker[w].pc = "closing"
  /\ debit' = [debit EXCEPT ![worker[w].n].status = "SUCCESS"]
  /\ inbox' = inbox \cup {worker[w].id}
  /\ Finish(w)
  /\ UNCHANGED <<paid, closed, ledger, mandate, bank, link, gateway, used>>

\* A bounce, or a report that is not final: the inbox row is spent either way.
otherReport(n) ==
  /\ "webhook" \in Jobs
  /\ bank[n].state \in {"pending", "bounced"} /\ Debit(n) \notin inbox
  /\ inbox' = inbox \cup {Debit(n)}
  /\ IF bank[n].state = "bounced"
     THEN \E r \in ReportedRows(n) : debit' = [debit EXCEPT ![r].status = "FAILURE"]
     ELSE UNCHANGED debit
  /\ UNCHANGED <<paid, closed, ledger, mandate, bank, link, gateway, worker, used>>

(***************************************************************************)
(* Payment links.                                                          *)
(***************************************************************************)
\* Nothing reads a link before it is paid, so the checks and the create are one step.  The
\* statuses that keep the customer from paying by hand on the due date; of the rows
\* this service writes, the active ones.
initiateRepaymentPayment(l, amount) ==
  /\ "link" \in Jobs
  /\ link[l].status = "absent"
  /\ amount \in 1..Remaining(paid)
  /\ Overdue \/ ActiveRows = {}
  /\ link' = [link EXCEPT ![l] = [status |-> "INITIATED", amount |-> amount]]
  /\ UNCHANGED <<paid, closed, ledger, debit, mandate, bank, gateway, inbox, worker, used>>

\* External: the customer pays.
customerPays(l) ==
  /\ link[l].status # "absent" /\ l \notin gateway
  /\ gateway' = gateway \cup {l}
  /\ UNCHANGED <<paid, closed, ledger, debit, mandate, bank, link, inbox, worker, used>>

\* handleEasebuzzWebhook(): one inbox row per txnid; a report that finds it is dropped.
linkPending(l) ==
  /\ link[l].status # "absent" /\ l \notin gateway /\ Link(l) \notin inbox
  /\ "pending" \in Jobs
  /\ inbox' = inbox \cup {Link(l)}
  /\ link' = [link EXCEPT ![l].status = "PENDING"]
  /\ UNCHANGED <<paid, closed, ledger, debit, mandate, bank, gateway, worker, used>>

\* The success commits with the link; the repayment follows outside the transaction.
linkSuccess(w, l) ==
  /\ l \in gateway /\ Link(l) \notin inbox
  /\ Start(w, "link", [Idle EXCEPT !.pc = "credit", !.id = Link(l), !.ref = Link(l),
                                   !.amount = link[l].amount])
  /\ inbox' = inbox \cup {Link(l)}
  /\ link' = [link EXCEPT ![l].status = "SUCCESS"]
  /\ UNCHANGED <<paid, closed, ledger, debit, mandate, bank, gateway>>

\* A worker dies; what its open transaction did is gone.
crash(w) ==
  /\ worker[w].pc # "idle" /\ used.crashes < MaxCrashes
  /\ used' = [used EXCEPT !.crashes = @ + 1]
  /\ Finish(w)
  /\ UNCHANGED <<paid, closed, ledger, debit, mandate, bank, link, gateway, inbox>>

StartStep(w) ==
  \/ readDue(w)
  \/ \E job \in {"prepare", "notify"} : readForNotification(w, job)
  \/ \E n \in Attempts : findNotified(w, n) \/ readPending(w, n) \/ readReport(w, n)
  \/ \E job \in {"retry", "execute"} : readInstallment(w, job)
  \/ readLatest(w)
  \/ \E l \in Links : linkSuccess(w, l)
GoOn(w) ==
  \/ chooseAttempt(w) \/ createDebit(w) \/ recordAnswer(w)
  \/ \E post \in [arrived : BOOLEAN, http : {"accepted", "refused", "4xx", "unclear"}] :
       present(w, post)
  \/ storeNotification(w) \/ claimNotified(w) \/ mandateRevoked(w) \/ giveUp(w) \/ readDebits(w) \/ decide(w)
  \/ \E http \in {"accepted", "refused", "4xx", "unclear"} : notifyCustomer(w, http)
  \/ askInVain(w)
  \/ \E m \in Attempts : markFailure(w, m) \/ markSuccess(w, m)
  \/ readLedger(w) \/ commitRepayment(w) \/ closeReport(w)

Next ==
  \/ \E w \in Workers : StartStep(w) \/ GoOn(w) \/ crash(w)
  \/ \E n \in Attempts : \/ \E outcome \in {"collected", "bounced"} : bankSettles(n, outcome)
                         \/ otherReport(n)
  \/ mandateEnds
  \/ \E l \in Links : \/ \E amount \in 1..Emi : initiateRepaymentPayment(l, amount)
                      \/ customerPays(l)
                      \/ linkPending(l)

Spec == Init /\ [][Next]_vars

(***************************************************************************)
(* Properties.                                                             *)
(***************************************************************************)
\* Rows, payments and links stay in their domains; no debit or repayment is for more than
\* the instalment.
TypeOK ==
  /\ paid \in Nat /\ closed \in BOOLEAN
  /\ ledger \subseteq [id : PaymentIds, ref : PaymentIds, amount : 1..Emi]
  /\ debit \in [Attempts -> [status : RowStatus, amount : 0..Emi, notif : 0..MaxDebits]]
  /\ mandate \in {"active", "cancelled"}
  /\ bank \in [Attempts -> [state : {"none", "pending", "collected", "bounced"},
                            amount : 0..Emi, notif : 0..MaxDebits]]
  /\ link \in [Links -> [status : {"absent", "INITIATED", "PENDING", "SUCCESS"}, amount : 0..Emi]]
  /\ gateway \subseteq Links /\ inbox \subseteq PaymentIds
  /\ used \in [runs : 0..MaxRuns, crashes : 0..MaxCrashes]

CollectedDebits == {n \in Attempts : bank[n].state = "collected"}
\* What the customer has paid, by mandate and by link.
Collected == Total([n \in Attempts |-> bank[n].amount], CollectedDebits)
             + Total([l \in Links |-> link[l].amount], gateway)

\* The instalment is never credited with more than the customer paid, although webhooks, the
\* reconciliation cron, an operator's call and a link may report the same or different
\* payments together, and the cron may settle a row by another row's entry at the bank.  It fails
\* of a mandate that exceeds what a link leaves owed: executeMandate() presents a row again for
\* what is owed now and reconciliation credits the amount the row carries.
NeverOvercredited == paid <= Collected

\* The customer never pays more than the instalment.  It holds of the morning cron, its
\* overlaps, crashes and stale batch reads; it fails once links and notified UPI debits mix
\* ("block manual payment to prevent double deduction", initiateRepaymentPayment), and when a
\* UPI execution is refused by one base URL after another took it.
CollectedOnce == Collected <= Emi

\* No UPI debit reaches the bank before a notification of the customer was stored
\* ("Requires that the customer has already been notified if UPI mandate", executeMandate).
NotifiedFirst ==
  MandateType = "UPI" => \A n \in Attempts : bank[n].state # "none" => \E m \in Rows : debit[m].notif # 0

\* A notification announces one debit: "mandate will be executed automatically at 6:00 AM
\* IST or on demand" (sendPreDebitNotification), not both.
OneDebitPerNotification ==
  \A m, n \in Attempts : m # n /\ bank[m].notif # 0 => bank[m].notif # bank[n].notif

\* Every repayment of the ledger is in paidAmount, once ("Exact-once processing via
\* interactive transaction and row-level locking", the mandate webhook).
RepaymentsCounted == paid = Total([r \in ledger |-> r.amount], ledger)

(***************************************************************************)
(* Fairness: a call goes on until it ends (or its process dies), the bank  *)
(* settles what was presented, the half-hourly reconciliation takes up     *)
(* every row that stays unresolved, and its queries do not fail for ever.  *)
(***************************************************************************)
FairSpec ==
  /\ Spec
  /\ \A w \in Workers : WF_vars(GoOn(w))
  /\ \A n \in Attempts :
       /\ WF_vars(\E outcome \in {"collected", "bounced"} : bankSettles(n, outcome))
       /\ SF_vars(\E w \in Workers : readPending(w, n))
       /\ SF_vars(\E w \in Workers, m \in Attempts :
                    worker[w].n = n /\ (markFailure(w, m) \/ markSuccess(w, m)))

\* A debit the provider knows is settled in the end, whatever was timed out, overwritten by
\* a late answer or dropped with a dead process.
DebitResolved ==
  \A n \in Attempts :
    debit[n].status \in {"IN_PROCESS", "UNKNOWN"} /\ bank[n].state # "none"
      ~> debit[n].status \in {"SUCCESS", "FAILURE"}

\* "Debit request status is UNKNOWN (network timeout/provider 5xx). It will be resolved by
\* reconciliation." (executeMandate, retryDebit)
UnknownResolved ==
  \A n \in Attempts : debit[n].status = "UNKNOWN" ~> debit[n].status # "UNKNOWN"

\* A debit confirmed SUCCESS is credited, or finds the instalment paid ("triggers repayment
\* allocation exactly once", the reconciliation test).
DebitAllocated ==
  \A n \in Attempts : debit[n].status = "SUCCESS"
                        ~> Remaining(paid) = 0 \/ \E r \in ledger : Debit(n) \in {r.id, r.ref}

\* A link marked SUCCESS is credited, or finds the instalment paid: a retry on failure "via
\* Easebuzz's own webhook retry or a reconciliation job" (handleEasebuzzWebhook).
LinkCredited ==
  \A l \in Links : link[l].status = "SUCCESS"
                     ~> Remaining(paid) = 0 \/ \E r \in ledger : r.id = Link(l)
================================================================================
