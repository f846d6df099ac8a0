------------------------------ MODULE LoanServicing ------------------------------
(***************************************************************************)
(* The life of a disbursed bullet loan after the schedule is written: the  *)
(* nightly overdue run (EasebuzzCollectionCronService), bounce and penal   *)
(* charges, the operator's charges and waivers (AdminLoanServicing-        *)
(* Controller, LoanService), the customer's loan page and its payment      *)
(* links, the waterfall of LoanService.processRepayment over interest,     *)
(* principal and charges, the mandate cancelled once the loan is paid, and *)
(* the notifications that tell the lender about all of it.                 *)
(*                                                                         *)
(* The schedule has one instalment (calculateRpsRows), due on day 1.  How  *)
(* a debit is presented and reconciled is LoanCollection's subject: here a *)
(* debit is under way or not, and succeeds or bounces.  A repayment is one *)
(* transaction.                                                            *)
(***************************************************************************)
EXTENDS Integers, Sequences, FiniteSets, Totals

CONSTANTS
  Interest, Principal,   \* of the instalment
  BounceCharge,          \* bounceChargeAmount of the product version, 0 when not configured
  PenalCharge,           \* penalChargeAmount
  OperatorCharge,        \* amount an operator enters
  WaiverAmounts,         \* amounts an operator waives
  Desks,                 \* operators' calls of waiveLoanCharge that may be under way
  PayLinks,              \* payment links the customer may open
  MandateAmount,         \* amount of the mandate, the most one debit takes
  DueDay,                \* dueDate of the instalment
  MaxDays, MaxCharges, MaxDebitRuns, MaxReruns,  \* bounds
  Instances,             \* sets of the parts that act: "desk", "night", "debit", "page",
                         \* "mandate", "lender"
  SharedCharges          \* whether a waiver's read and its transaction may be interleaved

ASSUME AmountAssumption == /\ Interest \in Nat /\ Principal \in Nat \ {0}
                           /\ BounceCharge \in Nat /\ PenalCharge \in Nat
                           /\ OperatorCharge \in Nat \ {0} /\ MandateAmount \in Nat \ {0}
                           /\ WaiverAmounts \subseteq Nat \ {0}

Instalment == Interest + Principal
NoForm == [charge |-> 0]

VARIABLES
  acting,     \* the parts that act in this behaviour
  day,        \* the calendar
  rps,        \* PlRepaymentSchedule: paid, dpd
  lstatus,    \* PlLoan.status
  charges,    \* PlLoanCharge rows by id: kind, day, amount, paid, remaining, status
  waivers,    \* PlLoanChargeWaiver rows: charge, amount, lenderNotifiedAt
  form,       \* per desk: the waiver between its read and its transaction
  debitRun,   \* the mandate debit: "none", "active", or the bounce handling it led to
  overdueRun, \* runDailyOverdueCharges: what it read, and how far it is
  links,      \* PlPaymentLink of each link, with what the gateway holds
  lpage,      \* the customer's loan page: what it shows and the link it follows
  mandateRow, \* PlLoanMandate with the bank's own state
  notes,      \* the lender's notifications: keys of the outbox rows still to be sent
  decisionStatus,  \* LenderApplicationLink.decisionStatus
  credited,   \* repayments recorded, PlRepayment
  spent       \* bounded operations so far

svVars == <<acting, day, rps, lstatus, charges, waivers, form, debitRun, overdueRun, links, lpage,
            mandateRow, notes, decisionStatus, credited, spent>>

-------------------------------------------------------------------------------
(* What the rows say *)

leftOf(p) == IF p >= Instalment THEN 0 ELSE Instalment - p
isOverdue == day > DueDay \/ rps.dpd > 0
outstanding(c) == charges[c].status \in {"PENDING", "PARTIAL"}
Smaller(a, b) == IF a < b THEN a ELSE b
waiversOf(c) == {w \in DOMAIN waivers : waivers[w].charge = c}
waivedOf(c) == Total([w \in DOMAIN waivers |-> waivers[w].amount], waiversOf(c))

\* getLoanDetails(): the schedule the page shows; a debit under way locks the instalment
\* until it is overdue.
getLoanDetails == [remaining |-> leftOf(rps.paid), locked |-> debitRun.at = "active" /\ ~isOverdue]

\* enqueue...Notification(): an outbox row under a key of its own, enqueued without waiting
\* for it; an enqueue that fails is only logged.
enqueueNotification(key) == notes' \in {notes, IF "lender" \in acting THEN notes \cup {key} ELSE notes}

\* What a waiver read is not changed before its transaction.
undisturbed == SharedCharges \/ \A d \in Desks : form[d] = NoForm

-------------------------------------------------------------------------------
(* Charges *)

\* addLoanCharge().
addLoanCharge(kind, amount) ==
  /\ Len(charges) < MaxCharges
  /\ charges' = Append(charges, [kind |-> kind, day |-> day, amount |-> amount, paid |-> 0,
                                 remaining |-> amount, status |-> "PENDING"])
  /\ enqueueNotification(<<"CHARGE", Len(charges) + 1>>)

\* addCharge() of the operators' controller.
addCharge ==
  /\ "desk" \in acting
  /\ spent.operator < MaxCharges
  /\ addLoanCharge("OTHER", OperatorCharge)
  /\ spent' = [spent EXCEPT !.operator = @ + 1]
  /\ UNCHANGED <<acting, day, rps, lstatus, waivers, form, debitRun, overdueRun, links, lpage,
                 mandateRow, decisionStatus, credited>>

\* A debit that the bank refused: the bounce charge, unless one was made today.
applyBounceChargeIfEligible ==
  /\ debitRun.at = "bounced"
  /\ debitRun' = [debitRun EXCEPT !.at = "none"]
  /\ IF \/ BounceCharge = 0
        \/ \E c \in DOMAIN charges : charges[c].kind = "BOUNCE_CHARGE" /\ charges[c].day = day
     THEN UNCHANGED <<charges, notes>>
     ELSE addLoanCharge("BOUNCE_CHARGE", BounceCharge)
  /\ UNCHANGED <<acting, day, rps, lstatus, waivers, form, overdueRun, links, lpage, mandateRow,
                 decisionStatus, credited, spent>>

\* waiveLoanCharge() as far as its reads: the charge is outstanding and covers the amount.
waiveLoanCharge(d, c, amount) ==
  /\ "desk" \in acting
  /\ form[d] = NoForm
  /\ undisturbed
  /\ outstanding(c) /\ amount <= charges[c].remaining
  /\ form' = [form EXCEPT ![d] = [charge |-> c, amount |-> amount,
                                  remaining |-> charges[c].remaining - amount,
                                  status |-> charges[c].status]]
  /\ UNCHANGED <<acting, day, rps, lstatus, charges, waivers, debitRun, overdueRun, links, lpage,
                 mandateRow, notes, decisionStatus, credited, spent>>

\* Its transaction writes what was computed from them, and records the waiver.
waiverWritten(d) ==
  /\ form[d] # NoForm
  /\ LET f == form[d] IN
       /\ charges' = [charges EXCEPT ![f.charge].remaining = f.remaining,
                                     ![f.charge].status = IF f.remaining = 0 THEN "WAIVED"
                                                          ELSE f.status]
       /\ waivers' = Append(waivers, [charge |-> f.charge, amount |-> f.amount, told |-> FALSE])
  /\ enqueueNotification(<<"CHARGE_WAIVER", Len(waivers) + 1>>)
  /\ form' = [form EXCEPT ![d] = NoForm]
  /\ UNCHANGED <<acting, day, rps, lstatus, debitRun, overdueRun, links, lpage, mandateRow,
                 decisionStatus, credited, spent>>

-------------------------------------------------------------------------------
(* The nightly run *)

\* runDailyOverdueCharges(): the unpaid instalments past their due date, read once.  The
\* cron starts it every night, an operator whenever they like; two never overlap.
runDailyOverdueCharges(by) ==
  /\ "night" \in acting
  /\ overdueRun = "idle"
  /\ \/ by = "cron" /\ spent.night < day
     \/ by = "operator" /\ spent.reruns < MaxReruns
  /\ spent' = IF by = "cron" THEN [spent EXCEPT !.night = day]
              ELSE [spent EXCEPT !.reruns = @ + 1]
  /\ overdueRun' = IF /\ day > DueDay /\ leftOf(rps.paid) > 0 /\ lstatus = "DISBURSED"
                   THEN IF rps.dpd = 0 THEN "first" ELSE "later" ELSE "idle"
  /\ UNCHANGED <<acting, day, rps, lstatus, charges, waivers, form, debitRun, links, lpage, mandateRow,
                 notes, decisionStatus, credited>>

\* Step 1: dpd from the value read; on the first day overdue it goes on to the penal charge.
dpdIncremented ==
  /\ overdueRun \in {"first", "later"}
  /\ rps' = [rps EXCEPT !.dpd = @ + 1]
  /\ overdueRun' = IF overdueRun = "first" /\ PenalCharge > 0 THEN "penal" ELSE "idle"
  /\ UNCHANGED <<acting, day, lstatus, charges, waivers, form, debitRun, links, lpage, mandateRow, notes,
                 decisionStatus, credited, spent>>

\* Step 2: the penal charge, unless the instalment has one; a failure is only logged.
penalCharged ==
  /\ overdueRun = "penal"
  /\ overdueRun' = "idle"
  /\ \/ /\ \A c \in DOMAIN charges : charges[c].kind # "PENAL_CHARGE"
        /\ addLoanCharge("PENAL_CHARGE", PenalCharge)
     \/ UNCHANGED <<charges, notes>>
  /\ UNCHANGED <<acting, day, rps, lstatus, waivers, form, debitRun, links, lpage, mandateRow,
                 decisionStatus, credited, spent>>

\* External: the process dies; the run is lost, its lock with it.
overdueRunDies ==
  /\ overdueRun # "idle"
  /\ spent.crashes < 1
  /\ spent' = [spent EXCEPT !.crashes = @ + 1]
  /\ overdueRun' = "idle"
  /\ UNCHANGED <<acting, day, rps, lstatus, charges, waivers, form, debitRun, links, lpage, mandateRow,
                 notes, decisionStatus, credited>>

-------------------------------------------------------------------------------
(* Payments: debits, and links opened from the customer's loan page *)

\* Mutant: the allocation leaves out what earlier payments and waivers took off the charge.
settledFromAmount(c, left) ==
  LET part == Smaller(left, c.remaining)
  IN  [c EXCEPT !.paid = @ + part, !.remaining = c.amount - (c.paid + part),
                !.status = IF c.remaining = part THEN "PAID" ELSE "PARTIAL"]

\* What a payment's remainder pays of one charge.
settled(c, left) ==
  LET part == Smaller(left, c.remaining)
  IN  [c EXCEPT !.paid = @ + part, !.remaining = @ - part,
                !.status = IF c.remaining = part THEN "PAID" ELSE "PARTIAL"]

\* Charges take what is left of a payment after interest and principal, oldest first: each
\* gets what those before it leave.
owedBefore(c) ==
  Total([d \in DOMAIN charges |-> charges[d].remaining], {d \in 1 .. (c - 1) : outstanding(d)})
leftFor(c, left) == left - Smaller(left, owedBefore(c))
chargesAfter(left) ==
  [c \in DOMAIN charges |-> IF outstanding(c) /\ leftFor(c, left) > 0
                            THEN settled(charges[c], leftFor(c, left)) ELSE charges[c]]

\* processRepayment(): refused on a paid instalment, else interest, principal, charges; the
\* paid instalment closes the loan and sends for the mandate's cancellation.
processRepayment(amount) ==
  IF leftOf(rps.paid) = 0
  THEN UNCHANGED <<rps, lstatus, charges, mandateRow, notes, credited>>
  ELSE /\ rps' = [rps EXCEPT !.paid = @ + amount]
       /\ charges' = chargesAfter(IF amount > leftOf(rps.paid) THEN amount - leftOf(rps.paid) ELSE 0)
       /\ credited' = credited + 1
       /\ enqueueNotification(<<"REPAYMENT", credited + 1>>)
       /\ IF leftOf(rps.paid + amount) = 0
          THEN /\ lstatus' = "FULLY_PAID"
               /\ mandateRow' = [mandateRow EXCEPT !.ask = TRUE]
          ELSE UNCHANGED <<lstatus, mandateRow>>

\* LoanCollection: a debit of what remains is presented while the mandate stands, and ends.
debitPresented ==
  /\ "debit" \in acting
  /\ debitRun.at = "none" /\ day >= DueDay
  /\ leftOf(rps.paid) > 0 /\ mandateRow.status = "AUTHORIZED"
  /\ spent.debits < MaxDebitRuns
  /\ spent' = [spent EXCEPT !.debits = @ + 1]
  /\ debitRun' = [at |-> "active", amount |-> Smaller(leftOf(rps.paid), MandateAmount)]
  /\ UNCHANGED <<acting, day, rps, lstatus, charges, waivers, form, overdueRun, links, lpage, mandateRow,
                 notes, decisionStatus, credited>>

debitAnswered(ok) ==
  /\ debitRun.at = "active" /\ undisturbed
  /\ debitRun' = [debitRun EXCEPT !.at = IF ok THEN "none" ELSE "bounced"]
  /\ IF ok THEN processRepayment(debitRun.amount)
     ELSE UNCHANGED <<rps, lstatus, charges, mandateRow, notes, credited>>
  /\ UNCHANGED <<acting, day, waivers, form, overdueRun, links, lpage, decisionStatus, spent>>

\* The page: fetchDetails(), on opening and on refresh.
fetchDetails ==
  /\ "page" \in acting
  /\ lpage' = [lpage EXCEPT !.shown = getLoanDetails]
  /\ lpage' # lpage
  /\ UNCHANGED <<acting, day, rps, lstatus, charges, waivers, form, debitRun, overdueRun, links,
                 mandateRow, notes, decisionStatus, credited, spent>>

\* handleOpenPayModal() and handleExecutePayment() up to initiateRepaymentPayment(): the page
\* refuses a locked instalment, the server a paid one and one under debit on its due date;
\* the link is for what the page showed, at most what remains.
handleExecutePayment(l) ==
  /\ "page" \in acting
  /\ ~lpage.shown.locked /\ lpage.shown.remaining > 0 /\ lpage.link = "none"
  /\ links[l].status = "none"
  /\ leftOf(rps.paid) > 0
  /\ isOverdue \/ debitRun.at # "active"
  /\ links' = [links EXCEPT ![l] = [status |-> "INITIATED", gateway |-> "open",
                                    amount |-> Smaller(lpage.shown.remaining, leftOf(rps.paid))]]
  /\ lpage' = [lpage EXCEPT !.link = l, !.says = "processing"]
  /\ UNCHANGED <<acting, day, rps, lstatus, charges, waivers, form, debitRun, overdueRun, mandateRow,
                 notes, decisionStatus, credited, spent>>

\* External: the customer completes the checkout, or gives it up; the page may be closed.
checkoutEnds(l, ok) ==
  /\ links[l].gateway = "open"
  /\ links' = [links EXCEPT ![l].gateway = IF ok THEN "paid" ELSE "dropped"]
  /\ lpage' = IF ok \/ lpage.link # l THEN lpage ELSE [lpage EXCEPT !.link = "none", !.says = ""]
  /\ UNCHANGED <<acting, day, rps, lstatus, charges, waivers, form, debitRun, overdueRun, mandateRow,
                 notes, decisionStatus, credited, spent>>

\* handleEasebuzzWebhook(): the link becomes SUCCESS in one transaction; processRepayment()
\* follows it, and its failure, or the process's death in between, is not made up for.
linkPaid(l) ==
  /\ links[l].status = "INITIATED" /\ links[l].gateway = "paid" /\ undisturbed
  /\ links' = [links EXCEPT ![l].status = "SUCCESS"]
  /\ \/ processRepayment(links[l].amount) /\ UNCHANGED spent
     \/ /\ spent.crashes < 1
        /\ spent' = [spent EXCEPT !.crashes = @ + 1]
        /\ UNCHANGED <<rps, lstatus, charges, mandateRow, notes, credited>>
  /\ UNCHANGED <<acting, day, waivers, form, debitRun, overdueRun, lpage, decisionStatus>>

\* pollRepaymentStatus() on confirmRepaymentStatus(): it reads the link, never the ledger.
pollRepaymentStatus ==
  /\ lpage.link # "none" /\ links[lpage.link].gateway = "paid"
  /\ lpage' = [shown |-> getLoanDetails, link |-> "none",
               says |-> IF links[lpage.link].status = "SUCCESS" THEN "completed" ELSE "verifying"]
  /\ UNCHANGED <<acting, day, rps, lstatus, charges, waivers, form, debitRun, overdueRun, links,
                 mandateRow, notes, decisionStatus, credited, spent>>

-------------------------------------------------------------------------------
(* The mandate and the lender *)

\* updateMandateStatus(): the bank ends the mandate or not; the answer is a success, a failure,
\* or a server error after which the mandate's status is fetched, found ended or not learned.
bankAnswers ==
  {[ended |-> TRUE, says |-> "success"], [ended |-> TRUE, says |-> "unverified"],
   [ended |-> FALSE, says |-> "unverified"], [ended |-> FALSE, says |-> "failed"]}

\* cancelMandateForLoan(): after the loan was paid, or for an operator at any time.  A paid
\* loan's mandate is cancelled only when no instalment is open.
cancelMandateForLoan(by) ==
  /\ "mandate" \in acting
  /\ mandateRow.status = "AUTHORIZED"
  /\ \/ by = "paid" /\ mandateRow.ask /\ leftOf(rps.paid) = 0
     \/ by = "operator" /\ spent.cancels < 1
  /\ \E a \in bankAnswers :
       mandateRow' = [status |-> IF a.says = "success" THEN "CANCELLED" ELSE "AUTHORIZED",
                      note   |-> IF a.says = "success" THEN "" ELSE a.says,
                      bank   |-> IF a.ended THEN "ended" ELSE mandateRow.bank,
                      ask    |-> IF by = "paid" THEN FALSE ELSE mandateRow.ask]
  /\ spent' = IF by = "operator" THEN [spent EXCEPT !.cancels = @ + 1] ELSE spent
  /\ UNCHANGED <<acting, day, rps, lstatus, charges, waivers, form, debitRun, overdueRun, links, lpage,
                 notes, decisionStatus, credited>>

\* processRepaymentNotify(), processChargeNotify(), processChargeWaiverNotify(): the lender
\* acknowledges, the row is completed and the waiver stamped.
notified(key) ==
  /\ key \in notes
  /\ notes' = notes \ {key}
  /\ waivers' = IF key[1] = "CHARGE_WAIVER" THEN [waivers EXCEPT ![key[2]].told = TRUE] ELSE waivers
  /\ UNCHANGED <<acting, day, rps, lstatus, charges, form, debitRun, overdueRun, links, lpage,
                 mandateRow, decisionStatus, credited, spent>>

\* The call fails: markStageFailure() has no column for these stages and writes the
\* decision's; the row is retried or given up.
notificationFails(key) ==
  /\ key \in notes
  /\ \/ notes' = notes \ {key} /\ decisionStatus' = "FAILED"
     \/ notes' = notes /\ decisionStatus' = "RETRY_PENDING"
  /\ UNCHANGED <<acting, day, rps, lstatus, charges, waivers, form, debitRun, overdueRun, links, lpage,
                 mandateRow, credited, spent>>

nextDay ==
  /\ day < MaxDays /\ overdueRun = "idle"
  /\ day' = day + 1
  /\ UNCHANGED <<acting, rps, lstatus, charges, waivers, form, debitRun, overdueRun, links, lpage,
                 mandateRow, notes, decisionStatus, credited, spent>>

-------------------------------------------------------------------------------

\* A loan just disbursed, its mandate authorized.
SvInit ==
  /\ acting \in Instances
  /\ day = 0 /\ rps = [paid |-> 0, dpd |-> 0] /\ lstatus = "DISBURSED"
  /\ charges = <<>> /\ waivers = <<>> /\ form = [d \in Desks |-> NoForm]
  /\ debitRun = [at |-> "none", amount |-> 0] /\ overdueRun = "idle"
  /\ links = [l \in PayLinks |-> [status |-> "none", gateway |-> "none", amount |-> 0]]
  /\ lpage = [shown |-> getLoanDetails, link |-> "none", says |-> ""]
  /\ mandateRow = [status |-> "AUTHORIZED", note |-> "", bank |-> "active", ask |-> FALSE]
  /\ notes = {} /\ decisionStatus = "COMPLETED" /\ credited = 0
  /\ spent = [operator |-> 0, night |-> 0, reruns |-> 0, debits |-> 0, crashes |-> 0, cancels |-> 0]

SvNext ==
  \/ addCharge \/ applyBounceChargeIfEligible \/ dpdIncremented \/ penalCharged \/ overdueRunDies
  \/ \E d \in Desks : waiverWritten(d) \/ \E c \in DOMAIN charges, n \in WaiverAmounts :
                                            waiveLoanCharge(d, c, n)
  \/ \E by \in {"cron", "operator"} : runDailyOverdueCharges(by)
  \/ debitPresented \/ (\E ok \in BOOLEAN : debitAnswered(ok))
  \/ fetchDetails \/ pollRepaymentStatus
  \/ \E l \in PayLinks : \/ handleExecutePayment(l) \/ linkPaid(l)
                         \/ \E ok \in BOOLEAN : checkoutEnds(l, ok)
  \/ \E by \in {"paid", "operator"} : cancelMandateForLoan(by)
  \/ \E key \in notes : notified(key) \/ notificationFails(key)
  \/ nextDay

SvSpec == SvInit /\ [][SvNext]_svVars

-------------------------------------------------------------------------------
(* Properties *)

\* Every rupee of a charge is collected, waived or still outstanding, whatever order payments
\* (LoanService.processRepayment) and waivers (waiveLoanCharge) come in, and the status says
\* which: a charge is closed exactly when nothing remains.
ChargeAccounted ==
  \A c \in DOMAIN charges :
    /\ charges[c].amount = charges[c].paid + charges[c].remaining + waivedOf(c)
    /\ outstanding(c) <=> charges[c].remaining > 0
    /\ charges[c].status = "PENDING" => charges[c].paid = 0

\* dpd counts the days the instalment is past due ("Runs every night ... Increments the dpd
\* counter by 1").
DpdIsDaysPastDue == rps.dpd <= (IF day > DueDay THEN day - DueDay ELSE 0)

\* A notification that fails leaves the lender's decision alone.
ServicingKeepsDecision == decisionStatus = "COMPLETED"

\* "the loan itself is fully repaid": a FULLY_PAID loan owes no charge.
ClosedOwesNothing == lstatus = "FULLY_PAID" => \A c \in DOMAIN charges : ~outstanding(c)

\* The page says a payment is completed only when it was recorded.
CompletedIsCredited == lpage.says = "completed" => credited > 0
==================================================================================
