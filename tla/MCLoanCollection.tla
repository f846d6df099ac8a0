----------------------------- MODULE MCLoanCollection -----------------------------
EXTENDS LoanCollection

CONSTANTS w1, w2, l1

Alone == {w1}
Together == {w1, w2}
OneLink == {l1}
NoLinks == {}

\* Jobs of the instances.
CronJobs == {"enach", "reconcile", "webhook"}
UpiJobs == {"prepare", "notify", "upi", "retry", "execute", "single", "reconcile", "webhook"}
AllUpiJobs == UpiJobs \cup {"link", "pending"}
UpiLinkJobs == {"prepare", "upi", "link"}
==================================================================================
