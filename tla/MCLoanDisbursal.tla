---------------------------- MODULE MCLoanDisbursal ----------------------------
(* Instances of LoanDisbursal for TLC. *)
EXTENDS LoanDisbursal, TLC

CONSTANTS d1, d2, d3

Report(outcome, event) == [outcome |-> outcome, event |-> event]

\* Two looks of the same disbursal and one failure report.
MixedContent == d1 :> Report("DISBURSED", 1) @@ d2 :> Report("DISBURSED", 2)
                @@ d3 :> Report("DISBURSAL_FAILED", 3)

\* Every kind of trouble.
Everything == [what \in LimitNames |-> 1]
================================================================================
