--------------------------------- MODULE MCBank ----------------------------------
(***************************************************************************)
(* The two parts of the journey that wait for a bank: the statement from   *)
(* the account aggregator, and the steps after the approval with the       *)
(* mandate.  A behaviour exercises one of them, chosen initially; the      *)
(* other rests in a state in which nothing is left to do.                  *)
(***************************************************************************)
EXTENDS BankStatement, PostApproval

VARIABLE part

bankVars == <<part, aaVars, paVars>>

\* The journey is complete, its mandate authorised in the first attempt, and closed.
PaResting ==
  /\ paLoan = [offer |-> TRUE, kyc |-> TRUE, address |-> TRUE, bank |-> TRUE, kfs |-> TRUE,
               mandate |-> TRUE, esign |-> TRUE, cancelled |-> FALSE, requested |-> TRUE]
  /\ paRejected = FALSE
  /\ paRow = [a \in Attempts |-> IF a = 1 THEN "AUTHORIZED" ELSE "none"]
  /\ paBank = [a \in Attempts |-> IF a = 1 THEN "authorized" ELSE "none"]
  /\ paInbox = {} /\ paNotices = {} /\ paFaults = 0
  /\ paTab = [t \in PaTabs |-> [pc |-> "closed", seen |-> paLoan, auth |-> TRUE,
                                step |-> "APPROVAL_SUMMARY", call |-> NoCall]]

\* No statement has been asked for: AaInit is at rest itself.
BankInit ==
  /\ part \in {"statement", "mandate"}
  /\ IF part = "mandate" THEN PaInit ELSE PaResting
  /\ AaInit

BankNext ==
  \/ part = "statement" /\ AaNext /\ UNCHANGED <<part, paVars>>
  \/ part = "mandate" /\ PaNext /\ UNCHANGED <<part, aaVars>>

BankSpec ==
  /\ BankInit /\ [][BankNext]_bankVars
  /\ AaFairness /\ PaFairness
==================================================================================
