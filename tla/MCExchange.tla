-------------------------------- MODULE MCExchange --------------------------------
(***************************************************************************)
(* Exchanges with parties outside: a request to the lender, the partner's  *)
(* API with its webhooks, DigiLocker, the payment gateway of the fee, and  *)
(* the reminders to a customer who has stopped.                            *)
(* A behaviour exercises one of them, chosen initially; the others rest in *)
(* a state in which nothing is left to do.                                 *)
(***************************************************************************)
EXTENDS LenderExchange, PartnerApi, AadhaarKyc, AssessmentFee, StageReminder

VARIABLE part

exchangeVars == <<part, exVars, apiVars, akVars, feeVars, rmVars>>

\* The event failed for good on a wrong setting.
ExResting ==
  /\ stage = "CREATE" /\ transfer = "none" /\ wrong = {"path"}
  /\ fact = [f \in ExFacts |-> 1]
  /\ event = [status |-> "FAILED", attempts |-> 1, token |-> 0]
  /\ runner = [w \in Runners |-> IdleRunner]
  /\ holds = <<>> /\ recorded = NoBody
  /\ tally = [troubles |-> 0, edits |-> 0, deaths |-> 0, final |-> FALSE]

\* The identity is verified and both addresses are saved.
AkResting ==
  /\ akCustomer = [verified |-> TRUE, status |-> "VERIFIED", session |-> 1]
  /\ akKyc = [status |-> "VERIFIED", session |-> 1]
  /\ akSnap = [kyc |-> TRUE, permanent |-> TRUE, current |-> TRUE]
  /\ akDocs = [aadhaar |-> TRUE, photo |-> TRUE, live |-> TRUE]
  /\ digitap = [s \in KycSessions |-> IF s = 1 THEN "done" ELSE "unused"]
  /\ akHooks = {} /\ akJobs = {} /\ akLost = 0
  /\ akPage = [open |-> 0, callback |-> FALSE, verified |-> TRUE]
  /\ akFace = "NONE" /\ liveness = "VERIFIED"
  /\ camera = [t \in PhotoTabs |-> [st |-> "off", live |-> FALSE]]

\* The application was rejected before anything was scheduled.
RmResting ==
  /\ life \in {a \in Lives : isTerminal(a)}
  /\ moves = 0 /\ reminded = {} /\ rmFaults = 0
  /\ row = [s \in Stages |-> NoRow]
  /\ job = [j \in Jobs |-> "none"]
  /\ sched = [c \in Schedulers |-> NoCallRm]

\* One thing at most is missing or wrong when the event is enqueued.
OneFlaw == wrong = {} \/ \A f \in ExFacts : fact[f] = 1

ExchangeInit ==
  /\ part \in {"lender", "partner", "kyc", "fee", "reminder"}
  /\ IF part = "lender" THEN ExInit /\ OneFlaw ELSE ExResting
  /\ IF part = "kyc" THEN AkInit ELSE AkResting
  /\ IF part = "reminder" THEN RmInit ELSE RmResting
  /\ ApiInit /\ FeeInit

ExchangeNext ==
  \/ part = "lender" /\ ExNext /\ UNCHANGED <<part, apiVars, akVars, feeVars, rmVars>>
  \/ part = "partner" /\ ApiNext /\ UNCHANGED <<part, exVars, akVars, feeVars, rmVars>>
  \/ part = "kyc" /\ AkNext /\ UNCHANGED <<part, exVars, apiVars, feeVars, rmVars>>
  \/ part = "fee" /\ FeeNext /\ UNCHANGED <<part, exVars, apiVars, akVars, rmVars>>
  \/ part = "reminder" /\ RmNext /\ UNCHANGED <<part, exVars, apiVars, akVars, feeVars>>

ExchangeSpec ==
  /\ ExchangeInit /\ [][ExchangeNext]_exchangeVars
  /\ ExFairness /\ AkFairness /\ FeeFairness /\ RmFairness

\* No fact, or one of them, is missing; no setting, or one of them, is wrong.
MCGaps == {{}} \cup {{f} : f \in ExFacts}
MCSetups == {{}} \cup {{x} : x \in {"inactive", "path", "secret", "host", "url", "scheme"}}

\* An application's life: a draft, an approved loan, a rejection.
Record(status, loan, step, done, has) ==
  [account |-> "ACTIVE", status |-> status, loan |-> loan, step |-> step, done |-> done, has |-> has]
MCLives == {Record("DRAFT", "none", "", {}, {}),
            Record("LENDER_APPROVED", "OFFER_ACCEPTED", "DIGILOCKER_KYC", {"tenure"}, {"pan"}),
            Record("LENDER_REJECTED", "none", "", {}, {})}
===================================================================================
