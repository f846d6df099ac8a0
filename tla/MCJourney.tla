-------------------------------- MODULE MCJourney --------------------------------
(***************************************************************************)
(* The customer's pages: the application journey, the session their        *)
(* requests run under, and the provider tokens the server obtains for      *)
(* them.  A behaviour exercises one of the three, chosen initially; the    *)
(* others rest in a state in which nothing is left to do.                  *)
(***************************************************************************)
EXTENDS ApplicationJourney, CustomerSession, ProviderTokens

VARIABLE part

journeyVars == <<part, jnVars, sessVars, tokenVars>>

\* The application is approved and the page waits for the loan.
JnResting ==
  /\ jnApps = <<[NewApp EXCEPT !.status = "LENDER_APPROVED", !.emp = TRUE, !.live = TRUE, !.kyc = TRUE,
                               !.perm = TRUE, !.curr = TRUE, !.aa = TRUE, !.consents = TRUE]>>
  /\ jnCust = [aadhaar |-> TRUE, residence |-> TRUE, photo |-> TRUE]
  /\ jnPage = [t \in JnTabs |-> [step |-> "integration_processing", photo |-> TRUE, call |-> "none"]]
  /\ jnWait = 0

\* The customer has logged out.
SessResting ==
  /\ tokens = <<[Fresh EXCEPT !.revoked = TRUE]>>
  /\ revoked = "LOGOUT" /\ cookie = 0 /\ stored = FALSE
  /\ call = [p \in Pages |-> NoCall]
  /\ lost = 0

JourneyInit ==
  /\ part \in {"journey", "session", "tokens"}
  /\ IF part = "journey" THEN JnInit ELSE JnResting
  /\ IF part = "session" THEN SessInit ELSE SessResting
  /\ TokenInit

JourneyNext ==
  \/ part = "journey" /\ JnNext /\ UNCHANGED <<part, sessVars, tokenVars>>
  \/ part = "session" /\ SessNext /\ UNCHANGED <<part, jnVars, tokenVars>>
  \/ part = "tokens" /\ TokenNext /\ UNCHANGED <<part, jnVars, sessVars>>

JourneySpec ==
  JourneyInit /\ [][JourneyNext]_journeyVars /\ JnFairness /\ SessFairness /\ TokenFairness
==================================================================================
