--------------------------------- MODULE MCOffice ---------------------------------
(***************************************************************************)
(* What the back office keeps and what is computed from it - catalogues,   *)
(* allocation, policies, offers - and the PAN check, the signature, the    *)
(* servicing of a loan and the messages to its customer.  A behaviour      *)
(* exercises one of them, chosen initially, while the others stay as they  *)
(* start.                                                                  *)
(***************************************************************************)
EXTENDS MakerChecker, LenderAllocation, PolicyEvaluation, PreApprovalOffer, PanVerification,
        ElectronicSign, LoanServicing, Messaging

VARIABLE part

officeVars == <<part, mcVars, laVars, peVars, ofVars, panVars, esVars, svVars, msgVars>>

OfficeInit ==
  /\ part \in {"catalogue", "allocation", "policy", "offer", "pan", "signature", "servicing",
               "messages"}
  /\ McInit
  /\ part # "catalogue" => kind = "lender" /\ versions[1] = Draft(CHOOSE u \in Operators : TRUE, 1)
  /\ LaInit
  /\ part # "allocation" => ready = {} /\ sticky = [a \in Apps |-> "none"]
  /\ PeInit
  /\ part # "policy" => facts = CHOOSE f \in Facts : TRUE
  /\ OfInit
  /\ part # "offer" => /\ strategy = CHOOSE c \in Configs : TRUE
                       /\ loans = 0
                       /\ limit = CHOOSE l \in Limits : TRUE
  /\ PanInit
  /\ EsInit
  /\ SvInit
  /\ part # "servicing" => acting = CHOOSE i \in Instances : TRUE
  /\ MsgInit
  /\ part # "messages" => scope = CHOOSE s \in Scopes : TRUE

OfficeNext ==
  \/ /\ part = "catalogue" /\ McNext
     /\ UNCHANGED <<part, laVars, peVars, ofVars, panVars, esVars, svVars, msgVars>>
  \/ /\ part = "allocation" /\ LaNext
     /\ UNCHANGED <<part, mcVars, peVars, ofVars, panVars, esVars, svVars, msgVars>>
  \/ /\ part = "policy" /\ PeNext
     /\ UNCHANGED <<part, mcVars, laVars, ofVars, panVars, esVars, svVars, msgVars>>
  \/ /\ part = "offer" /\ OfNext
     /\ UNCHANGED <<part, mcVars, laVars, peVars, panVars, esVars, svVars, msgVars>>
  \/ /\ part = "pan" /\ PanNext
     /\ UNCHANGED <<part, mcVars, laVars, peVars, ofVars, esVars, svVars, msgVars>>
  \/ /\ part = "signature" /\ EsNext
     /\ UNCHANGED <<part, mcVars, laVars, peVars, ofVars, panVars, svVars, msgVars>>
  \/ /\ part = "servicing" /\ SvNext
     /\ UNCHANGED <<part, mcVars, laVars, peVars, ofVars, panVars, esVars, msgVars>>
  \/ /\ part = "messages" /\ MsgNext
     /\ UNCHANGED <<part, mcVars, laVars, peVars, ofVars, panVars, esVars, svVars>>

OfficeSpec == OfficeInit /\ [][OfficeNext]_officeVars

MCRoutes == <<"r1", "r2", "r3">>
MCPercent == [r1 |-> 5, r2 |-> 3, r3 |-> 2]

\* Product versions that differ in rounding and in who pays the processing fee.
Version(method, unit, fee) ==
  [min |-> 5, base |-> 10, cap |-> 24, method |-> method, unit |-> unit,
   multipliers |-> {<<0, 10>>, <<1, 15>>, <<3, 23>>}, feePct |-> 10, fee |-> fee]
MCConfigs == {Version("NONE", 1, 1), Version("FLOOR", 7, 0), Version("CEIL", 5, 1),
              Version("NEAREST", 4, 1), Version("CEIL", 25, 5)}

\* Rules of every data type, as the editor offers them.
Rule(code, op, value) == [code |-> code, op |-> op, value |-> value]
MCEntered ==
  {Rule("PAN_VERIFIED", "IS_TRUE", Null), Rule("NO_ACTIVE_APPLICATION", "IS_FALSE", Null),
   Rule("MINIMUM_AGE", "GREATER_THAN_OR_EQUAL", Value(2)),
   Rule("MAXIMUM_AGE", "LESS_THAN_OR_EQUAL", Value(3)),
   Rule("MAXIMUM_AGE", "LESS_THAN", Value(3)),
   Rule("MINIMUM_ABB", "GREATER_THAN_OR_EQUAL", Value(5))}
MCBirths == {<<1, 1, 2>>, <<1, 2, 1>>, <<2, 1, 1>>}
MCToday == {<<4, month, date>> : month, date \in 1..2}

\* Which parts of the servicing act together.
MCInstances == {{"desk", "night", "debit"}, {"desk", "debit", "page"}, {"debit", "page", "mandate"},
                {"night", "debit", "lender"}}

\* How many customers, on which channels, over which part of a loan's life, with which trouble.
Scope(n, channels, first, last, faults, restarts) ==
  [custs |-> 1..n, chans |-> channels, from |-> first, to |-> last, faults |-> faults,
   restarts |-> restarts]
MCScopes == {Scope(2, {"sms"}, "applying", "approved", 1, 1),
             Scope(1, {"sms"}, "applying", "closed", 1, 1),
             Scope(1, {"wa"}, "applying", "closed", 1, 1),
             Scope(1, {"ivr", "wa"}, "disbursed", "closed", 1, 0)}
===================================================================================
