---------------------------- MODULE PreApprovalOffer ----------------------------
(***************************************************************************)
(* The amount of a pre-approved offer: ProductCalculationService.simulate() *)
(* and the calls that use it, from the figure on the dashboard             *)
(* (buildPreApprovedOffer()) over the offer page (getPreApprovalOffer())   *)
(* to the customer's choice (selectPreApprovalOffer()), which a second tab *)
(* may make too, and the profile that carries it to the lender.  Amounts   *)
(* are whole units, multipliers tenths; instalments and APR are left out.  *)
(***************************************************************************)
EXTENDS Naturals, Sequences, FiniteSets

CONSTANTS
  Configs,       \* product versions: min, base, cap, method, unit, multipliers, feePct, fee
  Limits,        \* amounts the lender may pre-approve
  OfferTabs,     \* tabs with the offer page
  Tenures,       \* tenures of the product version
  MaxLoans       \* bound: completed loans of the customer

\* validateAmounts() and validateMultipliers(): what a product version has to satisfy.
validateAmounts(c) ==
  /\ 0 < c.min /\ c.min <= c.base /\ c.base <= c.cap
  /\ c.method # "NONE" => c.unit > 0
validateMultipliers(c) ==
  /\ <<0, 10>> \in c.multipliers
  /\ \A x, y \in c.multipliers : x[1] = y[1] => x = y
  /\ \A x \in c.multipliers : x[2] > 0

ASSUME OfferAssumption ==
  /\ Configs \subseteq [min : Nat, base : Nat, cap : Nat, unit : Nat, feePct : Nat, fee : Nat,
                       method : {"NONE", "FLOOR", "CEIL", "NEAREST"},
                       multipliers : SUBSET (Nat \X Nat)]
  /\ \A c \in Configs : validateAmounts(c) /\ validateMultipliers(c)
  /\ Limits \subseteq Nat \ {0} /\ MaxLoans \in Nat

------------------------------------------------------------------------------
(* simulate() *)

Least(a, b) == IF a <= b THEN a ELSE b

\* The multiplier of the highest threshold the customer has reached.
matchedMultiplier(c, loans) ==
  (CHOOSE x \in c.multipliers : /\ x[1] <= loans
                                /\ \A y \in c.multipliers : y[1] <= loans => y[1] <= x[1])[2]

cappedAmount(c, loans, limit) ==
  Least(Least((c.base * matchedMultiplier(c, loans)) \div 10, c.cap), limit)

\* Mutant: an amount that was rounded up beyond its cap stays there.
roundedUp(c, amount) ==
  LET down == (amount \div c.unit) * c.unit
      up == ((amount + c.unit - 1) \div c.unit) * c.unit
      nearest == ((2 * amount + c.unit) \div (2 * c.unit)) * c.unit
  IN CASE c.method = "NONE" -> amount [] c.method = "FLOOR" -> down
       [] c.method = "CEIL" -> up [] c.method = "NEAREST" -> nearest

\* Rounded to the unit, and down when the rounded amount is beyond its cap.
rounded(c, amount) ==
  LET down == (amount \div c.unit) * c.unit
      up == ((amount + c.unit - 1) \div c.unit) * c.unit
      nearest == ((2 * amount + c.unit) \div (2 * c.unit)) * c.unit
      candidate == CASE c.method = "FLOOR" -> down [] c.method = "CEIL" -> up [] c.method = "NEAREST" -> nearest
  IN IF c.method = "NONE" THEN amount ELSE IF candidate > amount THEN down ELSE candidate

\* The product's minimum is applied last.
finalAmount(c, loans, limit) ==
  LET amount == rounded(c, cappedAmount(c, loans, limit))
  IN IF amount < c.min THEN c.min ELSE amount

\* Charges that leave nothing to disburse refuse the calculation.
netDisbursal(c, amount) == 100 * amount > amount * c.feePct + 100 * c.fee

simulates(c, loans, limit) == netDisbursal(c, finalAmount(c, loans, limit))

------------------------------------------------------------------------------

VARIABLES
  strategy,      \* the product version the application was priced on
  inForce,       \* the product's version that is active now
  loans,         \* the customer's completed loans
  limit,         \* lenderApprovedAmount
  selected,      \* selectedAmount and selectedTenure of the application
  offer,         \* per tab: the offer page and the choice in flight
  pushed         \* the choice the lender was told of (profile update V2)

ofVars == <<strategy, inForce, loans, limit, selected, offer, pushed>>

Nothing == [amount |-> 0, tenure |-> 0]
NoOffer == [pc |-> "closed", shown |-> 0, granted |-> 0, tenure |-> 0]

\* The lender has pre-approved an application that was allocated with this product version.
OfInit ==
  /\ strategy \in Configs /\ inForce = strategy
  /\ loans \in 0 .. MaxLoans
  /\ limit \in Limits
  /\ selected = Nothing
  /\ offer = [t \in OfferTabs |-> NoOffer]
  /\ pushed = Nothing

\* Another version of the product is activated.
activateOther(c) ==
  /\ c # inForce
  /\ inForce' = c
  /\ UNCHANGED <<strategy, loans, limit, selected, offer, pushed>>

\* loadOfferCalculationInputs(): the version the application was priced on.
loadOfferCalculationInputs == strategy

\* getPreApprovalOffer(): the page shows the amount, with the first tenure.
getPreApprovalOffer(t) ==
  /\ offer[t].pc = "closed"
  /\ simulates(loadOfferCalculationInputs, loans, limit)
  /\ offer' = [offer EXCEPT ![t] = [NoOffer EXCEPT !.pc = IF selected = Nothing THEN "shown" ELSE "decided",
                                       !.shown = finalAmount(loadOfferCalculationInputs, loans, limit)]]
  /\ UNCHANGED <<strategy, inForce, loans, limit, selected, pushed>>

\* selectPreApprovalOffer(): not selected yet, as far as this call has read.
selectPreApprovalOffer(t, tenure) ==
  /\ offer[t].pc = "shown"
  /\ IF selected = Nothing
       THEN offer' = [offer EXCEPT ![t].pc = "write", ![t].tenure = tenure,
                                   ![t].granted = finalAmount(loadOfferCalculationInputs, loans, limit)]
       ELSE offer' = [offer EXCEPT ![t].pc = "refused"]
  /\ UNCHANGED <<strategy, inForce, loans, limit, selected, pushed>>

\* The choice is written by the application's id.
choiceWritten(t) ==
  /\ offer[t].pc = "write"
  /\ selected' = [amount |-> offer[t].granted, tenure |-> offer[t].tenure]
  /\ offer' = [offer EXCEPT ![t].pc = "decided"]
  /\ UNCHANGED <<strategy, inForce, loans, limit, pushed>>

\* The worker sends the profile once, with the choice of that moment.
profilePushed ==
  /\ selected # Nothing /\ pushed = Nothing
  /\ pushed' = selected
  /\ UNCHANGED <<strategy, inForce, loans, limit, selected, offer>>

OfNext ==
  \/ \E c \in Configs : activateOther(c)
  \/ \E t \in OfferTabs : \/ getPreApprovalOffer(t) \/ choiceWritten(t)
                          \/ \E n \in Tenures : selectPreApprovalOffer(t, n)
  \/ profilePushed

OfSpec == OfInit /\ [][OfNext]_ofVars

OfTypeOK ==
  /\ strategy \in Configs /\ inForce \in Configs
  /\ selected.amount \in Nat /\ pushed.amount \in Nat
  /\ offer \in [OfferTabs -> [pc : {"closed", "shown", "write", "decided", "refused"},
                              shown : Nat, granted : Nat, tenure : {0} \cup Tenures]]

\* What the customer chose is within the product's bounds, in its rounding unit unless it is
\* the minimum, and the amount the page showed, whatever version was activated meanwhile.
OfferHonoured ==
  /\ selected # Nothing =>
       /\ strategy.min <= selected.amount /\ selected.amount <= strategy.cap
       /\ \/ strategy.method = "NONE" \/ selected.amount = strategy.min
          \/ selected.amount % strategy.unit = 0
  /\ \A t \in OfferTabs : offer[t].granted # 0 => offer[t].granted = offer[t].shown

\* loan.service.ts, "capped at the lender's pre-approval credit limit": the chosen amount is
\* within what the lender pre-approved.
CappedAtLimit == selected.amount <= limit

\* The choice the lender was told of is the one the application keeps.
ChoiceKept == pushed # Nothing => selected = pushed
==============================================================================
