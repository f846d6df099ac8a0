---------------------------- MODULE LenderAllocation ----------------------------
(***************************************************************************)
(* Which lender an application goes to: MlmAllocationEngineService with    *)
(* its smooth weighted round robin.  execute() (an operator's call, with   *)
(* its own transaction and up to three attempts) and executeWithTx() (from *)
(* the customer's eligibility check) run in transactions that lock the     *)
(* decision row they read and then the route states; what they read before *)
(* the lock they do not read again.                                        *)
(***************************************************************************)
EXTENDS Integers, Sequences, FiniteSets, FiniteSetsExt

CONSTANTS
  Routes,        \* the active routes, a sequence in sort order
  Percent,       \* allocationWeightPercent of each route
  Apps,          \* applications
  Callers,       \* transactions that may be open at once
  MaxSwitches,   \* bound: times a lender or product is switched on or off
  Overlapping    \* TRUE: an application without a route may be allocated again by two at once

RouteSet == {Routes[i] : i \in DOMAIN Routes}

ASSUME LaAssumption ==
  /\ \A r \in RouteSet : Percent[r] \in Nat
  /\ IsFiniteSet(Apps) /\ "none" \notin Apps \cup RouteSet
  /\ MaxSwitches \in Nat /\ Overlapping \in BOOLEAN

VARIABLES
  ready,         \* routes whose lender, product and product version are in order
  sticky,        \* per application: the route of the customer's last loan, or "none"
  decision,      \* MlmAllocationDecision, one row per application
  weight,        \* currentWeight of each route state
  allocated,     \* allocatedApplicationCount of each route state
  txn,           \* per caller: the open transaction
  switches

laVars == <<ready, sticky, decision, weight, allocated, txn, switches>>

NoDecision == [status |-> "none", route |-> "none"]
NoTxn == [pc |-> "idle", app |-> "none", read |-> NoDecision, tries |-> 0]

LaInit ==
  /\ ready \in SUBSET RouteSet
  /\ sticky \in [Apps -> {"none", Routes[1]}]
  /\ decision = [a \in Apps |-> NoDecision]
  /\ weight = [r \in RouteSet |-> 0]
  /\ allocated = [r \in RouteSet |-> 0]
  /\ txn = [c \in Callers |-> NoTxn]
  /\ switches = 0

HoldsStates(c) == txn[c].pc = "decide"
HoldsDecision(c, a) == txn[c].app = a /\ txn[c].pc \in {"states", "decide"} /\ txn[c].read # NoDecision

\* An operator switches a lender or product, or a product version takes effect or loses it.
switchRoute(r) ==
  /\ switches < MaxSwitches
  /\ ready' = IF r \in ready THEN ready \ {r} ELSE ready \cup {r}
  /\ switches' = switches + 1
  /\ UNCHANGED <<sticky, decision, weight, allocated, txn>>

\* executeInternal(): the decision as it is now; an attempt after a duplicate starts here again.
readDecision(c, a) ==
  /\ \/ /\ txn[c].pc = "idle"
        /\ decision[a] = NoDecision \/ Overlapping \/ \A d \in Callers : txn[d].app # a
     \/ txn[c].pc = "again" /\ txn[c].app = a
  /\ txn' = [txn EXCEPT ![c] =
       [pc |-> IF decision[a] = NoDecision THEN "states" ELSE "decision", app |-> a,
        read |-> decision[a], tries |-> @.tries + 1]]
  /\ UNCHANGED <<ready, sticky, decision, weight, allocated, switches>>

\* SELECT ... FOR UPDATE of the decision; one that was read as assigned is returned.
lockDecision(c) ==
  /\ txn[c].pc = "decision"
  /\ \A d \in Callers \ {c} : ~HoldsDecision(d, txn[c].app)
  /\ txn' = [txn EXCEPT ![c] = IF @.read.status = "ASSIGNED" THEN NoTxn ELSE [@ EXCEPT !.pc = "states"]]
  /\ UNCHANGED <<ready, sticky, decision, weight, allocated, switches>>

\* SELECT ... FOR UPDATE of the route states.
lockStates(c) ==
  /\ txn[c].pc = "states"
  /\ \A d \in Callers : ~HoldsStates(d)
  /\ txn' = [txn EXCEPT ![c].pc = "decide"]
  /\ UNCHANGED <<ready, sticky, decision, weight, allocated, switches>>

\* SmoothWeightedRoundRobinService.selectNext(): raise every eligible weight by its share; the
\* first of the largest is selected and pays the total.
raised(eligible) == [r \in RouteSet |-> IF r \in eligible THEN weight[r] + Percent[r] ELSE weight[r]]
TotalPercent(eligible) == MapThenSumSet(LAMBDA r : Percent[r], eligible)

best(eligible) ==
  LET w == raised(eligible)
  IN Routes[CHOOSE i \in DOMAIN Routes :
       /\ Routes[i] \in eligible
       /\ \A j \in DOMAIN Routes : Routes[j] \in eligible =>
            w[Routes[i]] > w[Routes[j]] \/ (w[Routes[i]] = w[Routes[j]] /\ i <= j)]

selectNext(eligible) ==
  [raised(eligible) EXCEPT ![best(eligible)] = @ - TotalPercent(eligible)]

\* The readiness checks of each active route.
eligibleRoutes == ready

\* A repeat customer goes back to the lender of the last loan while it is eligible.
stickyRoute(a) == sticky[a] \in eligibleRoutes

chosenRoute(a) ==
  IF eligibleRoutes = {} THEN "none"
  ELSE IF stickyRoute(a) THEN sticky[a] ELSE best(eligibleRoutes)

\* The weights after the decision: a sticky assignment leaves them alone.
weightsAfter(a) ==
  IF eligibleRoutes = {} \/ stickyRoute(a) THEN weight ELSE selectNext(eligibleRoutes)

\* Mutant: no unique applicationReference, the later decision stands.
neverDuplicate(c) == FALSE

\* The creation of a decision meets one that was committed meanwhile (P2002).
duplicateDecision(c) == txn[c].read = NoDecision /\ decision[txn[c].app] # NoDecision

\* The decision is created, or updated by the id that was read; a creation that meets another
\* one rolls back and, within its attempts, starts again.
decide(c) ==
  LET a == txn[c].app
  IN /\ txn[c].pc = "decide"
     /\ IF duplicateDecision(c)
          THEN /\ \/ txn[c].tries < 3 /\ txn' = [txn EXCEPT ![c].pc = "again"]
                  \/ txn' = [txn EXCEPT ![c] = NoTxn]
               /\ UNCHANGED <<decision, weight, allocated>>
          ELSE /\ decision' = [decision EXCEPT ![a] =
                    [status |-> IF chosenRoute(a) = "none" THEN "NO_ELIGIBLE_ROUTE" ELSE "ASSIGNED",
                     route |-> chosenRoute(a)]]
               /\ weight' = weightsAfter(a)
               /\ allocated' = [r \in RouteSet |-> IF r = chosenRoute(a) THEN allocated[r] + 1 ELSE allocated[r]]
               /\ txn' = [txn EXCEPT ![c] = NoTxn]
     /\ UNCHANGED <<ready, sticky, switches>>

LaNext ==
  \/ \E r \in RouteSet : switchRoute(r)
  \/ \E c \in Callers : \E a \in Apps : readDecision(c, a)
  \/ \E c \in Callers : lockDecision(c) \/ lockStates(c) \/ decide(c)

LaSpec == LaInit /\ [][LaNext]_laVars

SumOf(f) == MapThenSumSet(LAMBDA r : f[r], RouteSet)
Assigned == {a \in Apps : decision[a].status = "ASSIGNED"}

LaTypeOK ==
  /\ ready \subseteq RouteSet
  /\ \A a \in Apps : decision[a].status \in {"none", "NO_ELIGIBLE_ROUTE", "ASSIGNED"}
  /\ weight \in [RouteSet -> Int] /\ allocated \in [RouteSet -> Nat]

\* However eligibility comes and goes and whoever is sticky, no route builds up credit or debt
\* beyond one round: the weights add up to zero and each stays within the total, so the shares
\* of the applications that were drawn follow the percentages.
SharesTracked ==
  /\ SumOf(weight) = 0
  /\ \A r \in RouteSet : weight[r] > -TotalPercent(RouteSet) /\ weight[r] < TotalPercent(RouteSet)

\* An application counts for the one route it is assigned to, however many transactions ran
\* for it at once.
AssignedOnce == \A r \in RouteSet : allocated[r] = Cardinality({a \in Assigned : decision[a].route = r})
==============================================================================
