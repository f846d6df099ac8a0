---------------------------------- MODULE Totals ----------------------------------
(***************************************************************************)
(* Amounts of money added up.  An amount is counted unit by unit, so that  *)
(* the total is a cardinality: the library has theorems about those, while *)
(* what a fold computes over any set cannot be proved.                     *)
(***************************************************************************)
EXTENDS Integers, FiniteSets

Units(f, S) == UNION {{x} \X (1..f[x]) : x \in S}

\* The sum of the natural numbers f[x] over the x in S.
Total(f, S) == Cardinality(Units(f, S))
===================================================================================
