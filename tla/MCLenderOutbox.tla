---------------------------- MODULE MCLenderOutbox ----------------------------
(* Instances of LenderOutbox for TLC. *)
EXTENDS LenderOutbox, TLC

CONSTANTS e1, e2, e3, a1, a2

\* e1 and e2 are two stages of one application, e3 belongs to another.
MCAppOf == [e \in Events |-> IF e = e3 THEN a2 ELSE a1]

WorkerTokenSymmetry == Permutations(Tokens) \cup Permutations(Workers)
================================================================================
