---------------------------- MODULE MCLenderReplay ----------------------------
(* Instances of LenderReplay for TLC. *)
EXTENDS LenderReplay

CONSTANTS e1, e2, a1

MCAppOf == [e \in Events |-> a1]
================================================================================
