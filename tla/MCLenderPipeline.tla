--------------------------- MODULE MCLenderPipeline ---------------------------
(* Instances of LenderPipeline for TLC. *)
EXTENDS LenderPipeline

EachOnce == [what \in {"save", "submit", "select", "push"} |-> IF what = "push" THEN 0 ELSE 1]
Journey == [EachOnce EXCEPT !["save"] = 2, !["push"] = 2]
================================================================================
