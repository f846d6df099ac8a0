--------------------------- MODULE LenderEventQueue ---------------------------
(***************************************************************************)
(* What the lender outbox promises its callers, without leases, tokens,    *)
(* retries or processes: a job that is submitted waits, is held by some    *)
(* worker, goes back to waiting any number of times, and ends done or      *)
(* dead.  A job that is done is never held again.                          *)
(***************************************************************************)
CONSTANT Events

VARIABLE job            \* the lifecycle state of every event

JobState == {"absent", "waiting", "held", "done", "dead"}

Move(S, from, to) ==
  /\ \A e \in S : job[e] = from
  /\ job' = [e \in Events |-> IF e \in S THEN to ELSE job[e]]

Submit  == \E e \in Events : Move({e}, "absent", "waiting")
Hold    == \E e \in Events : Move({e}, "waiting", "held")
Finish  == \E e \in Events : Move({e}, "held", "done")
GiveUp  == \E e \in Events : Move({e}, "held", "dead")

\* One recovery sweep may return several jobs at once.
Release == \E S \in SUBSET Events : Move(S, "held", "waiting")

Init == job = [e \in Events |-> "absent"]

Next == Submit \/ Hold \/ Release \/ Finish \/ GiveUp

Spec == Init /\ [][Next]_job
================================================================================
