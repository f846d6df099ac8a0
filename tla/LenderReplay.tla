------------------------------ MODULE LenderReplay ------------------------------
(***************************************************************************)
(* The outbox with replayFailedEvent(), the operator's (and the customer's *)
(* "retry submission") way to send a failed event again.  The method reads *)
(* the row and its application in two queries and then resets the row by   *)
(* id in a transaction; workers run between the read and the reset.        *)
(***************************************************************************)
EXTENDS LenderOutbox

CONSTANT MaxReplays       \* bound: replay requests in a behaviour
ASSUME ReplayAssumption == MaxReplays \in Nat

VARIABLES
  asked,                  \* rows whose replay passed its status check
  replays,                \* replay requests so far
  replayed                \* history: rows reset by a replay

replayVars == <<asked, replays, replayed>>
allVars == <<vars, replayVars>>

\* findUnique() of the row and of the application, and the two refusals.
readForReplay(e) ==
  /\ row[e].status \in {"FAILED", "RETRY_PENDING"}
  /\ e \notin asked
  /\ replays < MaxReplays
  /\ replays' = replays + 1
  /\ asked' = asked \cup {e}
  /\ UNCHANGED <<vars, replayed>>

\* The transaction: update({ where: { id } }) to PENDING, attemptCount 0, due now.
resetForReplay(e) ==
  /\ e \in asked
  /\ asked' = asked \ {e}
  /\ row' = [row EXCEPT ![e] = [Unlocked(@, "PENDING") EXCEPT !.attempts = 0]]
  /\ BecomeDue({e})
  /\ replayed' = replayed \cup {e}
  /\ UNCHANGED <<task, mode, faults, histVars, replays>>

ReplayInit == Init /\ asked = {} /\ replays = 0 /\ replayed = {}

ReplayNext ==
  \/ Next /\ UNCHANGED replayVars
  \/ \E e \in Events : readForReplay(e) \/ resetForReplay(e)

\* The worker's fairness; nobody has to ask for a replay, or to finish one.
ReplaySpec == ReplayInit /\ [][ReplayNext]_allVars /\ Fairness

\* With replays the request of an acknowledged event is re-sent only after a sweep
\* or after an explicit replay of that event.
ResentOnlyOnRequest == repeated \subseteq reclaimed \cup replayed

\* The comment of replayFailedEvent(): a row that a worker holds under its lease is
\* never reset to PENDING underneath it.
NoResetUnderLease ==
  [][\A e \in Events : row[e].status = "PROCESSING" => row'[e].status # "PENDING"]_allVars
================================================================================
