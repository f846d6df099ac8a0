------------------------------ MODULE LenderOutbox ------------------------------
(***************************************************************************)
(* The lender outbox table and the workers that drain it                   *)
(* (lender-integration.worker.ts, lender-integration-outbox.service.ts).   *)
(*                                                                         *)
(* A row is claimed under a lease with a fresh fencing token; the lender   *)
(* is called outside any transaction; the outcome is written only if the   *)
(* row still carries that token.  Leases expire on the wall clock whether  *)
(* or not the task is alive, a sweep returns expired rows to the queue,    *)
(* and a process may stop or die at any step, losing everything it keeps   *)
(* in memory.                                                              *)
(*                                                                         *)
(* Time is abstracted: "due" holds the rows whose availableAt has passed   *)
(* and "before" orders them by availableAt, which is all the claim query   *)
(* looks at; a lease is live until LeaseExpires says otherwise.            *)
(***************************************************************************)
EXTENDS Naturals, FiniteSets

CONSTANTS
  Events,        \* outbox rows, one per idempotency key
  Applications,
  AppOf,         \* applicationId of each row
  Workers,       \* processes that run background work
  Tokens,        \* lockToken values (random UUIDs)
  NoToken,       \* lockToken NULL
  MaxAttempts,   \* integrationConfig.maximumRetryAttempts
  Concurrency,   \* LENDER_INTEGRATION_WORKER_CONCURRENCY
  MaxFaults      \* bound: stops, crashes, overrun leases and lost tasks in a behaviour

ASSUME AppOfAssumption == AppOf \in [Events -> Applications]
ASSUME TokenAssumption == NoToken \notin Tokens
ASSUME BoundAssumption == /\ MaxAttempts \in Nat \ {0}
                          /\ Concurrency \in Nat \ {0}
                          /\ MaxFaults \in Nat

VARIABLES
  row,           \* the table: status, attemptCount, lockToken, lease
  due,           \* rows with availableAt <= NOW(3)
  before,        \* <<e, f>>: e became due earlier than f
  task,          \* per worker and row: the processClaimed() in progress
  mode,          \* per worker: "up", "stopping", "draining" or "down"
  faults,        \* stops, crashes, overrun leases and lost tasks so far
  acked,         \* history: rows whose lender acknowledgement was received
  repeated,      \* history: rows acknowledged again after that
  reclaimed      \* history: rows whose lease was swept

queueVars == <<row, due, before>>
histVars  == <<acked, repeated, reclaimed>>
vars == <<row, due, before, task, mode, faults, acked, repeated, reclaimed>>

RowStatus == {"ABSENT", "PENDING", "PROCESSING", "RETRY_PENDING", "COMPLETED", "FAILED"}
TaskStep  == {"idle", "claimed", "calling", "completing", "closing",
              "failing", "recording", "settling"}

NoRow  == [status |-> "ABSENT", attempts |-> 0, token |-> NoToken, lease |-> "none"]
NoTask == [at |-> "idle", token |-> NoToken, attempts |-> 0, retry |-> FALSE]

-------------------------------------------------------------------------------
(* Helpers *)

\* Mutant: the conditional writes forget to compare lockToken.
OwnsByStatusOnly(w, e) == row[e].status = "PROCESSING"

\* The where-clause of every conditional write: the row is still ours.
Owns(w, e) ==
  /\ row[e].status = "PROCESSING"
  /\ row[e].token = task[w][e].token

\* inFlight and busyApplications, the worker's in-memory sets.
inFlight(w) == {e \in Events : task[w][e].at # "idle"}
busyApplications(w) == {AppOf[e] : e \in inFlight(w)}

\* Some task still believes it owns the row.
HasOwner(e) == \E w \in Workers : task[w][e].at # "idle" /\ Owns(w, e)

TokensInUse == {row[e].token : e \in Events}
                 \cup {task[w][e].token : w \in Workers, e \in Events}

\* Mutant: the claim query without its NOT IN (busy applications) clause.
ClaimableIgnoringBusy(w) ==
  {e \in due : row[e].status \in {"PENDING", "RETRY_PENDING"}}

\* The rows the claim query may return: due, unclaimed, application not busy here.
Claimable(w) ==
  {e \in due : /\ row[e].status \in {"PENDING", "RETRY_PENDING"}
               /\ AppOf[e] \notin busyApplications(w)}

\* Rows S become due now: behind every row that is due already.
BecomeDue(S) ==
  /\ due' = due \cup S
  /\ before' = {p \in before : p[1] \notin S /\ p[2] \notin S} \cup ((due \ S) \X S)

LeaveDue(S) ==
  /\ due' = due \ S
  /\ before' = {p \in before : p[1] \notin S /\ p[2] \notin S}

Unlocked(r, status) ==
  [r EXCEPT !.status = status, !.token = NoToken, !.lease = "none"]

SetTask(w, e, t) == task' = [task EXCEPT ![w][e] = t]
GoTo(w, e, step) == task' = [task EXCEPT ![w][e].at = step]

-------------------------------------------------------------------------------
(* Producers and the clock *)

\* Every enqueue* method: upsert on the idempotency key with an empty update.
Enqueue(e) ==
  /\ row[e].status = "ABSENT"
  /\ row' = [row EXCEPT ![e].status = "PENDING"]
  /\ BecomeDue({e})
  /\ UNCHANGED <<task, mode, faults, histVars>>

\* A retry's availableAt passes.
BackoffElapses(e) ==
  /\ row[e].status = "RETRY_PENDING"
  /\ e \notin due
  /\ BecomeDue({e})
  /\ UNCHANGED <<row, task, mode, faults, histVars>>

\* leaseExpiresAt passes on a row whose task is gone.
LeaseExpires(e) ==
  /\ row[e].lease = "live"
  /\ ~HasOwner(e)
  /\ row' = [row EXCEPT ![e].lease = "expired"]
  /\ UNCHANGED <<due, before, task, mode, faults, histVars>>

\* It passes under a task that is still running: the lender call took longer than
\* LENDER_INTEGRATION_WORKER_LOCK_SECONDS.
LeaseOverrun(e) ==
  /\ row[e].lease = "live"
  /\ HasOwner(e)
  /\ faults < MaxFaults
  /\ faults' = faults + 1
  /\ row' = [row EXCEPT ![e].lease = "expired"]
  /\ UNCHANGED <<due, before, task, mode, histVars>>

-------------------------------------------------------------------------------
(* The worker: claim, process, complete or fail *)

\* pump() -> claimNextEvent() -> start(): the oldest due row not excluded.
\* A claim transaction that was open when "stopped" was set still starts its task.
claimNextEvent(w, e) ==
  /\ mode[w] \in {"up", "stopping"}
  /\ Cardinality(inFlight(w)) < Concurrency
  /\ e \in Claimable(w)
  /\ \A f \in Claimable(w) : <<f, e>> \notin before
  /\ \E t \in Tokens \ TokensInUse :
       LET n == IF row[e].attempts < MaxAttempts THEN row[e].attempts + 1 ELSE MaxAttempts
       IN  /\ row' = [row EXCEPT ![e] = [status |-> "PROCESSING", attempts |-> n,
                                         token |-> t, lease |-> "live"]]
           /\ SetTask(w, e, [at |-> "claimed", token |-> t, attempts |-> n, retry |-> FALSE])
  /\ LeaveDue({e})
  /\ mode' = [mode EXCEPT ![w] = IF @ = "stopping" THEN "draining" ELSE @]
  /\ UNCHANGED <<faults, histVars>>

\* processEvent(): re-reads the row and refuses a lost lease; otherwise the stage
\* handler fails a validation, finds nothing to do, or calls the lender.
processEvent(w, e) ==
  /\ task[w][e].at = "claimed"
  /\ \/ /\ ~Owns(w, e)
        /\ SetTask(w, e, [task[w][e] EXCEPT !.at = "failing", !.retry = TRUE])
     \/ /\ Owns(w, e)
        /\ \/ \E retryable \in BOOLEAN :
                SetTask(w, e, [task[w][e] EXCEPT !.at = "failing", !.retry = retryable])
           \/ GoTo(w, e, "closing")
           \/ GoTo(w, e, "calling")
  /\ UNCHANGED <<queueVars, mode, faults, histVars>>

\* The adapter call resolves: acknowledged.
LenderAcknowledges(w, e) ==
  /\ task[w][e].at = "calling"
  /\ GoTo(w, e, "completing")
  /\ acked' = acked \cup {e}
  /\ repeated' = IF e \in acked THEN repeated \cup {e} ELSE repeated
  /\ UNCHANGED <<queueVars, mode, faults, reclaimed>>

\* The adapter call rejects or times out: temporary (retryable) or permanent.
LenderFails(w, e) ==
  /\ task[w][e].at = "calling"
  /\ \E retryable \in BOOLEAN :
       SetTask(w, e, [task[w][e] EXCEPT !.at = "failing", !.retry = retryable])
  /\ UNCHANGED <<queueVars, mode, faults, histVars>>

\* The stage handler's completion transaction, which rolls back when the
\* conditional update of the row counts nothing.
completeEvent(w, e) ==
  /\ task[w][e].at = "completing"
  /\ \/ /\ Owns(w, e)
        /\ row' = [row EXCEPT ![e] = Unlocked(@, "COMPLETED")]
        /\ SetTask(w, e, NoTask)
     \/ /\ ~Owns(w, e)
        /\ SetTask(w, e, [task[w][e] EXCEPT !.at = "failing", !.retry = TRUE])
        /\ UNCHANGED row
  /\ UNCHANGED <<due, before, mode, faults, histVars>>

\* Mutant: a database error of the completion counts as temporary.
CompletionErrorRetried(w, e) ==
  /\ task[w][e].at \in {"completing", "closing"}
  /\ SetTask(w, e, [task[w][e] EXCEPT !.at = "failing", !.retry = TRUE])
  /\ UNCHANGED <<queueVars, mode, faults, histVars>>

\* Either write failing in the database: normalizeLenderIntegrationError() does not
\* know the error, so it is permanent, although the lender may have acknowledged.
CompletionError(w, e) ==
  /\ task[w][e].at \in {"completing", "closing"}
  /\ SetTask(w, e, [task[w][e] EXCEPT !.at = "failing", !.retry = FALSE])
  /\ UNCHANGED <<queueVars, mode, faults, histVars>>

\* Mutant: the completion is written by id alone.
closeUnconditionally(w, e) ==
  /\ task[w][e].at = "closing"
  /\ row' = [row EXCEPT ![e] = Unlocked(@, "COMPLETED")]
  /\ SetTask(w, e, NoTask)
  /\ UNCHANGED <<due, before, mode, faults, histVars>>

\* processClaimed() after a handler that returned false: conditional COMPLETED.
closeWithoutCall(w, e) ==
  /\ task[w][e].at = "closing"
  /\ row' = IF Owns(w, e) THEN [row EXCEPT ![e] = Unlocked(@, "COMPLETED")] ELSE row
  /\ SetTask(w, e, NoTask)
  /\ UNCHANGED <<due, before, mode, faults, histVars>>

\* The catch block, first await: is the row still ours?
checkStillOwned(w, e) ==
  /\ task[w][e].at = "failing"
  /\ IF Owns(w, e) THEN GoTo(w, e, "recording") ELSE SetTask(w, e, NoTask)
  /\ UNCHANGED <<queueVars, mode, faults, histVars>>

\* Second await: retryPolicy() and markStageFailure(), a transaction of its own.
markStageFailure(w, e) ==
  /\ task[w][e].at = "recording"
  /\ SetTask(w, e, [task[w][e] EXCEPT !.at = "settling",
                                      !.retry = @ /\ task[w][e].attempts < MaxAttempts])
  /\ UNCHANGED <<queueVars, mode, faults, histVars>>

\* Third await: the conditional RETRY_PENDING / FAILED write.  The first entry of
\* the retry schedule may be zero seconds, so the row can be due at once.
settleFailure(w, e) ==
  /\ task[w][e].at = "settling"
  /\ \/ /\ Owns(w, e) /\ task[w][e].retry
        /\ row' = [row EXCEPT ![e] = Unlocked(@, "RETRY_PENDING")]
        /\ BecomeDue({e}) \/ UNCHANGED <<due, before>>
     \/ /\ Owns(w, e) /\ ~task[w][e].retry
        /\ row' = [row EXCEPT ![e] = Unlocked(@, "FAILED")]
        /\ UNCHANGED <<due, before>>
     \/ ~Owns(w, e) /\ UNCHANGED queueVars
  /\ SetTask(w, e, NoTask)
  /\ UNCHANGED <<mode, faults, histVars>>

\* An await of the catch block rejects: start() logs it, and the row stays
\* PROCESSING until its lease runs out.
AbandonTask(w, e) ==
  /\ task[w][e].at \in {"failing", "recording", "settling"}
  /\ faults < MaxFaults
  /\ faults' = faults + 1
  /\ SetTask(w, e, NoTask)
  /\ UNCHANGED <<queueVars, mode, histVars>>

-------------------------------------------------------------------------------
(* Recovery, shutdown, crash *)

\* Mutant: the sweep leaves out rows that have used all their attempts.
ExpiredRowsWithAttemptsLeft ==
  {e \in Events : /\ row[e].status = "PROCESSING" /\ row[e].lease = "expired"
                  /\ row[e].attempts < MaxAttempts}

ExpiredRows == {e \in Events : row[e].status = "PROCESSING" /\ row[e].lease = "expired"}

\* The sweep: one updateMany over every expired row.
Sweep ==
  /\ row' = [e \in Events |->
               IF e \in ExpiredRows THEN Unlocked(row[e], "RETRY_PENDING") ELSE row[e]]
  /\ BecomeDue(ExpiredRows)
  /\ reclaimed' = reclaimed \cup ExpiredRows

\* maintain() -> recoverStaleEvents(), from the pump of a running worker.
recoverStaleEvents(w) ==
  /\ mode[w] = "up"
  /\ ExpiredRows # {}
  /\ Sweep
  /\ UNCHANGED <<task, mode, faults, acked, repeated>>

\* onModuleInit(): the sweep runs before the first claim; its failure is only logged.
onModuleInit(w) ==
  /\ mode[w] = "down"
  /\ mode' = [mode EXCEPT ![w] = "up"]
  /\ Sweep \/ UNCHANGED <<queueVars, reclaimed>>
  /\ UNCHANGED <<task, faults, acked, repeated>>

\* onModuleDestroy(): no new claims, except one whose transaction is open; tasks
\* already started go on.
onModuleDestroy(w) ==
  /\ mode[w] = "up"
  /\ faults < MaxFaults
  /\ faults' = faults + 1
  /\ \E m \in {"stopping", "draining"} : mode' = [mode EXCEPT ![w] = m]
  /\ UNCHANGED <<queueVars, task, histVars>>

LoseMemory(w) ==
  /\ mode' = [mode EXCEPT ![w] = "down"]
  /\ task' = [task EXCEPT ![w] = [e \in Events |-> NoTask]]

\* The drain ends, or SHUTDOWN_DRAIN_MS cuts it off with tasks still running.
Exit(w) ==
  /\ mode[w] \in {"stopping", "draining"}
  /\ LoseMemory(w)
  /\ UNCHANGED <<queueVars, faults, histVars>>

Crash(w) ==
  /\ mode[w] = "up"
  /\ faults < MaxFaults
  /\ faults' = faults + 1
  /\ LoseMemory(w)
  /\ UNCHANGED <<queueVars, histVars>>

-------------------------------------------------------------------------------
Init ==
  /\ row = [e \in Events |-> NoRow]
  /\ due = {}
  /\ before = {}
  /\ task = [w \in Workers |-> [e \in Events |-> NoTask]]
  /\ mode = [w \in Workers |-> "up"]
  /\ faults = 0
  /\ acked = {}
  /\ repeated = {}
  /\ reclaimed = {}

Step(w, e) ==
  \/ processEvent(w, e)
  \/ LenderAcknowledges(w, e)
  \/ LenderFails(w, e)
  \/ completeEvent(w, e)
  \/ CompletionError(w, e)
  \/ closeWithoutCall(w, e)
  \/ checkStillOwned(w, e)
  \/ markStageFailure(w, e)
  \/ settleFailure(w, e)
  \/ AbandonTask(w, e)

Process(w) ==
  \/ recoverStaleEvents(w)
  \/ onModuleInit(w)
  \/ onModuleDestroy(w)
  \/ Exit(w)
  \/ Crash(w)

Next ==
  \/ \E e \in Events : Enqueue(e) \/ BackoffElapses(e)
                        \/ LeaseExpires(e) \/ LeaseOverrun(e)
  \/ \E w \in Workers, e \in Events : claimNextEvent(w, e) \/ Step(w, e)
  \/ \E w \in Workers : Process(w)

Spec == Init /\ [][Next]_vars

-------------------------------------------------------------------------------
(* Fairness: a started task takes its next step (timeouts bound every call and
   every transaction), the poll timer claims and sweeps, the supervisor restarts a
   process that is down, and clocks advance.  Nothing makes a fault happen.  *)

NextStep(w, e) ==
  \/ processEvent(w, e)
  \/ LenderAcknowledges(w, e) \/ LenderFails(w, e)
  \/ completeEvent(w, e) \/ CompletionError(w, e) \/ closeWithoutCall(w, e)
  \/ checkStillOwned(w, e) \/ markStageFailure(w, e) \/ settleFailure(w, e)

Fairness ==
  /\ \A e \in Events : WF_vars(BackoffElapses(e)) /\ WF_vars(LeaseExpires(e))
  /\ \A w \in Workers :
       /\ \A e \in Events : WF_vars(NextStep(w, e))
       /\ WF_vars(\E e \in Events : claimNextEvent(w, e))
       /\ WF_vars(recoverStaleEvents(w))
       /\ WF_vars(Exit(w))
       /\ WF_vars(onModuleInit(w))

FairSpec == Spec /\ Fairness

-------------------------------------------------------------------------------
(* Properties *)

RowType  == [status : RowStatus, attempts : 0..MaxAttempts,
             token : Tokens \cup {NoToken}, lease : {"none", "live", "expired"}]
TaskType == [at : TaskStep, token : Tokens \cup {NoToken},
             attempts : 0..MaxAttempts, retry : BOOLEAN]

LeaseColumns(r) ==
  /\ r.status = "PROCESSING" <=> r.token # NoToken
  /\ r.status = "PROCESSING" <=> r.lease # "none"

RowsOK    == /\ row \in [Events -> RowType]
             /\ \A e \in Events : LeaseColumns(row[e])
DueOK     == due \subseteq Events /\ before \subseteq due \X due
TasksOK   == task \in [Workers -> [Events -> TaskType]]
ProcessOK == /\ mode \in [Workers -> {"up", "stopping", "draining", "down"}]
             /\ faults \in 0..MaxFaults
HistoryOK == acked \subseteq Events /\ repeated \subseteq acked /\ reclaimed \subseteq Events

\* Every variable keeps its type, and a row carries a token and a lease exactly
\* while it is PROCESSING: each closing write clears lockToken and leaseExpiresAt.
TypeOK == RowsOK /\ DueOK /\ TasksOK /\ ProcessOK /\ HistoryOK

\* Fencing: whatever leases expire and whichever worker sweeps, at most one task of
\* all the processes can pass the where-clause of the conditional writes, so two
\* outcomes of one event are never both recorded.
OneOwner ==
  \A e \in Events : \A v, w \in Workers :
    /\ task[v][e].at # "idle" /\ Owns(v, e)
    /\ task[w][e].at # "idle" /\ Owns(w, e)
    => v = w

\* The worker's promise (class comment of LenderIntegrationWorker): never two events
\* of one application at the same time, not even when the lease of the first
\* expires and the sweep makes its row claimable again while the call is out.
SingleFlight ==
  \A v, w \in Workers : \A e \in inFlight(v), f \in inFlight(w) :
    AppOf[e] = AppOf[f] => e = f

\* The request of an event the lender has acknowledged goes out again only if the
\* event's lease was swept in between: neither a failed completion write nor a
\* retry schedule re-sends it by itself.
ResentOnlyAfterSweep == repeated \subseteq reclaimed

\* The row a task will complete is in the state the task left it: an owned row is
\* leased, is not waiting in the queue, and carries the attempt the task counts.
OwnedRowIsLeased ==
  \A w \in Workers, e \in Events :
    task[w][e].at # "idle" /\ Owns(w, e) =>
      /\ e \notin due
      /\ row[e].lease # "none"
      /\ row[e].attempts = task[w][e].attempts

\* The queue the callers see.
JobOf(status) ==
  CASE status = "ABSENT" -> "absent"
    [] status \in {"PENDING", "RETRY_PENDING"} -> "waiting"
    [] status = "PROCESSING" -> "held"
    [] status = "COMPLETED" -> "done"
    [] status = "FAILED" -> "dead"

jobState == [e \in Events |-> JobOf(row[e].status)]

Queue == INSTANCE LenderEventQueue WITH job <- jobState

\* The outbox with its leases, tokens, sweeps and crashes implements the plain job
\* queue; in particular a completed event is never claimed again.
ImplementsQueue == Queue!Spec

\* Every event that was enqueued is eventually completed or failed for good,
\* whatever stops, crashes and lease overruns happened on the way.
EveryEventSettles ==
  \A e \in Events :
    row[e].status = "PENDING" ~> row[e].status \in {"COMPLETED", "FAILED"}
================================================================================
