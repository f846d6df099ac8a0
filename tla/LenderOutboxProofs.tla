--------------------------- MODULE LenderOutboxProofs ---------------------------
(***************************************************************************)
(* Proofs about LenderOutbox for any number of rows, workers and tokens.   *)
(***************************************************************************)
EXTENDS LenderOutbox, TLAPS

Busy(w, e) == task[w][e].at # "idle"

\* No two running tasks, of the same or of different workers, share a token.
TokensDistinct ==
  /\ \A w \in Workers, e \in Events : Busy(w, e) => task[w][e].token # NoToken
  /\ \A v, w \in Workers, e, f \in Events :
       Busy(v, e) /\ Busy(w, f) /\ task[v][e].token = task[w][f].token
         => v = w /\ e = f

\* A row that is due is waiting, never leased or settled.
DueIsWaiting ==
  \A e \in due : row[e].status \in {"PENDING", "RETRY_PENDING"}

\* The fencing invariant in inductive form.
Fenced == TypeOK /\ TokensDistinct /\ DueIsWaiting /\ OwnedRowIsLeased

-------------------------------------------------------------------------------
(* Type correctness *)

\* Init establishes TypeOK.
LEMMA InitType == Init => TypeOK
  BY BoundAssumption, TokenAssumption
  DEF Init, TypeOK, RowsOK, DueOK, TasksOK, ProcessOK, HistoryOK, LeaseColumns,
      RowType, TaskType, RowStatus, TaskStep, NoRow, NoTask

\* Unlocking a row keeps its type and clears its lease columns.
LEMMA UnlockedType ==
  ASSUME NEW r \in RowType, NEW s \in RowStatus
  PROVE  /\ Unlocked(r, s) \in RowType
         /\ Unlocked(r, s).status = s
         /\ Unlocked(r, s).token = NoToken
         /\ Unlocked(r, s).lease = "none"
         /\ Unlocked(r, s).attempts = r.attempts
  BY DEF Unlocked, RowType

\* Writing one well-formed row.
LEMMA RowWrite ==
  ASSUME NEW e \in Events, NEW r \in RowType, RowsOK, LeaseColumns(r),
         row' = [row EXCEPT ![e] = r]
  PROVE  RowsOK'
<1>1. row' \in [Events -> RowType]
  BY DEF RowsOK
<1>2. \A f \in Events : row'[f] = IF f = e THEN r ELSE row[f]
  BY DEF RowsOK
<1> QED
  BY <1>1, <1>2 DEF RowsOK, LeaseColumns

\* Starting, moving or ending one task.
LEMMA TaskWrite ==
  ASSUME NEW w \in Workers, NEW e \in Events, NEW t \in TaskType, TasksOK, SetTask(w, e, t)
  PROVE  TasksOK'
  BY DEF TasksOK, SetTask

LEMMA TaskMove ==
  ASSUME NEW w \in Workers, NEW e \in Events, NEW s \in TaskStep, TasksOK, GoTo(w, e, s)
  PROVE  TasksOK'
  BY DEF TasksOK, GoTo, TaskType

\* Rows joining and leaving the due order.
LEMMA DueMove ==
  ASSUME NEW S \in SUBSET Events, DueOK, BecomeDue(S) \/ LeaveDue(S) \/ UNCHANGED <<due, before>>
  PROVE  DueOK'
  BY DEF DueOK, BecomeDue, LeaveDue

LEMMA NoTaskType == NoTask \in TaskType
  BY BoundAssumption DEF NoTask, TaskType, TaskStep

\* The row writes of each action are well formed.
LEMMA ClosingWrite ==
  ASSUME NEW e \in Events, NEW s \in RowStatus \ {"PROCESSING"}, RowsOK,
         row' = [row EXCEPT ![e] = Unlocked(@, s)]
  PROVE  RowsOK'
<1>1. row[e] \in RowType
  BY DEF RowsOK
<1>2. Unlocked(row[e], s) \in RowType /\ LeaseColumns(Unlocked(row[e], s))
  BY <1>1, UnlockedType DEF LeaseColumns
<1> QED
  BY <1>2, RowWrite

LEMMA SweepType ==
  ASSUME RowsOK, DueOK, HistoryOK, Sweep, UNCHANGED <<acked, repeated>>
  PROVE  RowsOK' /\ DueOK' /\ HistoryOK'
<1>0. ExpiredRows \in SUBSET Events
  BY DEF ExpiredRows
<1>1. ASSUME NEW e \in Events PROVE row'[e] \in RowType /\ LeaseColumns(row'[e])
  BY UnlockedType DEF Sweep, RowsOK, LeaseColumns, RowStatus
<1>2. RowsOK'
  BY <1>1 DEF Sweep, RowsOK
<1>3. DueOK'
  BY <1>0, DueMove DEF Sweep
<1> QED
  BY <1>0, <1>2, <1>3 DEF HistoryOK, Sweep

USE DEF queueVars, histVars

\* No step of the outbox or of a worker leaves TypeOK.
LEMMA TypeStep == TypeOK /\ [Next]_vars => TypeOK'
<1> SUFFICES ASSUME TypeOK, [Next]_vars PROVE TypeOK'
  OBVIOUS
<1> USE BoundAssumption, TokenAssumption, NoTaskType
<1>0. RowsOK /\ DueOK /\ TasksOK /\ ProcessOK /\ HistoryOK
  BY DEF TypeOK
<1>1. ASSUME NEW e \in Events, Enqueue(e) PROVE TypeOK'
  <2>1. row' = [row EXCEPT ![e] = [row[e] EXCEPT !.status = "PENDING"]]
    BY <1>1 DEF Enqueue
  <2>2. /\ [row[e] EXCEPT !.status = "PENDING"] \in RowType
        /\ LeaseColumns([row[e] EXCEPT !.status = "PENDING"])
    BY <1>0, <1>1 DEF Enqueue, RowsOK, RowType, RowStatus, LeaseColumns
  <2>3. RowsOK'
    BY <1>0, <2>1, <2>2, RowWrite
  <2>4. DueOK'
    BY <1>0, <1>1, DueMove DEF Enqueue
  <2> QED
    BY <1>0, <1>1, <2>3, <2>4 DEF Enqueue, TypeOK, TasksOK, ProcessOK, HistoryOK
<1>2. ASSUME NEW e \in Events, BackoffElapses(e) PROVE TypeOK'
  <2>1. DueOK'
    BY <1>0, <1>2, DueMove DEF BackoffElapses
  <2> QED
    BY <1>0, <1>2, <2>1 DEF BackoffElapses, TypeOK, RowsOK, LeaseColumns, TasksOK, ProcessOK, HistoryOK
<1>3. ASSUME NEW e \in Events, LeaseExpires(e) \/ LeaseOverrun(e) PROVE TypeOK'
  <2>1. row' = [row EXCEPT ![e] = [row[e] EXCEPT !.lease = "expired"]] /\ row[e].lease = "live"
    BY <1>3 DEF LeaseExpires, LeaseOverrun
  <2>2. /\ [row[e] EXCEPT !.lease = "expired"] \in RowType
        /\ LeaseColumns([row[e] EXCEPT !.lease = "expired"])
    BY <1>0, <2>1 DEF RowsOK, RowType, LeaseColumns
  <2>3. RowsOK'
    BY <1>0, <2>1, <2>2, RowWrite
  <2> QED
    BY <1>0, <1>3, <2>3
    DEF LeaseExpires, LeaseOverrun, TypeOK, DueOK, TasksOK, ProcessOK, HistoryOK
<1>4. ASSUME NEW w \in Workers, NEW e \in Events, claimNextEvent(w, e) PROVE TypeOK'
  <2>1. PICK t \in Tokens, n \in 0..MaxAttempts :
          /\ row' = [row EXCEPT ![e] = [status |-> "PROCESSING", attempts |-> n,
                                        token |-> t, lease |-> "live"]]
          /\ SetTask(w, e, [at |-> "claimed", token |-> t, attempts |-> n, retry |-> FALSE])
    <3>1. row[e].attempts \in 0..MaxAttempts
      BY <1>0 DEF RowsOK, RowType
    <3>2. (IF row[e].attempts < MaxAttempts THEN row[e].attempts + 1 ELSE MaxAttempts)
            \in 0..MaxAttempts
      BY <3>1
    <3> QED
      BY <1>4, <3>2 DEF claimNextEvent
  <2>2. RowsOK'
    BY <1>0, <2>1, RowWrite DEF RowType, RowStatus, LeaseColumns
  <2>3. TasksOK'
    BY <1>0, <2>1, TaskWrite DEF TaskType, TaskStep
  <2>4. DueOK'
    BY <1>0, <1>4, DueMove DEF claimNextEvent
  <2> QED
    BY <1>0, <1>4, <2>2, <2>3, <2>4 DEF claimNextEvent, TypeOK, ProcessOK, HistoryOK
<1>5. ASSUME NEW w \in Workers, NEW e \in Events, Step(w, e) PROVE TypeOK'
  <2>1. task[w][e] \in TaskType
    BY <1>0 DEF TasksOK
  <2>2. \A b \in BOOLEAN, s \in TaskStep : [task[w][e] EXCEPT !.at = s, !.retry = b] \in TaskType
    BY <2>1 DEF TaskType
  <2>3. {"idle", "claimed", "calling", "completing", "closing", "failing", "recording",
         "settling"} \subseteq TaskStep
    BY DEF TaskStep
  <2>4. TasksOK'
    <3>1. CASE processEvent(w, e)
      BY <1>0, <2>2, <2>3, <3>1, TaskWrite, TaskMove DEF processEvent
    <3>2. CASE LenderAcknowledges(w, e) \/ LenderFails(w, e)
      BY <1>0, <2>2, <2>3, <3>2, TaskWrite, TaskMove DEF LenderAcknowledges, LenderFails
    <3>3. CASE completeEvent(w, e) \/ closeWithoutCall(w, e) \/ CompletionError(w, e)
      BY <1>0, <2>2, <2>3, <3>3, TaskWrite DEF completeEvent, closeWithoutCall, CompletionError
    <3>4. CASE checkStillOwned(w, e) \/ settleFailure(w, e) \/ AbandonTask(w, e)
      BY <1>0, <2>3, <3>4, TaskWrite, TaskMove DEF checkStillOwned, settleFailure, AbandonTask
    <3>5. CASE markStageFailure(w, e)
      <4>1. (task[w][e].retry /\ task[w][e].attempts < MaxAttempts) \in BOOLEAN
        OBVIOUS
      <4>2. [task[w][e] EXCEPT !.at = "settling",
               !.retry = @ /\ task[w][e].attempts < MaxAttempts] \in TaskType
        BY <2>1, <2>3, <4>1 DEF TaskType
      <4> QED
        BY <1>0, <3>5, <4>2, TaskWrite DEF markStageFailure
    <3> QED
      BY <1>5, <3>1, <3>2, <3>3, <3>4, <3>5 DEF Step
  <2>5. RowsOK' /\ DueOK'
    <3>1. CASE UNCHANGED queueVars
      BY <1>0, <3>1 DEF RowsOK, LeaseColumns, DueOK
    <3>2. CASE completeEvent(w, e) \/ closeWithoutCall(w, e)
      <4>1. RowsOK'
        BY <1>0, <3>2, ClosingWrite
        DEF completeEvent, closeWithoutCall, RowStatus, RowsOK, LeaseColumns
      <4> QED
        BY <1>0, <3>2, <4>1 DEF completeEvent, closeWithoutCall, DueOK
    <3>3. CASE settleFailure(w, e)
      <4>1. RowsOK'
        BY <1>0, <3>3, ClosingWrite DEF settleFailure, RowStatus, RowsOK, LeaseColumns
      <4>2. DueOK'
        BY <1>0, <3>3, DueMove DEF settleFailure
      <4> QED
        BY <4>1, <4>2
    <3> QED
      BY <1>5, <3>1, <3>2, <3>3
      DEF Step, processEvent, LenderAcknowledges, LenderFails, CompletionError,
          checkStillOwned, markStageFailure, AbandonTask
  <2>6. HistoryOK'
    <3>1. CASE LenderAcknowledges(w, e)
      BY <1>0, <3>1 DEF LenderAcknowledges, HistoryOK
    <3>2. CASE UNCHANGED histVars
      BY <1>0, <3>2 DEF HistoryOK
    <3> QED
      BY <1>5, <3>1, <3>2
      DEF Step, processEvent, LenderFails, completeEvent, closeWithoutCall, settleFailure,
          CompletionError, checkStillOwned, markStageFailure, AbandonTask
  <2>7. ProcessOK'
    <3>1. CASE AbandonTask(w, e)
      BY <1>0, <3>1 DEF AbandonTask, ProcessOK
    <3>2. CASE UNCHANGED <<mode, faults>>
      BY <1>0, <3>2 DEF ProcessOK
    <3> QED
      BY <1>5, <3>1, <3>2
      DEF Step, processEvent, LenderAcknowledges, LenderFails, completeEvent,
          closeWithoutCall, settleFailure, CompletionError, checkStillOwned, markStageFailure
  <2> QED
    BY <2>4, <2>5, <2>6, <2>7 DEF TypeOK
<1>6. ASSUME NEW w \in Workers, Process(w) PROVE TypeOK'
  <2>1. CASE recoverStaleEvents(w)
    BY <1>0, <2>1, SweepType DEF recoverStaleEvents, TypeOK, TasksOK, ProcessOK
  <2>2. CASE onModuleInit(w)
    <3>1. RowsOK' /\ DueOK' /\ HistoryOK'
      BY <1>0, <2>2, SweepType DEF onModuleInit, RowsOK, LeaseColumns, DueOK, HistoryOK
    <3> QED
      BY <1>0, <2>2, <3>1 DEF onModuleInit, TypeOK, TasksOK, ProcessOK
  <2>3. CASE onModuleDestroy(w)
    BY <1>0, <2>3
    DEF onModuleDestroy, TypeOK, RowsOK, LeaseColumns, DueOK, TasksOK, ProcessOK, HistoryOK
  <2>4. CASE Exit(w) \/ Crash(w)
    <3>1. TasksOK'
      BY <1>0, <2>4 DEF Exit, Crash, LoseMemory, TasksOK
    <3>2. ProcessOK'
      BY <1>0, <2>4 DEF Exit, Crash, LoseMemory, ProcessOK
    <3>3. RowsOK' /\ DueOK' /\ HistoryOK'
      BY <1>0, <2>4 DEF Exit, Crash, RowsOK, LeaseColumns, DueOK, HistoryOK
    <3> QED
      BY <3>1, <3>2, <3>3 DEF TypeOK
  <2> QED
    BY <1>6, <2>1, <2>2, <2>3, <2>4 DEF Process
<1>7. CASE UNCHANGED vars
  BY <1>0, <1>7
  DEF vars, TypeOK, RowsOK, LeaseColumns, DueOK, TasksOK, ProcessOK, HistoryOK
<1> QED
  BY <1>1, <1>2, <1>3, <1>4, <1>5, <1>6, <1>7 DEF Next

\* TypeOK holds in every reachable state: statuses, tokens and leases of the table
\* and the memory of every worker keep their types, and a row carries a token and
\* a lease exactly while it is PROCESSING.
THEOREM OutboxTypeCorrect == Spec => []TypeOK
  BY InitType, TypeStep, PTL DEF Spec

-------------------------------------------------------------------------------
(* Fencing *)

\* Outside a claim, a running task was running before, with the same token and
\* the same attempt number.
TasksContinue ==
  \A w \in Workers, e \in Events :
    Busy(w, e)' => /\ Busy(w, e)
                   /\ task'[w][e].token = task[w][e].token
                   /\ task'[w][e].attempts = task[w][e].attempts

\* Outside a claim, a leased row was leased before under the same token.
LeasesContinue ==
  \A e \in Events :
    row'[e].status = "PROCESSING" =>
      /\ row[e].status = "PROCESSING"
      /\ row'[e].token = row[e].token
      /\ row'[e].attempts = row[e].attempts

Claims == \E w \in Workers, e \in Events : claimNextEvent(w, e)

\* Ending a task, or moving it to another step, lets all tasks continue.
LEMMA TaskEnds ==
  ASSUME NEW w \in Workers, NEW e \in Events, TypeOK, SetTask(w, e, NoTask)
  PROVE  TasksContinue
  BY DEF TypeOK, TasksOK, SetTask, TasksContinue, Busy, NoTask

LEMMA TaskMoves ==
  ASSUME NEW w \in Workers, NEW e \in Events, TypeOK, Busy(w, e), NEW t \in TaskType,
         t.token = task[w][e].token, t.attempts = task[w][e].attempts,
         SetTask(w, e, t)
  PROVE  TasksContinue
  BY DEF TypeOK, TasksOK, SetTask, TasksContinue, Busy

\* Only a claim starts a task.
LEMMA TasksOnlyStartByClaim == TypeOK /\ [Next]_vars => Claims \/ TasksContinue
<1> SUFFICES ASSUME TypeOK, [Next]_vars PROVE Claims \/ TasksContinue
  OBVIOUS
<1>1. CASE UNCHANGED task
  BY <1>1 DEF TasksContinue, Busy
<1>2. ASSUME NEW w \in Workers, NEW e \in Events, Step(w, e) PROVE TasksContinue
  <2>1. task[w][e] \in TaskType
    BY DEF TypeOK, TasksOK
  <2>2. \A s \in TaskStep, b \in BOOLEAN :
          LET t == [task[w][e] EXCEPT !.at = s, !.retry = b]
          IN  t \in TaskType /\ t.token = task[w][e].token /\ t.attempts = task[w][e].attempts
    BY <2>1 DEF TaskType
  <2>3. \A s \in TaskStep :
          LET t == [task[w][e] EXCEPT !.at = s]
          IN  t \in TaskType /\ t.token = task[w][e].token /\ t.attempts = task[w][e].attempts
    BY <2>1 DEF TaskType
  <2>4. ASSUME NEW s \in TaskStep, GoTo(w, e, s) PROVE SetTask(w, e, [task[w][e] EXCEPT !.at = s])
    BY <2>4 DEF GoTo, SetTask
  <2>5. {"calling", "completing", "closing", "failing", "recording", "settling"} \subseteq TaskStep
    BY DEF TaskStep
  <2>6. CASE SetTask(w, e, NoTask)
    BY <2>6, TaskEnds
  <2>7. CASE Busy(w, e) /\ \E s \in TaskStep : GoTo(w, e, s)
    <3>1. PICK s \in TaskStep : GoTo(w, e, s)
      BY <2>7
    <3> QED
      BY <2>3, <2>4, <2>7, <3>1, TaskMoves
  <2>8. CASE Busy(w, e) /\ \E s \in TaskStep, b \in BOOLEAN :
               SetTask(w, e, [task[w][e] EXCEPT !.at = s, !.retry = b])
    <3>1. PICK s \in TaskStep, b \in BOOLEAN :
               SetTask(w, e, [task[w][e] EXCEPT !.at = s, !.retry = b])
      BY <2>8
    <3> QED
      BY <2>2, <2>8, <3>1, TaskMoves
  <2>9. CASE processEvent(w, e) \/ LenderFails(w, e) \/ CompletionError(w, e)
             \/ completeEvent(w, e)
    BY <2>5, <2>6, <2>7, <2>8, <2>9
    DEF processEvent, LenderFails, CompletionError, completeEvent, Busy
  <2>10. CASE LenderAcknowledges(w, e) \/ closeWithoutCall(w, e) \/ checkStillOwned(w, e)
              \/ settleFailure(w, e) \/ AbandonTask(w, e)
    BY <2>5, <2>6, <2>7, <2>10
    DEF LenderAcknowledges, closeWithoutCall, checkStillOwned, settleFailure, AbandonTask, Busy
  <2>11. CASE markStageFailure(w, e)
    <3>1. (task[w][e].retry /\ task[w][e].attempts < MaxAttempts) \in BOOLEAN
      OBVIOUS
    <3>2. Busy(w, e) /\ SetTask(w, e, [task[w][e] EXCEPT !.at = "settling",
             !.retry = task[w][e].retry /\ task[w][e].attempts < MaxAttempts])
      BY <2>11, <2>1 DEF markStageFailure, Busy
    <3> QED
      BY <2>5, <2>8, <3>1, <3>2
  <2> QED
    BY <1>2, <2>9, <2>10, <2>11 DEF Step
<1>3. ASSUME NEW w \in Workers, Process(w) PROVE TasksContinue
  <2>1. CASE LoseMemory(w)
    BY <2>1 DEF LoseMemory, TypeOK, TasksOK, TasksContinue, Busy, NoTask
  <2> QED
    BY <1>1, <1>3, <2>1
    DEF Process, recoverStaleEvents, onModuleInit, onModuleDestroy, Exit, Crash, TasksContinue, Busy
<1> QED
  BY <1>1, <1>2, <1>3
  DEF Next, vars, Claims, Enqueue, BackoffElapses, LeaseExpires, LeaseOverrun, TasksContinue, Busy

\* Only a claim leases a row.
LEMMA LeasesOnlyStartByClaim == TypeOK /\ [Next]_vars => Claims \/ LeasesContinue
<1> SUFFICES ASSUME TypeOK, [Next]_vars PROVE Claims \/ LeasesContinue
  OBVIOUS
<1>0. row \in [Events -> RowType]
  BY DEF TypeOK, RowsOK
<1>1. ASSUME UNCHANGED row PROVE LeasesContinue
  BY <1>1 DEF LeasesContinue
<1>2. ASSUME NEW e \in Events, NEW s \in RowStatus \ {"PROCESSING"},
             row' = [row EXCEPT ![e] = Unlocked(@, s)]
      PROVE  LeasesContinue
  BY <1>0, <1>2, UnlockedType DEF LeasesContinue
<1>3. ASSUME NEW w \in Workers, NEW e \in Events, Step(w, e) PROVE LeasesContinue
  <2>1. CASE completeEvent(w, e) \/ closeWithoutCall(w, e) \/ settleFailure(w, e)
    BY <1>1, <1>2, <2>1 DEF completeEvent, closeWithoutCall, settleFailure, RowStatus
  <2> QED
    BY <1>1, <1>3, <2>1
    DEF Step, processEvent, LenderAcknowledges, LenderFails, CompletionError,
        checkStillOwned, markStageFailure, AbandonTask
<1>4. ASSUME NEW w \in Workers, Process(w) PROVE LeasesContinue
  <2>1. CASE Sweep
    <3>1. ASSUME NEW e \in Events
          PROVE  row'[e] = row[e] \/ row'[e] = Unlocked(row[e], "RETRY_PENDING")
      BY <2>1 DEF Sweep
    <3>2. ASSUME NEW e \in Events
          PROVE  Unlocked(row[e], "RETRY_PENDING").status = "RETRY_PENDING"
      BY <1>0, UnlockedType DEF RowStatus
    <3> QED
      BY <3>1, <3>2 DEF LeasesContinue
  <2> QED
    BY <1>1, <1>4, <2>1
    DEF Process, recoverStaleEvents, onModuleInit, onModuleDestroy, Exit, Crash
<1>5. ASSUME NEW e \in Events, Enqueue(e) \/ LeaseExpires(e) \/ LeaseOverrun(e)
      PROVE  LeasesContinue
  BY <1>0, <1>5 DEF Enqueue, LeaseExpires, LeaseOverrun, LeasesContinue, RowType
<1> QED
  BY <1>1, <1>3, <1>4, <1>5 DEF Next, vars, Claims, BackoffElapses

\* What a claim writes: a fresh token, the same in the row and in the new task.
LEMMA ClaimWrites ==
  ASSUME NEW w \in Workers, NEW e \in Events, TypeOK, claimNextEvent(w, e)
  PROVE  \E t \in Tokens \ TokensInUse, n \in 0..MaxAttempts :
           /\ row' = [row EXCEPT ![e] = [status |-> "PROCESSING", attempts |-> n,
                                         token |-> t, lease |-> "live"]]
           /\ task' = [task EXCEPT ![w][e] = [at |-> "claimed", token |-> t,
                                              attempts |-> n, retry |-> FALSE]]
<1>1. row[e].attempts \in 0..MaxAttempts
  BY DEF TypeOK, RowsOK, RowType
<1>2. (IF row[e].attempts < MaxAttempts THEN row[e].attempts + 1 ELSE MaxAttempts)
        \in 0..MaxAttempts
  BY <1>1, BoundAssumption
<1> QED
  BY <1>2 DEF claimNextEvent, SetTask

\* The fencing invariant is inductive.
LEMMA FencedStep == Fenced /\ [Next]_vars => Fenced'
<1> SUFFICES ASSUME Fenced, [Next]_vars PROVE Fenced'
  OBVIOUS
<1>0. TypeOK /\ TokensDistinct /\ DueIsWaiting /\ OwnedRowIsLeased
  BY DEF Fenced
<1>1. TypeOK'
  BY <1>0, TypeStep
<1>2. TokensDistinct'
  <2>1. CASE TasksContinue
    BY <1>0, <2>1 DEF TasksContinue, TokensDistinct, Busy
  <2>2. ASSUME NEW w \in Workers, NEW e \in Events, claimNextEvent(w, e) PROVE TokensDistinct'
    <3>1. PICK t \in Tokens \ TokensInUse, n \in 0..MaxAttempts :
            task' = [task EXCEPT ![w][e] = [at |-> "claimed", token |-> t,
                                            attempts |-> n, retry |-> FALSE]]
      BY <1>0, <2>2, ClaimWrites
    <3>2. \A v \in Workers, f \in Events : task[v][f].token # t
      BY <3>1 DEF TokensInUse
    <3>3. t # NoToken
      BY TokenAssumption
    <3>4. \A v \in Workers, f \in Events :
            task'[v][f] = IF v = w /\ f = e
                            THEN [at |-> "claimed", token |-> t, attempts |-> n, retry |-> FALSE]
                            ELSE task[v][f]
      BY <1>0, <3>1 DEF TypeOK, TasksOK
    <3> QED
      BY <1>0, <3>2, <3>3, <3>4 DEF TokensDistinct, Busy
  <2> QED
    BY <1>0, <2>1, <2>2, TasksOnlyStartByClaim DEF Claims
<1>3. DueIsWaiting'
  <2>0. row \in [Events -> RowType] /\ due \subseteq Events
    BY <1>0 DEF TypeOK, RowsOK, DueOK
  <2>1. CASE UNCHANGED <<row, due>>
    BY <1>0, <2>1 DEF DueIsWaiting
  <2>2. ASSUME NEW e \in Events, Enqueue(e) \/ BackoffElapses(e) \/ LeaseExpires(e) \/ LeaseOverrun(e)
        PROVE  DueIsWaiting'
    BY <1>0, <2>0, <2>2
    DEF DueIsWaiting, Enqueue, BackoffElapses, LeaseExpires, LeaseOverrun, BecomeDue, RowType
  <2>3. ASSUME NEW w \in Workers, NEW e \in Events, claimNextEvent(w, e) PROVE DueIsWaiting'
    BY <1>0, <2>0, <2>3, ClaimWrites DEF DueIsWaiting, claimNextEvent, LeaveDue
  <2>4. ASSUME NEW w \in Workers, NEW e \in Events, Step(w, e) PROVE DueIsWaiting'
    <3>1. CASE Owns(w, e) /\ due' = due /\ \E s \in RowStatus : row' = [row EXCEPT ![e] = Unlocked(@, s)]
      BY <1>0, <2>0, <3>1 DEF DueIsWaiting, Owns
    <3>2. CASE Owns(w, e) /\ due' = due \cup {e} /\ row' = [row EXCEPT ![e] = Unlocked(@, "RETRY_PENDING")]
      BY <1>0, <2>0, <3>2, UnlockedType DEF DueIsWaiting, RowStatus
    <3>3. CASE settleFailure(w, e)
      BY <2>1, <3>1, <3>2, <3>3 DEF settleFailure, BecomeDue, RowStatus
    <3>4. CASE completeEvent(w, e) \/ closeWithoutCall(w, e)
      BY <2>1, <3>1, <3>4 DEF completeEvent, closeWithoutCall, RowStatus
    <3> QED
      BY <2>1, <2>4, <3>3, <3>4
      DEF Step, processEvent, LenderAcknowledges, LenderFails, CompletionError,
          checkStillOwned, markStageFailure, AbandonTask
  <2>5. ASSUME NEW w \in Workers, Process(w) PROVE DueIsWaiting'
    <3>1. CASE Sweep
      BY <1>0, <2>0, <3>1, UnlockedType
      DEF Sweep, ExpiredRows, BecomeDue, DueIsWaiting, RowStatus
    <3> QED
      BY <2>1, <2>5, <3>1
      DEF Process, recoverStaleEvents, onModuleInit, onModuleDestroy, Exit, Crash
  <2> QED
    BY <2>1, <2>2, <2>3, <2>4, <2>5 DEF Next, vars
<1>4. OwnedRowIsLeased'
  <2> SUFFICES ASSUME NEW w \in Workers, NEW e \in Events, Busy(w, e)', Owns(w, e)'
               PROVE  row'[e].attempts = task'[w][e].attempts
    BY <1>1, <1>3 DEF OwnedRowIsLeased, Busy, Owns, DueIsWaiting, TypeOK, RowsOK, LeaseColumns
  <2>1. CASE TasksContinue /\ LeasesContinue
    BY <1>0, <2>1 DEF TasksContinue, LeasesContinue, OwnedRowIsLeased, Busy, Owns
  <2>2. ASSUME NEW v \in Workers, NEW f \in Events, claimNextEvent(v, f)
        PROVE  row'[e].attempts = task'[w][e].attempts
    <3>1. PICK t \in Tokens \ TokensInUse, n \in 0..MaxAttempts :
            /\ row' = [row EXCEPT ![f] = [status |-> "PROCESSING", attempts |-> n,
                                          token |-> t, lease |-> "live"]]
            /\ task' = [task EXCEPT ![v][f] = [at |-> "claimed", token |-> t,
                                               attempts |-> n, retry |-> FALSE]]
      BY <1>0, <2>2, ClaimWrites
    <3>2. task[w][e].token # t
      BY <3>1 DEF TokensInUse
    <3>3. /\ row'[e] = IF e = f THEN [status |-> "PROCESSING", attempts |-> n,
                                      token |-> t, lease |-> "live"] ELSE row[e]
          /\ task'[w][e] = IF w = v /\ e = f THEN [at |-> "claimed", token |-> t,
                                                   attempts |-> n, retry |-> FALSE] ELSE task[w][e]
      BY <1>0, <3>1 DEF TypeOK, RowsOK, TasksOK
    <3> QED
      BY <1>0, <3>2, <3>3 DEF OwnedRowIsLeased, Busy, Owns
  <2> QED
    BY <1>0, <2>1, <2>2, TasksOnlyStartByClaim, LeasesOnlyStartByClaim DEF Claims
<1> QED
  BY <1>1, <1>2, <1>3, <1>4 DEF Fenced

\* The fencing invariant holds initially.
LEMMA FencedInit == Init => Fenced
  BY InitType DEF Init, Fenced, TokensDistinct, DueIsWaiting, OwnedRowIsLeased, Busy, NoTask

\* Distinct tokens leave a row at most one owner.
LEMMA FencedImpliesOneOwner == Fenced => OneOwner
  BY DEF Fenced, TokensDistinct, OneOwner, Busy, Owns

\* For any number of workers, rows and faults: at most one task can pass the
\* where-clause {id, status: PROCESSING, lockToken} of the outcome writes.
THEOREM OutboxFencing == Spec => []OneOwner
  BY FencedInit, FencedStep, FencedImpliesOneOwner, PTL DEF Spec

\* An owned row is leased, out of the queue and on the attempt its task counts.
THEOREM OutboxOwnedRowIsLeased == Spec => []OwnedRowIsLeased
<1>1. Fenced => OwnedRowIsLeased
  BY DEF Fenced
<1> QED
  BY FencedInit, FencedStep, <1>1, PTL DEF Spec

-------------------------------------------------------------------------------
(* One event per application at a time, with the single worker that is deployed *)

OneWorker == \A v, w \in Workers : v = w

\* With one worker process, no two events of an application are ever in progress
\* together, although expired leases and sweeps make rows claimable again.
THEOREM OutboxSingleFlight == OneWorker => (Spec => []SingleFlight)
<1> SUFFICES ASSUME OneWorker PROVE Spec => []SingleFlight
  OBVIOUS
<1> DEFINE I == TypeOK /\ SingleFlight
<1>1. Init => I
  BY InitType DEF Init, SingleFlight, inFlight, NoTask
<1>2. I /\ [Next]_vars => I'
  <2> SUFFICES ASSUME I, [Next]_vars PROVE SingleFlight'
    BY TypeStep
  <2>1. CASE TasksContinue
    BY <2>1 DEF TasksContinue, SingleFlight, inFlight, Busy
  <2>2. ASSUME NEW w \in Workers, NEW e \in Events, claimNextEvent(w, e) PROVE SingleFlight'
    <3>1. \A v \in Workers, f \in Events : f # e => task'[v][f] = task[v][f]
      BY <2>2, ClaimWrites DEF TypeOK, TasksOK
    <3>2. \A f \in inFlight(w) : AppOf[f] # AppOf[e]
      BY <2>2 DEF claimNextEvent, Claimable, busyApplications
    <3> QED
      BY <3>1, <3>2 DEF SingleFlight, inFlight, OneWorker
  <2> QED
    BY <2>1, <2>2, TasksOnlyStartByClaim DEF Claims
<1> QED
  BY <1>1, <1>2, PTL DEF Spec

-------------------------------------------------------------------------------
(* Implementation of the plain job queue *)

\* A step that moves the statuses of the rows of S, and of no other row.
LEMMA StatusMove ==
  ASSUME NEW S \in SUBSET Events, NEW from, NEW to,
         \A e \in S : JobOf(row[e].status) = from /\ JobOf(row'[e].status) = to,
         \A e \in Events \ S : row'[e].status = row[e].status
  PROVE  Queue!Move(S, from, to)
  BY DEF Queue!Move, jobState

\* A step that moves no status is a stuttering step of the queue.
LEMMA StatusKept ==
  ASSUME \A e \in Events : row'[e].status = row[e].status
  PROVE  UNCHANGED jobState
  BY DEF jobState

\* Every step of the outbox is a step of the queue or leaves it alone.
LEMMA QueueStep == TypeOK /\ [Next]_vars => [Queue!Next]_jobState
<1> SUFFICES ASSUME TypeOK, [Next]_vars PROVE [Queue!Next]_jobState
  OBVIOUS
<1>0. row \in [Events -> RowType]
  BY DEF TypeOK, RowsOK
<1>1. CASE UNCHANGED row
  BY <1>1, StatusKept
<1>2. ASSUME NEW e \in Events, Enqueue(e) PROVE Queue!Submit
  <2>1. Queue!Move({e}, "absent", "waiting")
    BY <1>0, <1>2, StatusMove DEF Enqueue, JobOf, RowType
  <2> QED
    BY <2>1 DEF Queue!Submit
<1>3. ASSUME NEW e \in Events, LeaseExpires(e) \/ LeaseOverrun(e) PROVE UNCHANGED jobState
  BY <1>0, <1>3, StatusKept DEF LeaseExpires, LeaseOverrun, RowType
<1>4. ASSUME NEW w \in Workers, NEW e \in Events, claimNextEvent(w, e) PROVE Queue!Hold
  <2>1. JobOf(row[e].status) = "waiting"
    BY <1>4 DEF claimNextEvent, Claimable, JobOf
  <2>2. row'[e].status = "PROCESSING" /\ \A f \in Events \ {e} : row'[f] = row[f]
    BY <1>0, <1>4, ClaimWrites
  <2>3. Queue!Move({e}, "waiting", "held")
    BY <2>1, <2>2, StatusMove DEF JobOf
  <2> QED
    BY <2>3 DEF Queue!Hold
<1>5. ASSUME NEW w \in Workers, NEW e \in Events, Owns(w, e),
             NEW s \in RowStatus \ {"PROCESSING"}, row' = [row EXCEPT ![e] = Unlocked(@, s)]
      PROVE  Queue!Move({e}, "held", JobOf(s))
  <2>1. row'[e].status = s /\ \A f \in Events \ {e} : row'[f] = row[f]
    BY <1>0, <1>5, UnlockedType
  <2>2. JobOf(row[e].status) = "held"
    BY <1>5 DEF Owns, JobOf
  <2> QED
    BY <2>1, <2>2, StatusMove
<1>6. /\ JobOf("COMPLETED") = "done" /\ JobOf("FAILED") = "dead"
      /\ JobOf("RETRY_PENDING") = "waiting"
  BY DEF JobOf
<1>7. ASSUME NEW w \in Workers, NEW e \in Events, Step(w, e) PROVE [Queue!Next]_jobState
  <2>1. CASE completeEvent(w, e) \/ closeWithoutCall(w, e)
    BY <1>1, <1>5, <1>6, <2>1
    DEF completeEvent, closeWithoutCall, RowStatus, Queue!Next, Queue!Finish
  <2>2. CASE settleFailure(w, e)
    <3>1. CASE Owns(w, e) /\ row' = [row EXCEPT ![e] = Unlocked(@, "RETRY_PENDING")]
      <4>1. Queue!Move({e}, "held", "waiting")
        BY <1>5, <1>6, <3>1 DEF RowStatus
      <4> QED
        BY <4>1 DEF Queue!Next, Queue!Release
    <3>2. CASE Owns(w, e) /\ row' = [row EXCEPT ![e] = Unlocked(@, "FAILED")]
      <4>1. Queue!Move({e}, "held", "dead")
        BY <1>5, <1>6, <3>2 DEF RowStatus
      <4> QED
        BY <4>1 DEF Queue!Next, Queue!GiveUp
    <3> QED
      BY <1>1, <2>2, <3>1, <3>2 DEF settleFailure
  <2> QED
    BY <1>1, <1>7, <2>1, <2>2
    DEF Step, processEvent, LenderAcknowledges, LenderFails, CompletionError,
        checkStillOwned, markStageFailure, AbandonTask
<1>8. ASSUME NEW w \in Workers, Process(w) PROVE [Queue!Next]_jobState
  <2>1. CASE Sweep
    <3>1. \A e \in ExpiredRows : /\ JobOf(row[e].status) = "held"
                                 /\ row'[e].status = "RETRY_PENDING"
      BY <1>0, <2>1, UnlockedType DEF Sweep, ExpiredRows, JobOf, RowStatus
    <3>2. \A e \in Events \ ExpiredRows : row'[e] = row[e]
      BY <2>1 DEF Sweep
    <3>3. Queue!Move(ExpiredRows, "held", "waiting")
      BY <1>6, <3>1, <3>2, StatusMove DEF ExpiredRows
    <3> QED
      BY <3>3 DEF Queue!Next, Queue!Release, ExpiredRows
  <2> QED
    BY <1>1, <1>8, <2>1
    DEF Process, recoverStaleEvents, onModuleInit, onModuleDestroy, Exit, Crash
<1> QED
  BY <1>1, <1>2, <1>3, <1>4, <1>7, <1>8 DEF Next, vars, BackoffElapses, Queue!Next

\* The outbox implements the job queue its callers rely on: an enqueued event is
\* claimed, may return to waiting any number of times, ends done or dead, and is
\* never claimed again once it is done.
THEOREM OutboxImplementsQueue == Spec => ImplementsQueue
<1>1. Init => Queue!Init
  BY DEF Init, Queue!Init, jobState, JobOf, NoRow
<1> QED
  BY <1>1, InitType, TypeStep, QueueStep, PTL DEF Spec, ImplementsQueue, Queue!Spec

-------------------------------------------------------------------------------
(* When a request goes out twice *)

\* Unless its lease was swept, a running task owns its row.
UnsweptIsOwned ==
  \A w \in Workers, e \in Events : Busy(w, e) /\ e \notin reclaimed => Owns(w, e)

\* Steps of a task that lead to no further lender call.
PastTheCall(t) ==
  t.at = "completing" \/ (t.at \in {"failing", "recording", "settling"} /\ ~t.retry)

\* Unless its lease was swept, an acknowledged event is out of the queue and no
\* task can still call the lender for it.
AckedIsPast ==
  \A e \in acked \ reclaimed :
    /\ row[e].status \in {"PROCESSING", "COMPLETED", "FAILED"}
    /\ \A w \in Workers : Busy(w, e) => PastTheCall(task[w][e])

CallsOnce == Fenced /\ UnsweptIsOwned /\ AckedIsPast /\ ResentOnlyAfterSweep

\* A step of one task touches no other task.
LEMMA StepIsLocal ==
  ASSUME NEW w \in Workers, NEW e \in Events, Step(w, e),
         task \in [Workers -> [Events -> TaskType]]
  PROVE  \A v \in Workers, f \in Events : v # w \/ f # e => task'[v][f] = task[v][f]
<1>1. ASSUME NEW t, SetTask(w, e, t)
      PROVE  \A v \in Workers, f \in Events : v # w \/ f # e => task'[v][f] = task[v][f]
  BY <1>1 DEF SetTask
<1>2. ASSUME NEW s, GoTo(w, e, s)
      PROVE  \A v \in Workers, f \in Events : v # w \/ f # e => task'[v][f] = task[v][f]
  BY <1>2 DEF GoTo
<1>3. CASE processEvent(w, e) \/ LenderFails(w, e) \/ LenderAcknowledges(w, e)
  BY <1>1, <1>2, <1>3 DEF processEvent, LenderFails, LenderAcknowledges
<1>4. CASE completeEvent(w, e) \/ closeWithoutCall(w, e) \/ CompletionError(w, e)
           \/ AbandonTask(w, e)
  BY <1>1, <1>4 DEF completeEvent, closeWithoutCall, CompletionError, AbandonTask
<1>5. CASE checkStillOwned(w, e) \/ markStageFailure(w, e) \/ settleFailure(w, e)
  BY <1>1, <1>2, <1>5 DEF checkStillOwned, markStageFailure, settleFailure
<1> QED
  BY <1>3, <1>4, <1>5 DEF Step

\* The first part: every way a row leaves its task ends that task or sweeps the row.
LEMMA UnsweptIsOwnedStep == CallsOnce /\ [Next]_vars => UnsweptIsOwned'
<1> SUFFICES ASSUME CallsOnce, [Next]_vars, NEW v \in Workers, NEW f \in Events,
                    Busy(v, f)', f \notin reclaimed'
             PROVE  Owns(v, f)'
  BY DEF UnsweptIsOwned
<1>0. /\ TypeOK /\ UnsweptIsOwned /\ OneOwner
      /\ row \in [Events -> RowType] /\ task \in [Workers -> [Events -> TaskType]]
  BY FencedImpliesOneOwner DEF CallsOnce, Fenced, TypeOK, RowsOK, TasksOK
<1>1. ASSUME TasksContinue, f \notin reclaimed,
             row[f].status = "PROCESSING" => /\ row'[f].status = row[f].status
                                             /\ row'[f].token = row[f].token
      PROVE  Owns(v, f)'
  BY <1>0, <1>1 DEF TasksContinue, UnsweptIsOwned, Owns
<1>2. ASSUME NEW w \in Workers, NEW e \in Events, claimNextEvent(w, e) PROVE Owns(v, f)'
  <2>1. row[e].status # "PROCESSING" /\ f \notin reclaimed
    BY <1>2 DEF claimNextEvent, Claimable
  <2>2. PICK t \in Tokens, n \in 0..MaxAttempts :
          /\ row' = [row EXCEPT ![e] = [status |-> "PROCESSING", attempts |-> n,
                                        token |-> t, lease |-> "live"]]
          /\ task' = [task EXCEPT ![w][e] = [at |-> "claimed", token |-> t,
                                             attempts |-> n, retry |-> FALSE]]
    BY <1>0, <1>2, ClaimWrites
  <2>3. CASE f # e
    BY <1>0, <2>1, <2>2, <2>3 DEF UnsweptIsOwned, Owns, Busy
  <2>4. CASE f = e
    BY <1>0, <2>1, <2>2, <2>4 DEF UnsweptIsOwned, Owns, Busy
  <2> QED
    BY <2>3, <2>4
<1>3. CASE Claims
  BY <1>2, <1>3 DEF Claims
<1>4. CASE ~Claims
  <2>0. TasksContinue
    BY <1>0, <1>4, TasksOnlyStartByClaim
  <2>1. CASE UNCHANGED <<row, reclaimed>>
    BY <1>1, <2>0, <2>1
  <2>2. ASSUME NEW e \in Events, Enqueue(e) \/ LeaseExpires(e) \/ LeaseOverrun(e)
        PROVE  Owns(v, f)'
    <3>1. f \notin reclaimed
      BY <2>2 DEF Enqueue, LeaseExpires, LeaseOverrun
    <3>2. row[f].status = "PROCESSING" => /\ row'[f].status = row[f].status
                                          /\ row'[f].token = row[f].token
      <4>1. CASE Enqueue(e)
        BY <1>0, <4>1 DEF Enqueue, RowType
      <4>2. CASE row' = [row EXCEPT ![e].lease = "expired"]
        BY <1>0, <4>2 DEF RowType
      <4> QED
        BY <2>2, <4>1, <4>2 DEF LeaseExpires, LeaseOverrun
    <3> QED
      BY <1>1, <2>0, <3>1, <3>2
  <2>3. ASSUME NEW w \in Workers, NEW e \in Events,
               completeEvent(w, e) \/ closeWithoutCall(w, e) \/ settleFailure(w, e)
        PROVE  Owns(v, f)'
    <3>1. f \notin reclaimed /\ Busy(w, e)
      BY <2>3 DEF completeEvent, closeWithoutCall, settleFailure, Busy
    <3>2. CASE f # e \/ row' = row
      <4>1. row'[f] = row[f]
        BY <1>0, <2>3, <3>2 DEF completeEvent, closeWithoutCall, settleFailure
      <4> QED
        BY <1>1, <2>0, <3>1, <4>1
    <3>3. CASE f = e /\ row' # row
      <4>1. Owns(w, e) /\ SetTask(w, e, NoTask)
        BY <2>3, <3>3 DEF completeEvent, closeWithoutCall, settleFailure
      <4>2. v # w
        BY <1>0, <3>3, <4>1 DEF SetTask, NoTask, Busy
      <4>3. Busy(v, f) /\ Owns(v, f)
        BY <1>0, <2>0, <3>1 DEF TasksContinue, UnsweptIsOwned
      <4> QED
        BY <1>0, <3>1, <3>3, <4>1, <4>2, <4>3 DEF OneOwner, Busy
    <3> QED
      BY <3>2, <3>3
  <2>4. ASSUME NEW w \in Workers, Process(w) PROVE Owns(v, f)'
    <3>1. CASE Sweep
      <4>1. f \notin ExpiredRows /\ f \notin reclaimed
        BY <3>1 DEF Sweep
      <4>2. row'[f] = row[f]
        BY <3>1, <4>1 DEF Sweep
      <4> QED
        BY <1>1, <2>0, <4>1, <4>2
    <3> QED
      BY <2>1, <2>4, <3>1
      DEF Process, recoverStaleEvents, onModuleInit, onModuleDestroy, Exit, Crash
  <2> QED
    BY <1>4, <2>1, <2>2, <2>3, <2>4
    DEF Next, Claims, vars, BackoffElapses, Step, processEvent, LenderAcknowledges, LenderFails,
        CompletionError, checkStillOwned, markStageFailure, AbandonTask
<1> QED
  BY <1>3, <1>4

\* The second part: after the acknowledgement, only a sweep brings the event back.
LEMMA AckedIsPastStep == CallsOnce /\ [Next]_vars => AckedIsPast'
<1> SUFFICES ASSUME CallsOnce, [Next]_vars, NEW f \in acked', f \notin reclaimed'
             PROVE  /\ row'[f].status \in {"PROCESSING", "COMPLETED", "FAILED"}
                    /\ \A v \in Workers : Busy(v, f)' => PastTheCall(task'[v][f])
  BY DEF AckedIsPast, Busy, PastTheCall
<1> DEFINE Goal == /\ row'[f].status \in {"PROCESSING", "COMPLETED", "FAILED"}
                   /\ \A v \in Workers : Busy(v, f)' => PastTheCall(task'[v][f])
<1>0. /\ TypeOK /\ UnsweptIsOwned /\ OneOwner /\ AckedIsPast /\ acked \subseteq Events
      /\ row \in [Events -> RowType] /\ task \in [Workers -> [Events -> TaskType]]
  BY FencedImpliesOneOwner DEF CallsOnce, Fenced, TypeOK, RowsOK, TasksOK, HistoryOK
<1>1. ASSUME f \in acked, f \notin reclaimed, row'[f].status = row[f].status,
             \A v \in Workers : task'[v][f] = task[v][f] \/ task'[v][f] = NoTask
      PROVE  Goal
  BY <1>0, <1>1 DEF AckedIsPast, Busy, NoTask
<1>2. ASSUME NEW e \in Events, Enqueue(e) \/ BackoffElapses(e) \/ LeaseExpires(e) \/ LeaseOverrun(e)
      PROVE  Goal
  <2>1. f \in acked /\ f \notin reclaimed /\ task' = task
    BY <1>2 DEF Enqueue, BackoffElapses, LeaseExpires, LeaseOverrun
  <2>2. row[f].status # "ABSENT"
    BY <1>0, <2>1 DEF AckedIsPast
  <2>3. row'[f].status = row[f].status
    BY <1>0, <1>2, <2>2 DEF Enqueue, BackoffElapses, LeaseExpires, LeaseOverrun, RowType
  <2> QED
    BY <1>1, <2>1, <2>3
<1>3. ASSUME NEW w \in Workers, NEW e \in Events, claimNextEvent(w, e) PROVE Goal
  <2>1. f \in acked /\ f \notin reclaimed /\ f # e
    BY <1>0, <1>3 DEF claimNextEvent, Claimable, AckedIsPast
  <2>2. row'[f] = row[f] /\ \A v \in Workers : task'[v][f] = task[v][f]
    BY <1>0, <1>3, <2>1, ClaimWrites
  <2> QED
    BY <1>1, <2>1, <2>2
<1>4. ASSUME NEW w \in Workers, NEW e \in Events, Step(w, e) PROVE Goal
  <2>0. f \notin reclaimed /\ task[w][e] \in TaskType
    BY <1>0, <1>4
    DEF Step, processEvent, LenderAcknowledges, LenderFails, completeEvent, closeWithoutCall,
        settleFailure, CompletionError, checkStillOwned, markStageFailure, AbandonTask
  <2>1. CASE f # e
    <3>1. f \in acked
      BY <1>4, <2>1
      DEF Step, processEvent, LenderAcknowledges, LenderFails, completeEvent, closeWithoutCall,
          settleFailure, CompletionError, checkStillOwned, markStageFailure, AbandonTask
    <3>2. row'[f] = row[f]
      <4>1. CASE completeEvent(w, e) \/ closeWithoutCall(w, e) \/ settleFailure(w, e)
        BY <1>0, <2>1, <4>1 DEF completeEvent, closeWithoutCall, settleFailure
      <4> QED
        BY <1>4, <4>1
        DEF Step, processEvent, LenderAcknowledges, LenderFails, CompletionError,
            checkStillOwned, markStageFailure, AbandonTask
    <3>3. \A v \in Workers : task'[v][f] = task[v][f]
      BY <1>0, <1>4, <2>1, <3>1, StepIsLocal
    <3> QED
      BY <1>1, <2>0, <3>1, <3>2, <3>3
  <2>2. CASE f = e /\ Busy(w, e) /\ ~(LenderAcknowledges(w, e))
    <3>1. f \in acked
      BY <1>4, <2>2
      DEF Step, processEvent, LenderFails, completeEvent, closeWithoutCall,
          settleFailure, CompletionError, checkStillOwned, markStageFailure, AbandonTask
    <3>2. PastTheCall(task[w][e]) /\ Owns(w, e)
      BY <1>0, <2>0, <2>2, <3>1 DEF AckedIsPast, UnsweptIsOwned
    <3>3. \A v \in Workers : v # w => ~Busy(v, e)
      BY <1>0, <2>0, <2>2, <3>2 DEF OneOwner, UnsweptIsOwned, Busy
    <3>4. \A v \in Workers : v # w => task'[v][e] = task[v][e]
      BY <1>0, <1>4, StepIsLocal
    <3>5. \/ completeEvent(w, e) \/ CompletionError(w, e) \/ checkStillOwned(w, e)
          \/ markStageFailure(w, e) \/ settleFailure(w, e) \/ AbandonTask(w, e)
      BY <1>4, <2>2, <3>2
      DEF Step, PastTheCall, processEvent, LenderFails, closeWithoutCall
    <3>6. Busy(w, e)' => PastTheCall(task'[w][e])
      <4>1. CASE SetTask(w, e, NoTask)
        BY <1>0, <4>1 DEF SetTask, NoTask, Busy
      <4>2. CASE CompletionError(w, e)
        BY <1>0, <2>0, <4>2 DEF CompletionError, SetTask, PastTheCall, TaskType
      <4>3. CASE checkStillOwned(w, e)
        BY <1>0, <2>0, <3>2, <4>3 DEF checkStillOwned, GoTo, PastTheCall, TaskType
      <4>4. CASE markStageFailure(w, e)
        BY <1>0, <2>0, <3>2, <4>4 DEF markStageFailure, SetTask, PastTheCall, TaskType
      <4> QED
        BY <3>2, <3>5, <4>1, <4>2, <4>3, <4>4 DEF completeEvent, settleFailure, AbandonTask
    <3>7. row'[e].status \in {"PROCESSING", "COMPLETED", "FAILED"}
      <4>1. CASE completeEvent(w, e)
        BY <1>0, <3>2, <4>1, UnlockedType DEF completeEvent, RowStatus
      <4>2. CASE settleFailure(w, e)
        BY <1>0, <3>2, <4>2, UnlockedType DEF settleFailure, PastTheCall, RowStatus
      <4>3. CASE UNCHANGED row
        BY <3>2, <4>3 DEF Owns
      <4> QED
        BY <3>5, <4>1, <4>2, <4>3
        DEF CompletionError, checkStillOwned, markStageFailure, AbandonTask
    <3> QED
      BY <2>2, <3>3, <3>4, <3>6, <3>7 DEF Busy
  <2>3. CASE f = e /\ LenderAcknowledges(w, e)
    <3>1. Busy(w, e) /\ row' = row /\ task'[w][e].at = "completing"
          /\ \A v \in Workers : v # w => task'[v][e] = task[v][e]
      BY <1>0, <2>0, <2>3 DEF LenderAcknowledges, GoTo, Busy, TaskType
    <3>2. Owns(w, e)
      BY <1>0, <2>0, <2>3, <3>1 DEF UnsweptIsOwned
    <3>3. \A v \in Workers : v # w => ~Busy(v, e)
      BY <1>0, <2>0, <2>3, <3>1, <3>2 DEF OneOwner, UnsweptIsOwned, Busy
    <3> QED
      BY <2>3, <3>1, <3>2, <3>3 DEF Owns, Busy, PastTheCall
  <2>4. Busy(w, e)
    BY <1>4
    DEF Step, processEvent, LenderAcknowledges, LenderFails, completeEvent, closeWithoutCall,
        settleFailure, CompletionError, checkStillOwned, markStageFailure, AbandonTask, Busy
  <2> QED
    BY <2>1, <2>2, <2>3, <2>4
<1>5. ASSUME NEW w \in Workers, Process(w) PROVE Goal
  <2>1. f \in acked
    BY <1>5 DEF Process, recoverStaleEvents, onModuleInit, onModuleDestroy, Exit, Crash
  <2>2. f \notin reclaimed /\ row'[f] = row[f]
    BY <1>0, <1>5, <2>1
    DEF Process, recoverStaleEvents, onModuleInit, onModuleDestroy, Exit, Crash, Sweep
  <2>3. \A v \in Workers : task'[v][f] = task[v][f] \/ task'[v][f] = NoTask
    BY <1>0, <1>5, <2>1
    DEF Process, recoverStaleEvents, onModuleInit, onModuleDestroy, Exit, Crash, LoseMemory
  <2> QED
    BY <1>1, <2>1, <2>2, <2>3
<1>6. CASE UNCHANGED vars
  BY <1>1, <1>6 DEF vars
<1> QED
  BY <1>2, <1>3, <1>4, <1>5, <1>6 DEF Next

\* For any number of workers: the request of an acknowledged event is sent again
\* only after a sweep took the event away from the task that had sent it.
THEOREM OutboxResentOnlyAfterSweep == Spec => []ResentOnlyAfterSweep
<1>1. Init => CallsOnce
  BY FencedInit
  DEF Init, CallsOnce, UnsweptIsOwned, AckedIsPast, ResentOnlyAfterSweep, Busy, NoTask
<1>2. CallsOnce /\ [Next]_vars => CallsOnce'
  <2> SUFFICES ASSUME CallsOnce, [Next]_vars PROVE CallsOnce'
    OBVIOUS
  <2>0. TypeOK /\ AckedIsPast /\ ResentOnlyAfterSweep
    BY DEF CallsOnce, Fenced
  <2>1. Fenced' /\ UnsweptIsOwned' /\ AckedIsPast'
    BY FencedStep, UnsweptIsOwnedStep, AckedIsPastStep DEF CallsOnce
  <2>2. ASSUME NEW w \in Workers, NEW e \in Events, LenderAcknowledges(w, e)
        PROVE  ResentOnlyAfterSweep'
    <3>1. ~PastTheCall(task[w][e]) /\ Busy(w, e)
      BY <2>2 DEF LenderAcknowledges, PastTheCall, Busy
    <3>2. e \in acked => e \in reclaimed
      BY <2>0, <3>1 DEF AckedIsPast
    <3> QED
      BY <2>0, <2>2, <3>2 DEF LenderAcknowledges, ResentOnlyAfterSweep
  <2>3. ASSUME repeated' = repeated, reclaimed \subseteq reclaimed' PROVE ResentOnlyAfterSweep'
    BY <2>0, <2>3 DEF ResentOnlyAfterSweep
  <2>4. ASSUME NEW w \in Workers, NEW e \in Events, Step(w, e) PROVE ResentOnlyAfterSweep'
    BY <2>2, <2>3, <2>4
    DEF Step, processEvent, LenderFails, completeEvent, closeWithoutCall, settleFailure,
        CompletionError, checkStillOwned, markStageFailure, AbandonTask
  <2>5. ASSUME NEW w \in Workers, Process(w) PROVE ResentOnlyAfterSweep'
    BY <2>3, <2>5
    DEF Process, recoverStaleEvents, onModuleInit, onModuleDestroy, Exit, Crash, Sweep
  <2>6. ResentOnlyAfterSweep'
    BY <2>3, <2>4, <2>5
    DEF Next, vars, Enqueue, BackoffElapses, LeaseExpires, LeaseOverrun, claimNextEvent
  <2> QED
    BY <2>0, <2>1, <2>6 DEF CallsOnce
<1>3. CallsOnce => ResentOnlyAfterSweep
  BY DEF CallsOnce
<1> QED
  BY <1>1, <1>2, <1>3, PTL DEF Spec
================================================================================
