------------------------ MODULE Orchestrator_proofs -------------------------
(***************************************************************************)
(* Safety of what the orchestrator keeps in SQLite: the execution queue,   *)
(* for every set of keys, batch limit, attempt cap and breaker threshold,  *)
(* and the signals table, for every set of slots, analyses and prices,     *)
(* every entry mode and both settings of the gate.                         *)
(***************************************************************************)
EXTENDS ExecutionQueue, SignalLifecycle, TLAPS

-----------------------------------------------------------------------------
(***************************************************************************)
(* The execution queue.                                                    *)
(***************************************************************************)

(***************************************************************************)
(* The inductive invariant.  What the worker holds in memory (batch, task) *)
(* agrees with the table, and nothing is held outside the worker or while  *)
(* the circuit is open: the two facts that make a handler start only on a  *)
(* fresh row of a closed circuit.                                          *)
(***************************************************************************)
IdleOutsideWorker ==
    phase = "cycle" => DOMAIN batch = {} /\ task = NoTask

IdleWhileOpen ==
    circuitOpen => DOMAIN batch = {} /\ task = NoTask

NoTaskShape == task.stage = "none" => task = NoTask

QueueInv ==
    /\ QueueTypeOK
    /\ OneRowPerKey
    /\ SnapshotFresh
    /\ TaskOwnsItsRow
    /\ RetryHasBudget
    /\ IdleOutsideWorker
    /\ IdleWhileOpen
    /\ NoTaskShape

LEMMA QueueInvInit == QueueInit => QueueInv
<1> SUFFICES ASSUME QueueInit PROVE QueueInv
  OBVIOUS
<1> USE QueueAssumption DEF QueueAssumption, QueueInit
<1>1. Ids = {} /\ DOMAIN batch = {}
  BY DEF Ids, NoBatch
<1>2. QueueTypeOK
  <2>1. queue \in Seq(Row) /\ Len(queue) = 0
    OBVIOUS
  <2>2. batch \in [DOMAIN batch -> 0..MaxAttempts]
    BY <1>1 DEF NoBatch
  <2>3. task \in Task /\ task.id = 0
    BY DEF NoTask, Task
  <2>4. DOMAIN batch \subseteq Ids /\ task.id \in 0..Len(queue)
        /\ failures \in 0..BreakerFailures /\ restarts \in 0..MaxRestarts
    BY <1>1, <2>1, <2>3
  <2> QED
    BY <2>1, <2>2, <2>3, <2>4, Zenon DEF QueueTypeOK
<1> QED
  BY <1>1, <1>2 DEF QueueInv, OneRowPerKey, SnapshotFresh, TaskOwnsItsRow,
     RetryHasBudget, IdleOutsideWorker, IdleWhileOpen, NoTaskShape, NoTask

\* An enqueue keeps every row in place, or appends one row of a new key.
LEMMA EnqueueStep ==
    ASSUME QueueInv, NEW k \in Keys, Enqueue(k)
    PROVE  QueueInv'
<1> USE QueueAssumption DEF QueueAssumption, QueueInv
<1>1. NewRow(k) \in Row /\ NewRow(k).key = k /\ NewRow(k).attempts = 0
  BY DEF NewRow, Row, Status
<1>2. batch' = batch /\ task' = task /\ DOMAIN batch = {} /\ task = NoTask
  BY DEF Enqueue, IdleOutsideWorker
<1>3. CASE RowsOf(k) = {}
  <2>1. queue' = Append(queue, NewRow(k))
    BY <1>3 DEF Enqueue, EnqueueRow
  <2>2. /\ Len(queue') = Len(queue) + 1
        /\ queue' \in Seq(Row)
        /\ queue'[Len(queue) + 1] = NewRow(k)
        /\ \A i \in Ids : queue'[i] = queue[i]
    BY <2>1, <1>1 DEF QueueTypeOK, Ids
  <2>3. \A i \in Ids : queue[i].key # k
    BY <1>3 DEF RowsOf
  <2>4. QueueTypeOK'
    BY <2>2, <1>2 DEF QueueTypeOK, Enqueue, Ids, NoTask, Task
  <2>5. Len(queue) \in Nat /\ Ids' = Ids \cup {Len(queue) + 1}
    BY <2>2 DEF QueueTypeOK, Ids
  <2>6. OneRowPerKey'
    BY <2>2, <2>3, <2>5, <1>1 DEF OneRowPerKey
  <2>7. RetryHasBudget'
    BY <2>2, <2>5, <1>1 DEF RetryHasBudget
  <2> QED
    BY <2>4, <2>6, <2>7, <1>2 DEF SnapshotFresh, TaskOwnsItsRow, IdleOutsideWorker,
       IdleWhileOpen, NoTaskShape, NoTask, Enqueue
<1>4. CASE RowsOf(k) # {}
  <2>1. queue' = [i \in Ids |-> IF i \in RowsOf(k) /\ queue[i].status = "FAILED"
                                THEN NewRow(k) ELSE queue[i]]
    BY <1>4 DEF Enqueue, EnqueueRow
  <2>2. \A i \in Ids : queue'[i] \in Row /\ queue'[i].key = queue[i].key
                       /\ queue'[i].attempts < MaxAttempts
    BY <2>1, <1>1 DEF QueueTypeOK, RowsOf, RetryHasBudget, Ids
  <2>3. queue' \in Seq(Row) /\ Len(queue') = Len(queue)
    BY <2>1, <2>2 DEF QueueTypeOK, Ids
  <2>4. QueueTypeOK'
    BY <2>3, <1>2 DEF QueueTypeOK, Enqueue, Ids, NoTask, Task
  <2>5. OneRowPerKey' /\ RetryHasBudget'
    BY <2>2, <2>3 DEF OneRowPerKey, RetryHasBudget, Ids
  <2> QED
    BY <2>4, <2>5, <1>2 DEF SnapshotFresh, TaskOwnsItsRow, IdleOutsideWorker,
       IdleWhileOpen, NoTaskShape, NoTask, Enqueue
<1> QED  BY <1>3, <1>4

-----------------------------------------------------------------------------
\* Rewriting one row, key and budget kept, keeps the table in order.
LEMMA OneRowChanged ==
    ASSUME QueueTypeOK, OneRowPerKey, RetryHasBudget,
           NEW i \in Ids, NEW r \in Row,
           r.key = queue[i].key, r.attempts < MaxAttempts,
           queue' = [queue EXCEPT ![i] = r]
    PROVE  /\ queue' \in Seq(Row)
           /\ Len(queue') = Len(queue)
           /\ Ids' = Ids
           /\ queue'[i] = r
           /\ OneRowPerKey'
           /\ RetryHasBudget'
           /\ \A j \in Ids \ {i} : queue'[j] = queue[j]
<1>1. /\ queue' \in Seq(Row)
      /\ Len(queue') = Len(queue)
      /\ Ids' = Ids
      /\ queue'[i] = r
      /\ \A j \in Ids \ {i} : queue'[j] = queue[j]
  BY DEF QueueTypeOK, Ids
<1>2. \A j \in Ids : queue'[j].key = queue[j].key
  BY <1>1
<1>3. OneRowPerKey'
  BY <1>1, <1>2 DEF OneRowPerKey
<1>4. RetryHasBudget'
  BY <1>1 DEF RetryHasBudget
<1> QED  BY <1>1, <1>3, <1>4

\* The row the worker is on exists, and a row with another status is a row.
LEMMA TaskRow ==
    ASSUME QueueInv, task.stage # "none"
    PROVE  /\ task.id \in Ids
           /\ queue[task.id] \in Row
           /\ queue[task.id].attempts = task.attempts
           /\ queue[task.id].attempts < MaxAttempts
<1>1. task.id \in Ids /\ queue[task.id].attempts = task.attempts
  BY DEF QueueInv, TaskOwnsItsRow
<1> QED
  BY <1>1 DEF QueueInv, QueueTypeOK, RetryHasBudget, Ids

LEMMA MarkRunningStep ==
    ASSUME QueueInv, MarkRunning
    PROVE  QueueInv'
<1>1. PICK i \in DOMAIN batch :
        /\ task' = [id |-> i, attempts |-> batch[i], stage |-> "handling"]
        /\ queue' = [queue EXCEPT ![i].status = "RUNNING"]
        /\ batch' = [j \in DOMAIN batch \ {i} |-> batch[j]]
  BY DEF MarkRunning
<1> DEFINE r == [queue[i] EXCEPT !.status = "RUNNING"]
<1>2. i \in Ids /\ queue[i] \in Row /\ queue[i].attempts < MaxAttempts
  BY DEF QueueInv, QueueTypeOK, RetryHasBudget, Ids
<1>3. r \in Row /\ r.key = queue[i].key /\ r.attempts = queue[i].attempts
      /\ r.status = "RUNNING"
  BY <1>2 DEF Row, Status
<1>4. queue' = [queue EXCEPT ![i] = r]
  BY <1>1, <1>2 DEF QueueInv, QueueTypeOK, Ids
<1> HIDE DEF r
<1>5. /\ queue' \in Seq(Row)
      /\ Len(queue') = Len(queue)
      /\ Ids' = Ids
      /\ queue'[i] = r
      /\ OneRowPerKey'
      /\ RetryHasBudget'
      /\ \A j \in Ids \ {i} : queue'[j] = queue[j]
  BY <1>2, <1>3, <1>4, OneRowChanged DEF QueueInv
<1>6. batch[i] = queue[i].attempts /\ batch[i] \in Nat
  BY <1>2 DEF QueueInv, SnapshotFresh, Row
<1>7. QueueTypeOK'
  <2>1. task' \in Task /\ task'.id \in 0..Len(queue')
    BY <1>1, <1>2, <1>5, <1>6 DEF Task, Ids, QueueInv, QueueTypeOK
  <2>2. DOMAIN batch' \subseteq Ids' /\ batch' \in [DOMAIN batch' -> 0..MaxAttempts]
    BY <1>1, <1>5 DEF QueueInv, QueueTypeOK
  <2> QED
    BY <2>1, <2>2, <1>5 DEF QueueInv, QueueTypeOK, MarkRunning
<1>8. SnapshotFresh'
  <2> SUFFICES ASSUME NEW j \in DOMAIN batch'
               PROVE  /\ queue'[j].status \in {"PENDING", "RETRY"}
                      /\ queue'[j].due
                      /\ batch'[j] = queue'[j].attempts
    BY DEF SnapshotFresh
  <2>1. j \in DOMAIN batch \ {i} /\ batch'[j] = batch[j]
    BY <1>1
  <2>2. queue'[j] = queue[j]
    BY <2>1, <1>5 DEF QueueInv, QueueTypeOK
  <2> QED  BY <2>1, <2>2 DEF QueueInv, SnapshotFresh
<1>9. TaskOwnsItsRow'
  <2>1. task'.stage = "handling" /\ task'.id = i /\ task'.attempts = batch[i]
    BY <1>1
  <2>2. i \in Ids' \ DOMAIN batch'
    BY <1>1, <1>2, <1>5
  <2> QED  BY <2>1, <2>2, <1>3, <1>5, <1>6 DEF TaskOwnsItsRow
<1>10. IdleOutsideWorker' /\ IdleWhileOpen' /\ NoTaskShape'
  <2>1. phase' = "draining" /\ ~circuitOpen'
    BY DEF MarkRunning, QueueInv, IdleWhileOpen
  <2> QED  BY <2>1, <1>1 DEF IdleOutsideWorker, IdleWhileOpen, NoTaskShape
<1> QED  BY <1>5, <1>7, <1>8, <1>9, <1>10 DEF QueueInv

-----------------------------------------------------------------------------
\* Rewriting the row the worker is on disturbs no fetched row: the batch that
\* is left, all of it or nothing, still agrees with the table.
LEMMA TaskRowRewritten ==
    ASSUME QueueInv, task.stage # "none",
           NEW r \in Row, r.key = queue[task.id].key, r.attempts < MaxAttempts,
           queue' = [queue EXCEPT ![task.id] = r],
           batch' = batch \/ batch' = NoBatch
    PROVE  /\ queue' \in Seq(Row)
           /\ Len(queue') = Len(queue)
           /\ Ids' = Ids
           /\ queue'[task.id] = r
           /\ OneRowPerKey'
           /\ RetryHasBudget'
           /\ DOMAIN batch' \subseteq Ids'
           /\ batch' \in [DOMAIN batch' -> 0..MaxAttempts]
           /\ task.id \in Ids' \ DOMAIN batch'
           /\ SnapshotFresh'
<1>1. task.id \in Ids /\ task.id \notin DOMAIN batch
  BY DEF QueueInv, TaskOwnsItsRow
<1>2. /\ queue' \in Seq(Row)
      /\ Len(queue') = Len(queue)
      /\ Ids' = Ids
      /\ queue'[task.id] = r
      /\ OneRowPerKey'
      /\ RetryHasBudget'
      /\ \A j \in Ids \ {task.id} : queue'[j] = queue[j]
  BY <1>1, OneRowChanged DEF QueueInv
<1>3. CASE batch' = batch
  <2>1. \A j \in DOMAIN batch : queue'[j] = queue[j]
    BY <1>1, <1>2 DEF QueueInv, QueueTypeOK
  <2>2. SnapshotFresh'
    BY <2>1, <1>3 DEF QueueInv, SnapshotFresh
  <2> QED  BY <2>2, <1>1, <1>2, <1>3 DEF QueueInv, QueueTypeOK
<1>4. CASE batch' = NoBatch
  <2>1. DOMAIN batch' = {}
    BY <1>4 DEF NoBatch
  <2>2. batch' \in [DOMAIN batch' -> 0..MaxAttempts]
    BY <1>4 DEF NoBatch
  <2>3. SnapshotFresh'
    BY <2>1 DEF SnapshotFresh
  <2> QED  BY <2>1, <2>2, <2>3, <1>1, <1>2
<1> QED  BY <1>3, <1>4

\* The worker lets go of its row: nothing is claimed about it any more.
LEMMA TaskReleased ==
    ASSUME QueueInv, task.stage # "none", task' = NoTask,
           NEW r \in Row, r.key = queue[task.id].key, r.attempts < MaxAttempts,
           queue' = [queue EXCEPT ![task.id] = r],
           batch' = batch \/ batch' = NoBatch,
           circuitOpen' => circuitOpen \/ batch' = NoBatch,
           failures' \in 0..BreakerFailures, circuitOpen' \in BOOLEAN,
           phase' \in {"cycle", "draining"}, phase' = "cycle" => batch' = NoBatch,
           restarts' \in 0..MaxRestarts
    PROVE  QueueInv'
<1>1. /\ queue' \in Seq(Row)
      /\ Len(queue') = Len(queue)
      /\ Ids' = Ids
      /\ OneRowPerKey'
      /\ RetryHasBudget'
      /\ DOMAIN batch' \subseteq Ids'
      /\ batch' \in [DOMAIN batch' -> 0..MaxAttempts]
      /\ SnapshotFresh'
  BY TaskRowRewritten
<1>2. task' \in Task /\ task'.id \in 0..Len(queue') /\ task'.stage = "none"
  BY <1>1 DEF NoTask, Task, QueueInv, QueueTypeOK
<1>3. QueueTypeOK'
  <2> QED  BY <1>1, <1>2, Zenon DEF QueueTypeOK
<1>4. ~circuitOpen
  BY DEF QueueInv, IdleWhileOpen, NoTask
<1>5. NoTaskShape' /\ TaskOwnsItsRow'
  BY <1>2 DEF NoTaskShape, TaskOwnsItsRow
<1>6. IdleWhileOpen' /\ IdleOutsideWorker'
  <2>1. batch' = NoBatch => DOMAIN batch' = {}
    BY DEF NoBatch
  <2> QED  BY <2>1, <1>4 DEF IdleWhileOpen, IdleOutsideWorker
<1> QED  BY <1>1, <1>3, <1>5, <1>6 DEF QueueInv

\* A worker that holds a task has been started and is not stopped by a later
\* "return" of its handler alone.
LEMMA TaskIsDrained ==
    ASSUME QueueInv, task.stage # "none"
    PROVE  phase = "draining" /\ restarts \in 0..MaxRestarts
<1>1. phase # "cycle"
  BY DEF QueueInv, IdleOutsideWorker, NoTask
<1> QED  BY <1>1 DEF QueueInv, QueueTypeOK

LEMMA HandlerSucceedsStep ==
    ASSUME QueueInv, HandlerSucceeds
    PROVE  QueueInv'
<1> DEFINE r == [queue[task.id] EXCEPT !.status = "DONE"]
<1>1. task.stage = "handling" /\ batch' = batch
  BY DEF HandlerSucceeds
<1>2. /\ task.id \in Ids
      /\ queue[task.id] \in Row
      /\ queue[task.id].attempts = task.attempts
      /\ queue[task.id].attempts < MaxAttempts
  BY <1>1, TaskRow
<1>3. r \in Row /\ r.key = queue[task.id].key /\ r.status = "DONE"
      /\ r.attempts = queue[task.id].attempts
  BY <1>2 DEF Row, Status
<1>4. queue' = [queue EXCEPT ![task.id] = r]
  BY <1>2 DEF HandlerSucceeds, QueueInv, QueueTypeOK, Ids
<1> HIDE DEF r
<1>5. /\ queue' \in Seq(Row)
      /\ Len(queue') = Len(queue)
      /\ Ids' = Ids
      /\ queue'[task.id] = r
      /\ OneRowPerKey'
      /\ RetryHasBudget'
      /\ task.id \in Ids' \ DOMAIN batch'
      /\ SnapshotFresh'
  BY <1>1, <1>2, <1>3, <1>4, TaskRowRewritten
<1>6. task' \in Task /\ task'.id = task.id /\ task'.attempts = task.attempts
      /\ task'.stage = "recording"
  BY DEF HandlerSucceeds, QueueInv, QueueTypeOK, Task
<1>7. QueueTypeOK'
  BY <1>5, <1>6 DEF HandlerSucceeds, QueueInv, QueueTypeOK
<1>8. TaskOwnsItsRow' /\ NoTaskShape'
  BY <1>2, <1>3, <1>5, <1>6 DEF TaskOwnsItsRow, NoTaskShape
<1>9. IdleOutsideWorker' /\ IdleWhileOpen'
  <2>1. phase # "cycle" /\ ~circuitOpen
    BY <1>1 DEF QueueInv, IdleOutsideWorker, IdleWhileOpen, NoTask
  <2> QED  BY <2>1 DEF HandlerSucceeds, IdleOutsideWorker, IdleWhileOpen
<1> QED  BY <1>5, <1>7, <1>8, <1>9 DEF QueueInv

LEMMA HealthRecordedStep ==
    ASSUME QueueInv, HealthRecorded
    PROVE  QueueInv'
<1>1. task' \in Task /\ task'.id \in 0..Len(queue) /\ task'.stage = "none" /\ task' = NoTask
  BY DEF HealthRecorded, QueueInv, QueueTypeOK, NoTask, Task
<1>2. failures' \in 0..BreakerFailures
  BY QueueAssumption DEF HealthRecorded, QueueAssumption
<1>3. QueueTypeOK'
  BY <1>1, <1>2, Zenon DEF HealthRecorded, QueueInv, QueueTypeOK, Ids
<1> QED
  BY <1>1, <1>3 DEF HealthRecorded, QueueInv, OneRowPerKey, RetryHasBudget, Ids,
     SnapshotFresh, TaskOwnsItsRow, NoTaskShape, IdleOutsideWorker, IdleWhileOpen

LEMMA HandlerLetsGoStep ==
    ASSUME QueueInv, HandlerDefers \/ HandlerDiscards
    PROVE  QueueInv'
<1> DEFINE r == IF HandlerDefers
                THEN [queue[task.id] EXCEPT !.status = "RETRY", !.due = FALSE]
                ELSE [queue[task.id] EXCEPT !.status = "FAILED"]
<1>1. task.stage # "none" /\ task' = NoTask /\ batch' = batch
  BY DEF HandlerDefers, HandlerDiscards
<1>2. /\ task.id \in Ids
      /\ queue[task.id] \in Row
      /\ queue[task.id].attempts < MaxAttempts
  BY <1>1, TaskRow
<1>3. r \in Row /\ r.key = queue[task.id].key /\ r.attempts < MaxAttempts
  BY <1>2 DEF Row, Status
<1>4. queue' = [queue EXCEPT ![task.id] = r]
  BY <1>2 DEF HandlerDefers, HandlerDiscards, QueueInv, QueueTypeOK, Ids
<1>5. /\ failures' \in 0..BreakerFailures
      /\ circuitOpen' \in BOOLEAN
      /\ circuitOpen' = circuitOpen
      /\ phase' = phase
      /\ restarts' = restarts
  BY Zenon DEF HandlerDefers, HandlerDiscards, QueueInv, QueueTypeOK
<1>6. phase' = "draining" /\ restarts' \in 0..MaxRestarts
  BY <1>1, <1>5, TaskIsDrained
<1> HIDE DEF r
<1> QED  BY <1>1, <1>3, <1>4, <1>5, <1>6, TaskReleased

\* What the exception handler writes is a row again, with its key and in budget.
LEMMA FailureRow ==
    ASSUME QueueInv, task.stage # "none",
           queue' = [queue EXCEPT ![task.id] = RowAfterFailure(@, task.attempts)]
    PROVE  /\ RowAfterFailure(queue[task.id], task.attempts) \in Row
           /\ RowAfterFailure(queue[task.id], task.attempts).key = queue[task.id].key
           /\ RowAfterFailure(queue[task.id], task.attempts).attempts < MaxAttempts
           /\ queue' = [queue EXCEPT ![task.id] =
                            RowAfterFailure(queue[task.id], task.attempts)]
<1> DEFINE r == RowAfterFailure(queue[task.id], task.attempts)
<1>2. /\ task.id \in Ids
      /\ queue[task.id] \in Row
      /\ queue[task.id].attempts = task.attempts
      /\ queue[task.id].attempts < MaxAttempts
  BY TaskRow
<1>3. r \in Row /\ r.key = queue[task.id].key /\ r.attempts < MaxAttempts
  <2>1. CASE task.attempts + 1 >= MaxAttempts
    BY <2>1, <1>2, QueueAssumption DEF RowAfterFailure, Row, Status, QueueAssumption
  <2>2. CASE ~(task.attempts + 1 >= MaxAttempts)
    <3> DEFINE row == queue[task.id]
    <3>1. MaxAttempts \in Nat
      BY QueueAssumption, Zenon DEF QueueAssumption
    <3>2. row \in Row /\ row.attempts = task.attempts
      BY <1>2
    <3>3. row.attempts \in 0..MaxAttempts
      BY <3>2 DEF Row
    <3>4. r = [row EXCEPT !.status = "RETRY", !.attempts = row.attempts + 1, !.due = FALSE]
      BY <2>2, Zenon DEF RowAfterFailure
    <3> HIDE DEF row, r
    <3>5. row.attempts + 1 \in 0..MaxAttempts /\ row.attempts + 1 < MaxAttempts
      BY <2>2, <3>1, <3>2, <3>3
    <3>6. r \in Row
      BY <3>2, <3>4, <3>5 DEF Row, Status
    <3>7. r.key = row.key /\ r.attempts = row.attempts + 1
      BY <3>2, <3>4 DEF Row
    <3> QED  BY <3>5, <3>6, <3>7 DEF row
  <2> QED  BY <2>1, <2>2
<1>4. queue' = [queue EXCEPT ![task.id] = r]
  BY <1>2 DEF QueueInv, QueueTypeOK, Ids
<1> QED  BY <1>3, <1>4

\* The breaker's count stays within its threshold.
LEMMA BumpedFailuresBound ==
    ASSUME QueueInv
    PROVE  BumpedFailures \in 0..BreakerFailures
<1>1. BreakerFailures \in Nat
  BY QueueAssumption, Zenon DEF QueueAssumption
<1>2. failures \in 0..BreakerFailures
  BY Zenon DEF QueueInv, QueueTypeOK
<1> QED  BY ONLY <1>1, <1>2, SMT DEF BumpedFailures

LEMMA HandlerFailsStep ==
    ASSUME QueueInv, HandlerFails
    PROVE  QueueInv'
<1> DEFINE r == RowAfterFailure(queue[task.id], task.attempts)
<1>1. task.stage # "none" /\ task' = NoTask
  BY DEF HandlerFails
<1>2. r \in Row /\ r.key = queue[task.id].key /\ r.attempts < MaxAttempts
      /\ queue' = [queue EXCEPT ![task.id] = r]
  BY <1>1, FailureRow DEF HandlerFails
<1> HIDE DEF r
<1>5. /\ failures' \in 0..BreakerFailures
      /\ circuitOpen' \in BOOLEAN
      /\ batch' = batch \/ batch' = NoBatch
      /\ circuitOpen' => circuitOpen \/ batch' = NoBatch
  <2>3. failures \in 0..BreakerFailures /\ circuitOpen \in BOOLEAN
    BY Zenon DEF QueueInv, QueueTypeOK
  <2>1. BumpedFailures \in 0..BreakerFailures
    BY BumpedFailuresBound
  <2>2. TripOrGoOn
    BY DEF HandlerFails
  <2>4. CASE BreakerEnabled /\ BumpedFailures >= BreakerFailures
    BY <2>1, <2>2, <2>4, Zenon DEF TripOrGoOn
  <2>5. CASE ~(BreakerEnabled /\ BumpedFailures >= BreakerFailures)
    <3>1. failures' \in 0..BreakerFailures
      BY <2>1, <2>2, <2>3, <2>5, Zenon DEF TripOrGoOn
    <3>2. circuitOpen' = circuitOpen /\ batch' = batch
      BY <2>2, <2>5, Zenon DEF TripOrGoOn
    <3> QED  BY <3>1, <3>2, <2>3, Zenon
  <2> QED  BY <2>4, <2>5
<1>6. phase' = "draining" /\ restarts' \in 0..MaxRestarts
  BY <1>1, TaskIsDrained DEF HandlerFails
<1> QED  BY <1>1, <1>2, <1>5, <1>6, TaskReleased

LEMMA FailureHalfRecordedStep ==
    ASSUME QueueInv, FailureHalfRecorded
    PROVE  QueueInv'
<1> DEFINE r == RowAfterFailure(queue[task.id], task.attempts)
<1>1. task.stage # "none" /\ task' = NoTask /\ batch' = NoBatch /\ phase' = "cycle"
  BY DEF FailureHalfRecorded
<1>2. r \in Row /\ r.key = queue[task.id].key /\ r.attempts < MaxAttempts
      /\ queue' = [queue EXCEPT ![task.id] = r]
  BY <1>1, FailureRow DEF FailureHalfRecorded
<1> HIDE DEF r
<1>3. failures' \in 0..BreakerFailures
  <2>1. failures' = failures \/ failures' = BumpedFailures
    BY DEF FailureHalfRecorded
  <2> QED  BY <2>1, BumpedFailuresBound, Zenon DEF QueueInv, QueueTypeOK
<1>4. circuitOpen' = circuitOpen /\ circuitOpen' \in BOOLEAN
  BY Zenon DEF FailureHalfRecorded, QueueInv, QueueTypeOK
<1>5. restarts' \in 0..MaxRestarts
  BY QueueAssumption DEF FailureHalfRecorded, QueueInv, QueueTypeOK, QueueAssumption
<1> QED  BY <1>1, <1>2, <1>3, <1>4, <1>5, TaskReleased

-----------------------------------------------------------------------------
LEMMA FetchReadyStep ==
    ASSUME QueueInv, FetchReady
    PROVE  QueueInv'
<1>1. batch' = [i \in FirstReady |-> queue[i].attempts] /\ FirstReady \subseteq Ready
      /\ queue' = queue /\ task' = task
  BY DEF FetchReady, FirstReady
<1>2. DOMAIN batch' = FirstReady /\ Ready \subseteq Ids
  BY <1>1 DEF Ready
<1>3. \A i \in Ids : queue[i].attempts \in 0..MaxAttempts
  <2>1. \A i \in Ids : queue[i] \in Row
    BY DEF QueueInv, QueueTypeOK, Ids
  <2> QED  BY <2>1 DEF Row
<1>4. DOMAIN batch' \subseteq Ids' /\ batch' \in [DOMAIN batch' -> 0..MaxAttempts]
  BY <1>1, <1>2, <1>3 DEF Ids
<1>5. QueueTypeOK'
  BY <1>4, Zenon DEF FetchReady, QueueInv, QueueTypeOK, Ids
<1>6. SnapshotFresh'
  BY <1>1, <1>2 DEF SnapshotFresh, Ready
<1>7. task = NoTask /\ task.stage = "none"
  BY DEF FetchReady, QueueInv, IdleOutsideWorker, NoTask
<1>8. phase' = "draining" /\ ~circuitOpen'
  BY DEF FetchReady
<1> QED
  BY <1>1, <1>5, <1>6, <1>7, <1>8 DEF QueueInv, OneRowPerKey, RetryHasBudget, Ids,
     TaskOwnsItsRow, NoTaskShape, IdleOutsideWorker, IdleWhileOpen

LEMMA WorkerReturnsStep ==
    ASSUME QueueInv, WorkerReturns
    PROVE  QueueInv'
<1>1. DOMAIN batch = {} /\ task = NoTask
  BY DEF WorkerReturns, NoBatch
<1> QED
  BY <1>1, Zenon DEF WorkerReturns, QueueInv, QueueTypeOK, OneRowPerKey, RetryHasBudget,
     Ids, SnapshotFresh, TaskOwnsItsRow, NoTaskShape, IdleOutsideWorker, IdleWhileOpen

LEMMA BackoffElapsesStep ==
    ASSUME QueueInv, NEW i \in Ids, BackoffElapses(i)
    PROVE  QueueInv'
<1> DEFINE r == [queue[i] EXCEPT !.due = TRUE]
<1>1. queue[i] \in Row /\ queue[i].attempts < MaxAttempts
  BY DEF QueueInv, QueueTypeOK, RetryHasBudget, Ids
<1>2. r \in Row /\ r.key = queue[i].key /\ r.attempts = queue[i].attempts
      /\ r.status = queue[i].status
  BY <1>1 DEF Row
<1>3. queue' = [queue EXCEPT ![i] = r]
  BY <1>1 DEF BackoffElapses, QueueInv, QueueTypeOK, Ids
<1>4. i \notin DOMAIN batch /\ queue[i].status = "RETRY"
  BY DEF BackoffElapses, QueueInv, SnapshotFresh
<1> HIDE DEF r
<1>5. /\ queue' \in Seq(Row)
      /\ Len(queue') = Len(queue)
      /\ Ids' = Ids
      /\ queue'[i] = r
      /\ OneRowPerKey'
      /\ RetryHasBudget'
      /\ \A j \in Ids \ {i} : queue'[j] = queue[j]
  BY <1>1, <1>2, <1>3, OneRowChanged DEF QueueInv
<1>6. QueueTypeOK'
  BY <1>5, Zenon DEF BackoffElapses, QueueInv, QueueTypeOK
<1>7. SnapshotFresh'
  BY <1>4, <1>5 DEF BackoffElapses, QueueInv, QueueTypeOK, SnapshotFresh
<1>8. TaskOwnsItsRow'
  BY <1>4, <1>5 DEF BackoffElapses, QueueInv, TaskOwnsItsRow
<1> QED
  BY <1>5, <1>6, <1>7, <1>8 DEF BackoffElapses, QueueInv, NoTaskShape,
     IdleOutsideWorker, IdleWhileOpen

LEMMA CooldownElapsesStep ==
    ASSUME QueueInv, CooldownElapses
    PROVE  QueueInv'
BY Zenon DEF CooldownElapses, QueueInv, QueueTypeOK, OneRowPerKey, RetryHasBudget,
   Ids, SnapshotFresh, TaskOwnsItsRow, NoTaskShape, IdleOutsideWorker, IdleWhileOpen

LEMMA RestartStep ==
    ASSUME QueueInv, Restart
    PROVE  QueueInv'
<1>1. batch' = NoBatch /\ DOMAIN batch' = {} /\ task' = NoTask /\ task'.stage = "none"
  BY DEF Restart, NoBatch, NoTask
<1>2. DOMAIN batch' \subseteq Ids' /\ batch' \in [DOMAIN batch' -> 0..MaxAttempts]
  BY <1>1 DEF NoBatch
<1>3. task' \in Task /\ task'.id \in 0..Len(queue)
  BY <1>1 DEF Task, NoTask, QueueInv, QueueTypeOK
<1>4. restarts' \in 0..MaxRestarts
  BY QueueAssumption DEF Restart, QueueInv, QueueTypeOK, QueueAssumption
<1>5. QueueTypeOK'
  BY <1>2, <1>3, <1>4, Zenon DEF Restart, QueueInv, QueueTypeOK
<1> QED
  BY <1>1, <1>5 DEF Restart, QueueInv, OneRowPerKey, RetryHasBudget, Ids,
     SnapshotFresh, TaskOwnsItsRow, NoTaskShape, IdleOutsideWorker, IdleWhileOpen

LEMMA QueueInvStep == QueueInv /\ [QueueNext]_queueVars => QueueInv'
<1> SUFFICES ASSUME QueueInv, [QueueNext]_queueVars
             PROVE  QueueInv'
  OBVIOUS
<1>1. CASE UNCHANGED queueVars
  BY <1>1, Zenon DEF queueVars, QueueInv, QueueTypeOK, OneRowPerKey, RetryHasBudget,
     Ids, SnapshotFresh, TaskOwnsItsRow, NoTaskShape, IdleOutsideWorker, IdleWhileOpen
<1>2. ASSUME NEW k \in Keys, Enqueue(k) PROVE QueueInv'
  BY <1>2, EnqueueStep
<1>3. CASE WorkerStep
  BY <1>3, FetchReadyStep, MarkRunningStep, HandlerSucceedsStep, HealthRecordedStep,
     HandlerLetsGoStep, HandlerFailsStep, WorkerReturnsStep, Zenon
  DEF WorkerStep, HandlerEnds
<1>4. ASSUME NEW i \in Ids, BackoffElapses(i) PROVE QueueInv'
  BY <1>4, BackoffElapsesStep
<1>5. CASE CooldownElapses
  BY <1>5, CooldownElapsesStep
<1>6. CASE FailureHalfRecorded
  BY <1>6, FailureHalfRecordedStep
<1>7. CASE Restart
  BY <1>7, RestartStep
<1> QED
  BY <1>1, <1>2, <1>3, <1>4, <1>5, <1>6, <1>7, Zenon DEF QueueNext

-----------------------------------------------------------------------------
(* The queue keeps one row per dedupe key, its worker never acts on a stale *)
(* row, and no row outlives its attempt budget, for every value of the      *)
(* constants and any number of restarts (_process_execution_queue,          *)
(* ExecutionQueueStore.enqueue).                                            *)
THEOREM QueueSafety ==
    QueueSpec => [](QueueTypeOK /\ OneRowPerKey /\ SnapshotFresh
                    /\ TaskOwnsItsRow /\ RetryHasBudget)
<1>1. QueueSpec => []QueueInv
  BY QueueInvInit, QueueInvStep, PTL DEF QueueSpec
<1>2. QueueInv => QueueTypeOK /\ OneRowPerKey /\ SnapshotFresh
                  /\ TaskOwnsItsRow /\ RetryHasBudget
  BY DEF QueueInv
<1> QED  BY <1>1, <1>2, PTL

(* The same, one by one.  Types: statuses are those of the table, attempts  *)
(* never exceed the cap of _process_execution_queue.                        *)
THEOREM QueueTypes == QueueSpec => []QueueTypeOK
BY QueueSafety, PTL

(* What the worker fetched is still what the table says when it gets to it. *)
THEOREM SnapshotsStayFresh == QueueSpec => []SnapshotFresh
BY QueueSafety, PTL

(* A handler works on the row it marked RUNNING and on no other.            *)
THEOREM WorkerOwnsItsRow == QueueSpec => []TaskOwnsItsRow
BY QueueSafety, PTL

(* The attempt that uses up the budget ends the row.                        *)
THEOREM RetriesEnd == QueueSpec => []RetryHasBudget
BY QueueSafety, PTL

(* No handler starts while the circuit breaker is open, rows fetched before *)
(* it tripped included (the early return of _process_execution_queue).      *)
THEOREM BreakerStopsWork == QueueSpec => NoStartWhileOpen
<1>1. QueueInv /\ [QueueNext]_queueVars
      => [task.stage = "none" /\ task'.stage = "handling" => ~circuitOpen]_queueVars
  <2> SUFFICES ASSUME QueueInv, QueueNext, task.stage = "none",
                      task'.stage = "handling", circuitOpen
               PROVE  FALSE
    BY Zenon DEF queueVars
  <2>1. DOMAIN batch = {} /\ task = NoTask
    BY DEF QueueInv, IdleWhileOpen
  <2>2. ~MarkRunning
    BY <2>1 DEF MarkRunning
  <2>3. task' # task
    BY <2>1 DEF NoTask
  <2>4. ~(\E k \in Keys : Enqueue(k)) /\ ~(\E i \in Ids : BackoffElapses(i))
        /\ ~CooldownElapses /\ ~FetchReady /\ ~WorkerReturns
    BY <2>3, Zenon DEF Enqueue, BackoffElapses, CooldownElapses, FetchReady, WorkerReturns
  <2>5. ~HandlerEnds
    BY DEF HandlerEnds, HandlerSucceeds, HealthRecorded, HandlerDefers, HandlerDiscards,
       HandlerFails
  <2>6. ~Restart /\ ~FailureHalfRecorded
    <3>1. NoTask.stage = "none"
      BY DEF NoTask
    <3> QED  BY <3>1, Zenon DEF Restart, FailureHalfRecorded
  <2> QED  BY <2>2, <2>4, <2>5, <2>6, Zenon DEF QueueNext, WorkerStep
<1>2. QueueSpec => []QueueInv
  BY QueueInvInit, QueueInvStep, PTL DEF QueueSpec
<1> QED  BY <1>1, <1>2, PTL DEF QueueSpec, NoStartWhileOpen

-----------------------------------------------------------------------------
(***************************************************************************)
(* The queue as those who enqueue see it.  What is known of the keys is a  *)
(* function of the table alone, and a step that rewrites one row changes   *)
(* what is known of one key.                                               *)
(***************************************************************************)
TableRows(q, k) == {i \in 1..Len(q) : q[i].key = k}

TableOf(q) ==
    [k \in Keys |-> IF TableRows(q, k) = {} THEN [state |-> "none", tries |-> 0]
                    ELSE WorkOf(q[CHOOSE i \in TableRows(q, k) : TRUE])]

KeysDiffer(q) == \A i, j \in 1..Len(q) : q[i].key = q[j].key => i = j

LEMMA TableIs ==
    WorkOfKeys = TableOf(queue) /\ WorkOfKeys' = TableOf(queue')
BY DEF WorkOfKeys, TableOf, RowsOf, TableRows, Ids

LEMMA KeysAreApart ==
    ASSUME QueueInv, QueueInv'
    PROVE  KeysDiffer(queue) /\ KeysDiffer(queue')
BY DEF QueueInv, OneRowPerKey, Ids, KeysDiffer

\* A key's work is that of its one row.
LEMMA TableReads ==
    ASSUME NEW q, KeysDiffer(q), NEW k \in Keys
    PROVE  /\ \A i \in 1..Len(q) : q[i].key = k => TableOf(q)[k] = WorkOf(q[i])
           /\ TableRows(q, k) = {} => TableOf(q)[k] = [state |-> "none", tries |-> 0]
<1>1. ASSUME NEW i \in 1..Len(q), q[i].key = k
      PROVE  TableOf(q)[k] = WorkOf(q[i])
  <2>1. TableRows(q, k) = {i}
    BY <1>1 DEF TableRows, KeysDiffer
  <2>2. (CHOOSE j \in TableRows(q, k) : TRUE) = i
    BY <2>1
  <2> QED
    BY <2>1, <2>2 DEF TableOf
<1>2. TableRows(q, k) = {} => TableOf(q)[k] = [state |-> "none", tries |-> 0]
  BY DEF TableOf
<1> QED
  BY <1>1, <1>2

\* Rewriting one row changes the work of its key.
LEMMA TableRewritten ==
    ASSUME NEW q, NEW r, KeysDiffer(q), KeysDiffer(r), Len(r) = Len(q),
           NEW i \in 1..Len(q), q[i].key \in Keys, r[i].key = q[i].key,
           \A j \in (1..Len(q)) \ {i} : r[j] = q[j]
    PROVE  /\ TableOf(r) = [TableOf(q) EXCEPT ![q[i].key] = WorkOf(r[i])]
           /\ TableOf(q)[q[i].key] = WorkOf(q[i])
<1> DEFINE k == q[i].key
<1>1. TableOf(q)[k] = WorkOf(q[i]) /\ TableOf(r)[k] = WorkOf(r[i])
  BY TableReads
<1>2. ASSUME NEW l \in Keys \ {k}
      PROVE  TableOf(r)[l] = TableOf(q)[l]
  <2>1. TableRows(r, l) = TableRows(q, l)
    BY <1>2 DEF TableRows
  <2>2. CASE TableRows(q, l) = {}
    BY <2>1, <2>2, TableReads
  <2>3. CASE TableRows(q, l) # {}
    <3>1. PICK j \in (1..Len(q)) \ {i} : q[j].key = l
      BY <1>2, <2>3 DEF TableRows
    <3>2. r[j].key = l /\ WorkOf(r[j]) = WorkOf(q[j])
      BY <3>1
    <3> QED
      BY <3>1, <3>2, TableReads
  <2> QED
    BY <2>2, <2>3
<1>3. \A s : TableOf(s) = [l \in Keys |-> TableOf(s)[l]]
  BY DEF TableOf
<1> QED
  BY <1>1, <1>2, <1>3

\* So does a row of a new key.
LEMMA TableAppended ==
    ASSUME NEW q, NEW r, NEW row, KeysDiffer(q), KeysDiffer(r),
           Len(q) \in Nat, Len(r) = Len(q) + 1, r[Len(q) + 1] = row,
           \A j \in 1..Len(q) : r[j] = q[j],
           NEW k \in Keys, row.key = k, TableRows(q, k) = {}
    PROVE  /\ TableOf(r) = [TableOf(q) EXCEPT ![k] = WorkOf(row)]
           /\ TableOf(q)[k] = [state |-> "none", tries |-> 0]
<1>2. 1..Len(r) = (1..Len(q)) \cup {Len(q) + 1}
  OBVIOUS
<1>3. TableOf(q)[k] = [state |-> "none", tries |-> 0] /\ TableOf(r)[k] = WorkOf(row)
  <2>1. TableOf(q)[k] = [state |-> "none", tries |-> 0]
    BY TableReads
  <2>2. PICK n \in 1..Len(r) : r[n] = row
    BY <1>2
  <2>3. r[n].key = k
    BY <2>2
  <2>4. TableOf(r)[k] = WorkOf(r[n])
    BY <2>3, TableReads
  <2> QED
    BY <2>1, <2>2, <2>4
<1>4. ASSUME NEW l \in Keys \ {k}
      PROVE  TableOf(r)[l] = TableOf(q)[l]
  <2>1. TableRows(r, l) = TableRows(q, l)
    BY <1>2, <1>4 DEF TableRows
  <2>2. CASE TableRows(q, l) = {}
    BY <2>1, <2>2, TableReads
  <2>3. CASE TableRows(q, l) # {}
    <3>1. PICK j \in 1..Len(q) : q[j].key = l
      BY <2>3 DEF TableRows
    <3>2. j \in 1..Len(r) /\ r[j].key = l /\ WorkOf(r[j]) = WorkOf(q[j])
      BY <1>2, <3>1
    <3>3. TableOf(q)[l] = WorkOf(q[j])
      BY <3>1, TableReads
    <3>4. TableOf(r)[l] = WorkOf(r[j])
      BY <3>2, TableReads
    <3> QED
      BY <3>2, <3>3, <3>4
  <2> QED
    BY <2>2, <2>3
<1>5. \A s : TableOf(s) = [l \in Keys |-> TableOf(s)[l]]
  BY DEF TableOf
<1> QED
  BY <1>3, <1>4, <1>5

LEMMA StatesAre ==
    /\ StateOf("PENDING") = "waiting" /\ StateOf("RETRY") = "waiting"
    /\ StateOf("RUNNING") = "taken" /\ StateOf("DONE") = "done" /\ StateOf("FAILED") = "failed"
BY DEF StateOf

\* Nothing seen of the queue changes with the rows.
Unseen == WorkOfKeys' = WorkOfKeys /\ KeyInHand' = KeyInHand

\* One row of the table is rewritten.
LEMMA RowRewritten ==
    ASSUME QueueInv, QueueInv', NEW i \in 1..Len(queue), Len(queue') = Len(queue),
           queue'[i].key = queue[i].key, queue[i].key \in Keys,
           \A j \in (1..Len(queue)) \ {i} : queue'[j] = queue[j]
    PROVE  /\ WorkOfKeys' = [WorkOfKeys EXCEPT ![queue[i].key] = WorkOf(queue'[i])]
           /\ WorkOfKeys[queue[i].key] = WorkOf(queue[i])
<1>1. KeysDiffer(queue) /\ KeysDiffer(queue')
  BY KeysAreApart
<1>2. /\ TableOf(queue') = [TableOf(queue) EXCEPT ![queue[i].key] = WorkOf(queue'[i])]
      /\ TableOf(queue)[queue[i].key] = WorkOf(queue[i])
  BY <1>1, TableRewritten
<1> QED
  BY <1>2, TableIs

LEMMA QueueRowReplaced ==
    ASSUME NEW q \in Seq(Row), NEW i \in 1..Len(q), NEW r \in Row
    PROVE  /\ Len([q EXCEPT ![i] = r]) = Len(q) /\ [q EXCEPT ![i] = r][i] = r
           /\ \A j \in (1..Len(q)) \ {i} : [q EXCEPT ![i] = r][j] = q[j]
OBVIOUS

\* The worker rewrites the row of the key it has in hand.
HandMoves(row, r) ==
    /\ row.key \in Keys /\ KeyInHand = {row.key}
    /\ task.id \in Ids /\ queue'[task.id] = r
    /\ WorkOfKeys' = [WorkOfKeys EXCEPT ![row.key] = WorkOf(r)]
    /\ WorkOfKeys[row.key] = WorkOf(row)

LEMMA HandRewritten ==
    ASSUME QueueInv, QueueInv', task.stage # "none",
           NEW r \in Row, r.key = queue[task.id].key,
           queue' = [queue EXCEPT ![task.id] = r]
    PROVE  HandMoves(queue[task.id], r)
<1>1. task.id \in 1..Len(queue) /\ queue[task.id] \in Row /\ queue \in Seq(Row)
  BY TaskRow DEF Ids, QueueInv, QueueTypeOK
<1>2. queue[task.id].key \in Keys /\ KeyInHand = {queue[task.id].key}
  BY <1>1 DEF KeyInHand, Row
<1>3. /\ Len(queue') = Len(queue) /\ queue'[task.id] = r
      /\ \A j \in (1..Len(queue)) \ {task.id} : queue'[j] = queue[j]
  BY <1>1, QueueRowReplaced
<1>4. queue'[task.id].key = queue[task.id].key
  BY <1>3
<1>5. /\ WorkOfKeys' = [WorkOfKeys EXCEPT ![queue[task.id].key] = WorkOf(queue'[task.id])]
      /\ WorkOfKeys[queue[task.id].key] = WorkOf(queue[task.id])
  BY <1>1, <1>2, <1>3, <1>4, RowRewritten
<1> QED
  BY <1>1, <1>2, <1>3, <1>5 DEF Ids, HandMoves

LEMMA TableFunction == WorkOfKeys = [k \in Keys |-> WorkOfKeys[k]]
BY DEF WorkOfKeys

LEMMA EnqueueSubmits ==
    ASSUME QueueInv, QueueInv', NEW k \in Keys, Enqueue(k)
    PROVE  Promised!Submit(k) \/ Unseen
<1>1. task' = task /\ task = NoTask /\ EnqueueRow(k) /\ queue \in Seq(Row)
  BY DEF Enqueue, QueueInv, IdleOutsideWorker, QueueTypeOK
<1>2. KeyInHand = {} /\ KeyInHand' = {}
  BY <1>1 DEF KeyInHand, NoTask
<1>3. /\ NewRow(k) \in Row /\ NewRow(k).key = k
      /\ WorkOf(NewRow(k)) = [state |-> "waiting", tries |-> 0]
  BY QueueAssumption, StatesAre DEF NewRow, Row, Status, WorkOf, QueueAssumption
<1>4. CASE RowsOf(k) = {}
  <2>1. queue' = Append(queue, NewRow(k))
    BY <1>1, <1>4 DEF EnqueueRow
  <2>2. TableRows(queue, k) = {}
    BY <1>4 DEF TableRows, RowsOf, Ids
  <2>3. /\ TableOf(queue') = [TableOf(queue) EXCEPT ![k] = WorkOf(NewRow(k))]
        /\ TableOf(queue)[k] = [state |-> "none", tries |-> 0]
    <3>1. KeysDiffer(queue) /\ KeysDiffer(queue')
      BY KeysAreApart
    <3>2. /\ Len(queue) \in Nat /\ Len(queue') = Len(queue) + 1
          /\ queue'[Len(queue) + 1] = NewRow(k)
          /\ \A j \in 1..Len(queue) : queue'[j] = queue[j]
      BY <1>1, <1>3, <2>1
    <3> QED
      BY <1>3, <2>2, <3>1, <3>2, TableAppended, SMTT(20)
  <2> QED
    BY <1>2, <1>3, <2>3, TableIs DEF Promised!Submit, Promised!Becomes
<1>5. CASE RowsOf(k) # {}
  <2>1. PICK i \in 1..Len(queue) : queue[i].key = k
    BY <1>5 DEF RowsOf, Ids
  <2>2. RowsOf(k) = {i}
    BY <2>1, KeysAreApart DEF RowsOf, Ids, KeysDiffer
  <2>3. queue' = [j \in Ids |-> IF j = i /\ queue[i].status = "FAILED" THEN NewRow(k) ELSE queue[j]]
    BY <1>1, <1>5, <2>2 DEF EnqueueRow
  <2>4. Len(queue') = Len(queue) /\ \A j \in (1..Len(queue)) \ {i} : queue'[j] = queue[j]
    BY <1>1, <2>3 DEF Ids
  <2>5. queue'[i] = IF queue[i].status = "FAILED" THEN NewRow(k) ELSE queue[i]
    BY <2>1, <2>3 DEF Ids
  <2>6. /\ TableOf(queue') = [TableOf(queue) EXCEPT ![k] = WorkOf(queue'[i])]
        /\ TableOf(queue)[k] = WorkOf(queue[i])
    BY <1>3, <2>1, <2>4, <2>5, KeysAreApart, TableRewritten
  <2>7. CASE queue[i].status = "FAILED"
    <3>1. WorkOfKeys[k].state = "failed"
      BY <2>6, <2>7, TableIs, StatesAre DEF WorkOf
    <3> QED
      BY <1>2, <1>3, <2>5, <2>6, <2>7, <3>1, TableIs DEF Promised!Submit, Promised!Becomes
  <2>8. CASE queue[i].status # "FAILED"
    <3>1. WorkOfKeys' = WorkOfKeys
      BY <2>5, <2>6, <2>8, TableIs, TableFunction
    <3> QED
      BY <1>2, <3>1 DEF Unseen
  <2> QED
    BY <2>7, <2>8
<1> QED
  BY <1>4, <1>5

LEMMA MarkRunningTakes ==
    ASSUME QueueInv, QueueInv', MarkRunning
    PROVE  \E k \in Keys : Promised!Take(k)
<1>1. PICK i \in DOMAIN batch :
        /\ task' = [id |-> i, attempts |-> batch[i], stage |-> "handling"]
        /\ queue' = [queue EXCEPT ![i].status = "RUNNING"]
  BY DEF MarkRunning
<1>2. i \in 1..Len(queue) /\ queue[i] \in Row /\ queue[i].status \in {"PENDING", "RETRY"}
  BY DEF QueueInv, QueueTypeOK, SnapshotFresh, Ids
<1> DEFINE k == queue[i].key
           r == [queue[i] EXCEPT !.status = "RUNNING"]
<1>3. /\ r \in Row /\ r.key = k /\ r.status = "RUNNING"
      /\ r.attempts = queue[i].attempts /\ k \in Keys
  BY <1>2 DEF Row, Status
<1>4. /\ queue'[i] = r /\ Len(queue') = Len(queue)
      /\ \A j \in (1..Len(queue)) \ {i} : queue'[j] = queue[j]
  <2>1. queue \in Seq(Row)
    BY DEF QueueInv, QueueTypeOK
  <2>2. queue' = [queue EXCEPT ![i] = r]
    BY <1>1, <1>2
  <2> HIDE DEF r
  <2> QED
    BY <1>2, <1>3, <2>1, <2>2
<1> HIDE DEF r
<1>5. /\ TableOf(queue') = [TableOf(queue) EXCEPT ![k] = WorkOf(queue'[i])]
      /\ TableOf(queue)[k] = WorkOf(queue[i])
  <2>1. KeysDiffer(queue) /\ KeysDiffer(queue')
    BY KeysAreApart
  <2>2. queue[i].key \in Keys /\ queue'[i].key = queue[i].key
    BY <1>3, <1>4
  <2> QED
    BY <1>2, <1>4, <2>1, <2>2, TableRewritten
<1>6. /\ WorkOf(queue'[i]) = [state |-> "taken", tries |-> WorkOf(queue[i]).tries]
      /\ WorkOf(queue[i]).state = "waiting"
  BY <1>2, <1>3, <1>4, StatesAre DEF WorkOf
<1>7. KeyInHand = {} /\ KeyInHand' = {k}
  BY <1>1, <1>3, <1>4 DEF MarkRunning, KeyInHand, NoTask
<1> HIDE DEF k
<1>8. Promised!Take(k)
  BY <1>5, <1>6, <1>7, TableIs DEF Promised!Take, Promised!Becomes
<1> QED
  BY <1>3, <1>8

\* The worker gives the row in hand another status.
LEMMA HandRestated ==
    ASSUME QueueInv, QueueInv', task.stage = "handling",
           NEW r \in Row, r.key = queue[task.id].key, r.attempts = queue[task.id].attempts,
           queue' = [queue EXCEPT ![task.id] = r]
    PROVE  \E k \in Keys :
             /\ KeyInHand = {k} /\ queue'[task.id].key = k
             /\ WorkOfKeys[k].state = "taken"
             /\ Promised!Becomes(k, StateOf(r.status), WorkOfKeys[k].tries)
<1>1. task.stage # "none" /\ queue[task.id].status = "RUNNING"
  BY DEF QueueInv, TaskOwnsItsRow
<1>2. HandMoves(queue[task.id], r)
  BY <1>1, HandRewritten
<1> DEFINE k == queue[task.id].key
           n == queue[task.id].attempts
           after == StateOf(r.status)
<1>3. WorkOf(r) = [state |-> after, tries |-> n]
  BY DEF WorkOf
<1>4. WorkOf(queue[task.id]) = [state |-> "taken", tries |-> n]
  BY <1>1, StatesAre DEF WorkOf
<1>5. k \in Keys /\ KeyInHand = {k} /\ queue'[task.id].key = k
  BY <1>2 DEF HandMoves
<1>6. /\ WorkOfKeys' = [WorkOfKeys EXCEPT ![k] = [state |-> after, tries |-> n]]
      /\ WorkOfKeys[k] = [state |-> "taken", tries |-> n]
  BY <1>2, <1>3, <1>4 DEF HandMoves
<1> HIDE DEF k, n, after
<1>7. Promised!Becomes(k, after, WorkOfKeys[k].tries)
  BY <1>6 DEF Promised!Becomes
<1>8. WorkOfKeys[k].state = "taken"
  BY <1>6
<1> QED
  BY <1>5, <1>7, <1>8 DEF after

LEMMA SuccessFinishes ==
    ASSUME QueueInv, QueueInv', HandlerSucceeds
    PROVE  \E k \in Keys : Promised!Finish(k)
<1> DEFINE r == [queue[task.id] EXCEPT !.status = "DONE"]
<1>1. task.stage = "handling" /\ task' = [task EXCEPT !.stage = "recording"] /\ task \in Task
  BY DEF HandlerSucceeds, QueueInv, QueueTypeOK
<1>2. queue[task.id] \in Row
  BY <1>1, TaskRow
<1>3. /\ r \in Row /\ r.key = queue[task.id].key
      /\ r.attempts = queue[task.id].attempts /\ r.status = "DONE"
  BY <1>2 DEF Row, Status
<1>4. queue' = [queue EXCEPT ![task.id] = r]
  BY DEF HandlerSucceeds
<1> HIDE DEF r
<1>5. PICK k \in Keys :
        /\ KeyInHand = {k} /\ queue'[task.id].key = k
        /\ WorkOfKeys[k].state = "taken"
        /\ Promised!Becomes(k, StateOf(r.status), WorkOfKeys[k].tries)
  BY <1>1, <1>3, <1>4, HandRestated
<1>6. KeyInHand' = {k}
  BY <1>1, <1>5 DEF KeyInHand, Task
<1>7. StateOf(r.status) = "done"
  BY <1>3, StatesAre
<1>8. Promised!Finish(k)
  BY <1>5, <1>6, <1>7 DEF Promised!Finish
<1> QED
  BY <1>8

LEMMA DeferralPutsBack ==
    ASSUME QueueInv, QueueInv', HandlerDefers \/ HandlerDiscards
    PROVE  \E k \in Keys : Promised!PutBack(k)
<1>1. task.stage = "handling" /\ task' = NoTask
  BY DEF HandlerDefers, HandlerDiscards
<1>2. queue[task.id] \in Row
  BY <1>1, TaskRow
<1>3. PICK r \in Row :
        /\ r.key = queue[task.id].key /\ r.attempts = queue[task.id].attempts
        /\ r.status \in {"RETRY", "FAILED"}
        /\ queue' = [queue EXCEPT ![task.id] = r]
  <2>1. CASE HandlerDefers
    <3> DEFINE r == [queue[task.id] EXCEPT !.status = "RETRY", !.due = FALSE]
    <3>1. /\ r \in Row /\ r.key = queue[task.id].key
          /\ r.attempts = queue[task.id].attempts /\ r.status = "RETRY"
      BY <1>2 DEF Row, Status
    <3>2. queue' = [queue EXCEPT ![task.id] = r]
      BY <1>2, <2>1 DEF HandlerDefers
    <3> HIDE DEF r
    <3> QED
      BY <3>1, <3>2
  <2>2. CASE HandlerDiscards
    <3> DEFINE r == [queue[task.id] EXCEPT !.status = "FAILED"]
    <3>1. /\ r \in Row /\ r.key = queue[task.id].key
          /\ r.attempts = queue[task.id].attempts /\ r.status = "FAILED"
      BY <1>2 DEF Row, Status
    <3>2. queue' = [queue EXCEPT ![task.id] = r]
      BY <2>2 DEF HandlerDiscards
    <3> HIDE DEF r
    <3> QED
      BY <3>1, <3>2
  <2> QED
    BY <2>1, <2>2
<1>4. PICK k \in Keys :
        /\ KeyInHand = {k} /\ WorkOfKeys[k].state = "taken"
        /\ Promised!Becomes(k, StateOf(r.status), WorkOfKeys[k].tries)
  BY <1>1, <1>3, HandRestated
<1>5. StateOf(r.status) \in {"waiting", "failed"}
  BY <1>3, StatesAre
<1>6. KeyInHand' = {}
  BY <1>1 DEF KeyInHand, NoTask
<1>7. \E state \in {"waiting", "failed"} : Promised!Becomes(k, state, WorkOfKeys[k].tries)
  BY <1>4, <1>5
<1>8. Promised!PutBack(k)
  BY <1>4, <1>6, <1>7 DEF Promised!PutBack
<1> QED
  BY <1>8

LEMMA FailureFails ==
    ASSUME QueueInv, QueueInv', HandlerFails \/ FailureHalfRecorded
    PROVE  \E k \in Keys : Promised!Fail(k)
<1> DEFINE row == queue[task.id]
           k == row.key
           r == RowAfterFailure(row, task.attempts)
<1>1. /\ task.stage \in {"handling", "recording"} /\ task' = NoTask
      /\ queue' = [queue EXCEPT ![task.id] = RowAfterFailure(@, task.attempts)]
  BY DEF HandlerFails, FailureHalfRecorded
<1>2. /\ r \in Row /\ r.key = k /\ queue' = [queue EXCEPT ![task.id] = r]
      /\ row \in Row /\ row.attempts = task.attempts
      /\ row.status \in {"RUNNING", "DONE"}
  BY <1>1, FailureRow, TaskRow DEF QueueInv, TaskOwnsItsRow
<1>3. /\ k \in Keys /\ KeyInHand = {k}
      /\ WorkOfKeys' = [WorkOfKeys EXCEPT ![k] = WorkOf(r)]
      /\ WorkOfKeys[k] = WorkOf(row)
  <2> HIDE DEF r
  <2>1. HandMoves(queue[task.id], r)
    BY <1>1, <1>2, HandRewritten
  <2> QED
    BY <2>1 DEF HandMoves
<1> HIDE DEF row
<1>4. WorkOf(r) = IF row.attempts + 1 < MaxAttempts
                  THEN [state |-> "waiting", tries |-> row.attempts + 1]
                  ELSE [state |-> "failed", tries |-> row.attempts]
  <2>1. row.attempts \in Nat /\ MaxAttempts \in Nat
    BY <1>2, QueueAssumption DEF Row, QueueAssumption
  <2>2. CASE row.attempts + 1 < MaxAttempts
    <3>1. r = [row EXCEPT !.status = "RETRY", !.attempts = row.attempts + 1, !.due = FALSE]
      BY <1>2, <2>1, <2>2 DEF RowAfterFailure
    <3>2. r.status = "RETRY" /\ r.attempts = row.attempts + 1
      BY <1>2, <3>1 DEF Row
    <3> QED
      BY <2>2, <3>2, StatesAre DEF WorkOf
  <2>3. CASE ~(row.attempts + 1 < MaxAttempts)
    <3>1. r = [row EXCEPT !.status = "FAILED"]
      BY <1>2, <2>1, <2>3 DEF RowAfterFailure
    <3>2. r.status = "FAILED" /\ r.attempts = row.attempts
      BY <1>2, <3>1 DEF Row
    <3> QED
      BY <2>3, <3>2, StatesAre DEF WorkOf
  <2> QED
    BY <2>2, <2>3
<1>5. WorkOf(row).state \in {"taken", "done"} /\ WorkOf(row).tries = row.attempts
  BY <1>2, StatesAre DEF WorkOf
<1>6. KeyInHand' = {}
  BY <1>1 DEF KeyInHand, NoTask
<1> HIDE DEF k, r
<1>7. Promised!Fail(k)
  BY <1>3, <1>4, <1>5, <1>6 DEF Promised!Fail, Promised!Becomes
<1> QED
  BY <1>3, <1>7

LEMMA BackoffUnseen ==
    ASSUME QueueInv, QueueInv', NEW i \in Ids, BackoffElapses(i)
    PROVE  Unseen
<1> DEFINE r == [queue[i] EXCEPT !.due = TRUE]
<1>1. queue \in Seq(Row) /\ queue[i] \in Row /\ i \in 1..Len(queue)
  BY DEF QueueInv, QueueTypeOK, Ids
<1>2. r \in Row /\ r.key = queue[i].key /\ r.attempts = queue[i].attempts
      /\ r.status = queue[i].status /\ queue[i].key \in Keys
  BY <1>1 DEF Row
<1>3. queue' = [queue EXCEPT ![i] = r] /\ task' = task
  BY <1>1 DEF BackoffElapses
<1> HIDE DEF r
<1>4. /\ queue'[i] = r /\ Len(queue') = Len(queue)
      /\ \A j \in (1..Len(queue)) \ {i} : queue'[j] = queue[j]
  BY <1>1, <1>2, <1>3
<1>5. WorkOf(queue'[i]) = WorkOf(queue[i])
  BY <1>2, <1>4 DEF WorkOf
<1>6. /\ TableOf(queue') = [TableOf(queue) EXCEPT ![queue[i].key] = WorkOf(queue'[i])]
      /\ TableOf(queue)[queue[i].key] = WorkOf(queue[i])
  <2>1. KeysDiffer(queue) /\ KeysDiffer(queue')
    BY KeysAreApart
  <2>2. queue'[i].key = queue[i].key
    BY <1>2, <1>4
  <2> QED
    BY <1>1, <1>2, <1>4, <2>1, <2>2, TableRewritten
<1>7. WorkOfKeys' = WorkOfKeys
  BY <1>5, <1>6, TableIs, TableFunction
<1>8. KeyInHand' = KeyInHand
  <2>1. \A j \in 1..Len(queue) : queue'[j].key = queue[j].key
    BY <1>2, <1>4
  <2>2. task.stage # "none" => task.id \in 1..Len(queue)
    BY DEF QueueInv, TaskOwnsItsRow, Ids
  <2> QED
    BY <1>3, <2>1, <2>2 DEF KeyInHand
<1> QED
  BY <1>7, <1>8 DEF Unseen

\* Every step of the queue is one of the promised queue, or nothing to be seen.
LEMMA QueueStepsPromised ==
    ASSUME QueueInv, QueueInv', [QueueNext]_queueVars
    PROVE  Promised!Next \/ Unseen
<1>1. ASSUME NEW k \in Keys, Enqueue(k) PROVE Promised!Next \/ Unseen
  BY <1>1, EnqueueSubmits DEF Promised!Next
<1>2. CASE MarkRunning
  BY <1>2, MarkRunningTakes DEF Promised!Next
<1>3. CASE HandlerSucceeds \/ HandlerDefers \/ HandlerDiscards
  BY <1>3, SuccessFinishes, DeferralPutsBack DEF Promised!Next
<1>4. CASE HandlerFails \/ FailureHalfRecorded
  BY <1>4, FailureFails DEF Promised!Next
<1>5. ASSUME NEW i \in Ids, BackoffElapses(i) PROVE Unseen
  BY <1>5, BackoffUnseen
<1>6. CASE HealthRecorded \/ Restart
  <2>1. queue' = queue /\ task' = NoTask
    BY <1>6 DEF HealthRecorded, Restart
  <2>2. WorkOfKeys' = WorkOfKeys /\ KeyInHand' = {}
    BY <2>1, TableIs DEF KeyInHand, NoTask
  <2> QED
    BY <2>2 DEF Promised!Next, Promised!Leave
<1>7. CASE FetchReady \/ WorkerReturns \/ CooldownElapses \/ UNCHANGED queueVars
  <2>1. queue' = queue /\ task' = task
    BY <1>7 DEF FetchReady, WorkerReturns, CooldownElapses, queueVars
  <2> QED
    BY <2>1, TableIs DEF Unseen, KeyInHand
<1> QED
  BY <1>1, <1>2, <1>3, <1>4, <1>5, <1>6, <1>7, Zenon DEF QueueNext, WorkerStep, HandlerEnds

\* The execution queue keeps the promise of WorkQueue (ExecutionQueueStore,
\* _process_execution_queue): whatever is enqueued again, fails, is deferred or dies, the
\* task of a key is taken by one worker at a time, done again only after a failure, and
\* ends when its attempts are used up, neither earlier nor later.
THEOREM ImplementsWorkQueue == QueueSpec => WorkQueueSpec
<1>1. QueueInit => Promised!Init
  <2> SUFFICES ASSUME QueueInit PROVE Promised!Init
    OBVIOUS
  <2>1. Ids = {} /\ KeyInHand = {}
    BY DEF QueueInit, Ids, KeyInHand, NoTask
  <2>2. \A k \in Keys : RowsOf(k) = {}
    BY <2>1 DEF RowsOf
  <2> QED
    BY <2>1, <2>2 DEF Promised!Init, Promised!NoWork, WorkOfKeys
<1>2. QueueInv /\ QueueInv' /\ [QueueNext]_queueVars => [Promised!Next]_(Promised!workVars)
  BY QueueStepsPromised DEF Unseen, Promised!workVars
<1>3. QueueSpec => []QueueInv
  BY QueueInvInit, QueueInvStep, PTL DEF QueueSpec
<1> QED
  BY <1>1, <1>2, <1>3, PTL DEF QueueSpec, WorkQueueSpec, Promised!Spec

-----------------------------------------------------------------------------
(***************************************************************************)
(* The signals table.                                                      *)
(***************************************************************************)

(***************************************************************************)
(* What one tick, fill or close may do to a row.                           *)
(***************************************************************************)
RowStatus == OpenStatus \cup TerminalStatus

LaterStatus(s) == Lifecycle!Later(s)

RowMoves(old, new) ==
    /\ new \in Signal
    /\ new.plan = old.plan
    /\ new.status \in LaterStatus(old.status)
    /\ NoWorse(Side(old), new.stop, old.stop)
    /\ ~IsOpen(old) => new.status = old.status /\ new.reason = old.reason
    /\ new.status = "REPLACED" => old.status = "REPLACED"

LEMMA SignalFields ==
    ASSUME NEW row \in Signal
    PROVE  /\ row.plan \in Plan
           /\ row.status \in RowStatus
           /\ row.reason \in Reasons
           /\ row.stop \in Int
           /\ row.fill \in Int
           /\ row.hits \in SUBSET (1..3)
           /\ Side(row) \in Sides
           /\ row.plan.targets \in Seq(Int)
           /\ row.plan.entry \in Int
           /\ row.plan.stop \in Int
BY DEF Signal, Plan, RowStatus, Side, SideOf, Sides

\* The order of prices of a side is a total order.
LEMMA NoWorseOrder ==
    ASSUME NEW side \in Sides, NEW a \in Int, NEW b \in Int, NEW c \in Int
    PROVE  /\ NoWorse(side, a, a)
           /\ NoWorse(side, a, b) /\ NoWorse(side, b, c) => NoWorse(side, a, c)
           /\ Tighter(side, a, b) \in {a, b}
           /\ NoWorse(side, Tighter(side, a, b), a)
           /\ NoWorse(side, Tighter(side, a, b), b)
BY DEF NoWorse, Tighter, Sides

LEMMA SignalRewrite ==
    ASSUME NEW row \in Signal, NEW status \in RowStatus, NEW reason \in Reasons,
           NEW stop \in Int, NEW fill \in Int, NEW hits \in SUBSET (1..3)
    PROVE  /\ [row EXCEPT !.status = status, !.reason = reason] \in Signal
           /\ [row EXCEPT !.status = status, !.fill = fill, !.entered = TRUE] \in Signal
           /\ [row EXCEPT !.fill = fill, !.entered = TRUE] \in Signal
           /\ [row EXCEPT !.status = status, !.hits = hits, !.stop = stop] \in Signal
           /\ [row EXCEPT !.hits = hits] \in Signal
           /\ [row EXCEPT !.overdue = TRUE] \in Signal
BY DEF Signal, RowStatus

-----------------------------------------------------------------------------
(* One tick, layer by layer.  A pass is sound for the row it started from.  *)

LivePass(old, x) ==
    /\ RowMoves(old, x.row)
    /\ x.row.status \in Lifecycle!Live
    /\ x.seen \in Int

LEMMA LaterIsReflexiveOnLive ==
    ASSUME NEW s \in Lifecycle!Live
    PROVE  s \in RowStatus /\ s \in OpenStatus /\ s \in LaterStatus(s)
BY DEF Lifecycle!Live, LaterStatus, Lifecycle!Later, RowStatus, OpenStatus

\* From a status a live row may have reached, every later one is reachable.
LEMMA LaterComposes ==
    ASSUME NEW s \in OpenStatus, NEW t \in Lifecycle!Live, t \in LaterStatus(s),
           NEW u \in LaterStatus(t)
    PROVE  u \in LaterStatus(s) /\ u # "REPLACED"
BY DEF OpenStatus, Lifecycle!Live, Lifecycle!Resolved, LaterStatus, Lifecycle!Later

LEMMA ReplacingIsLater == \A s : s = "PENDING_ENTRY" => "REPLACED" \in LaterStatus(s)
BY DEF LaterStatus, Lifecycle!Later, Lifecycle!Live, Lifecycle!Resolved

LEMMA AfterTargetLive ==
    ASSUME NEW old \in Signal, IsOpen(old), NEW x, LivePass(old, x),
           NEW n \in {1, 2}, NEW price \in Int
    PROVE  LivePass(old, AfterTarget(x, n, price))
<1> DEFINE row == x.row
           side == Side(row)
           moved == StopAfterTarget(row, n, x.seen)
           hit == [row EXCEPT !.status = PartialStatus[n],
                              !.hits = @ \cup {n},
                              !.stop = moved]
<1>1. CASE ~TargetHit(row, n, price)
  BY <1>1 DEF AfterTarget
<1>2. CASE TargetHit(row, n, price)
  <2>1. row \in Signal /\ row.plan = old.plan /\ Side(row) = Side(old) /\ x.seen \in Int
    BY DEF LivePass, RowMoves, Side
  <2>2. row.plan.targets \in Seq(Int) /\ n \in DOMAIN row.plan.targets
    BY <1>2, <2>1, SignalFields DEF TargetHit
  <2>3. row.plan.targets[1] \in Int
    BY <2>2
  <2>4. moved \in Int /\ NoWorse(side, moved, row.stop)
    <3>1. side \in Sides /\ row.stop \in Int
      BY <2>1, SignalFields
    <3>2. /\ moved = IF n = 1 THEN Tighter(side, row.stop, x.seen)
                     ELSE Tighter(side, row.stop, row.plan.targets[1])
      BY DEF StopAfterTarget, ManagedStopAfterTarget, TargetLabel
    <3> QED
      BY <3>1, <3>2, <2>1, <2>3, NoWorseOrder
  <2>5. PartialStatus[n] \in Lifecycle!Live /\ PartialStatus[n] \in LaterStatus(row.status)
    BY DEF PartialStatus, Lifecycle!Live, LaterStatus, Lifecycle!Later, LivePass
  <2>6. hit \in Signal
    <3>1. PartialStatus[n] \in RowStatus /\ row.hits \cup {n} \in SUBSET (1..3)
      BY <2>5, <2>1, SignalFields, LaterIsReflexiveOnLive
    <3> HIDE DEF moved
    <3> QED
      BY <3>1, <2>1, <2>4, SignalRewrite, SignalFields
  <2>7. hit.plan = row.plan /\ hit.status = PartialStatus[n] /\ hit.stop = moved
    BY <2>1 DEF Signal
  <2>8. NoWorse(Side(old), hit.stop, old.stop)
    <3>1. NoWorse(Side(old), row.stop, old.stop)
      BY DEF LivePass, RowMoves
    <3>2. old.stop \in Int /\ row.stop \in Int /\ Side(old) \in Sides
      BY <2>1, SignalFields
    <3> HIDE DEF moved, hit
    <3> QED
      BY <3>1, <3>2, <2>1, <2>4, <2>7, NoWorseOrder
  <2>9. hit.status \in LaterStatus(old.status) /\ hit.status # "REPLACED"
    <3>1. old.status \in OpenStatus
      BY DEF IsOpen
    <3>2. row.status \in Lifecycle!Live /\ row.status \in LaterStatus(old.status)
      BY DEF LivePass, RowMoves
    <3> HIDE DEF hit
    <3> QED
      BY <3>1, <3>2, <2>5, <2>7, LaterComposes
  <2>10. hit.fill \in Int
    BY <2>6, SignalFields
  <2>11. AfterTarget(x, n, price).row = hit /\ AfterTarget(x, n, price).seen = hit.fill
    BY <1>2 DEF AfterTarget, Pass
  <2> HIDE DEF hit
  <2> QED
    BY <2>1, <2>5, <2>6, <2>7, <2>8, <2>9, <2>10, <2>11 DEF LivePass, RowMoves
<1> QED
  BY <1>1, <1>2

LEMMA ClosedAsType ==
    ASSUME NEW event \in ClosingEvents
    PROVE  /\ ClosedStatus(event) \in Lifecycle!Resolved
           /\ CloseReason(event) \in Reasons
<1>1. ClosedStatus(event) \in Lifecycle!Resolved
  BY DEF ClosedStatus, Lifecycle!Resolved
<1>2. CloseReason(event) \in Reasons
  BY DEF CloseReason, Reasons
<1> QED
  BY <1>1, <1>2

\* Closing an open row is a move, whatever was done to it before.
LEMMA ClosedByMoves ==
    ASSUME NEW old \in Signal, IsOpen(old), NEW x, RowMoves(old, x.row), IsOpen(x.row),
           x.row.status \in Lifecycle!Live \/ x.row.status = old.status,
           NEW event \in ClosingEvents
    PROVE  RowMoves(old, ClosedBy(x, event).row)
<1> DEFINE row == x.row
           hits == IF event = "TP3_HIT" THEN row.hits \cup {3} ELSE row.hits
           counted == [row EXCEPT !.hits = hits]
           status == ClosedStatus(event)
           closed == [counted EXCEPT !.status = status, !.reason = CloseReason(event)]
<1>1. row \in Signal /\ row.plan = old.plan /\ hits \in SUBSET (1..3)
  BY SignalFields DEF RowMoves
<1>2. status \in Lifecycle!Resolved /\ CloseReason(event) \in Reasons
  BY ClosedAsType
<1>3. status \in RowStatus
  BY <1>2 DEF Lifecycle!Resolved, RowStatus, TerminalStatus
<1>4. counted \in Signal /\ counted.plan = row.plan /\ counted.stop = row.stop
  <2> HIDE DEF hits, row
  <2>1. counted \in Signal
    BY <1>1, SignalRewrite, SignalFields
  <2>2. counted.plan = row.plan /\ counted.stop = row.stop
    BY <1>1 DEF Signal
  <2> QED
    BY <2>1, <2>2
<1>5. closed \in Signal /\ closed.plan = row.plan /\ closed.stop = row.stop
      /\ closed.status = status
  <2> HIDE DEF counted, status
  <2>1. closed \in Signal
    BY <1>2, <1>3, <1>4, SignalRewrite, SignalFields
  <2> QED
    BY <1>4, <2>1 DEF Signal
<1>6. status \in LaterStatus(old.status) /\ status # "REPLACED"
  <2>1. status \in LaterStatus(row.status) /\ status # "REPLACED"
    <3> HIDE DEF status
    <3> QED
      BY <1>2 DEF Lifecycle!Resolved, LaterStatus, Lifecycle!Later, IsOpen, OpenStatus,
         Lifecycle!Live
  <2>2. CASE row.status = old.status
    BY <2>1, <2>2
  <2>3. CASE row.status \in Lifecycle!Live
    <3>1. old.status \in OpenStatus /\ row.status \in LaterStatus(old.status)
      BY DEF IsOpen, RowMoves
    <3> HIDE DEF status
    <3> QED
      BY <2>1, <2>3, <3>1, LaterComposes
  <2> QED
    BY <2>1, <2>2, <2>3
<1>7. ClosedBy(x, event).row = closed
  BY DEF ClosedBy, Closed, Pass
<1>8. NoWorse(Side(old), row.stop, old.stop)
  BY DEF RowMoves
<1> HIDE DEF closed, status
<1> QED
  BY <1>1, <1>5, <1>6, <1>7, <1>8 DEF RowMoves

LEMMA ManagedMoves ==
    ASSUME NEW old \in Signal, IsOpen(old), NEW x, LivePass(old, x),
           NEW price \in Int, NEW spiking
    PROVE  RowMoves(old, Managed(x, price, spiking).row)
<1> DEFINE y == AfterTarget(AfterTarget(x, 1, price), 2, price)
           event == ExitEvent(y, price, spiking)
<1>1. LivePass(old, AfterTarget(x, 1, price))
  BY AfterTargetLive
<1>2. LivePass(old, y)
  BY <1>1, AfterTargetLive
<1>3. event \in ClosingEvents \cup {"none"}
  BY DEF ExitEvent, ClosingEvents
<1>4. Managed(x, price, spiking) = IF event = "none" THEN y ELSE ClosedBy(y, event)
  BY DEF Managed, AfterExit
<1> HIDE DEF y, event
<1>5. CASE event = "none"
  BY <1>2, <1>4, <1>5 DEF LivePass
<1>6. CASE event # "none"
  <2>1. event \in ClosingEvents
    BY <1>3, <1>6
  <2>2. RowMoves(old, y.row) /\ y.row.status \in Lifecycle!Live /\ IsOpen(y.row)
    BY <1>2 DEF LivePass, IsOpen, OpenStatus, Lifecycle!Live
  <2> QED
    BY <2>1, <2>2, <1>4, <1>6, ClosedByMoves
<1> QED
  BY <1>5, <1>6

LEMMA RowStays ==
    ASSUME NEW row \in Signal
    PROVE  RowMoves(row, row)
<1>1. row.status \in LaterStatus(row.status)
  BY SignalFields DEF LaterStatus, Lifecycle!Later, Lifecycle!Live, RowStatus, OpenStatus, TerminalStatus
<1>2. NoWorse(Side(row), row.stop, row.stop)
  BY SignalFields, NoWorseOrder
<1> QED
  BY <1>1, <1>2 DEF RowMoves

\* A tick moves a row of the table along the lifecycle.
LEMMA TrackedMoves ==
    ASSUME NEW row \in Signal, NEW price \in Int, NEW spiking
    PROVE  RowMoves(row, Tracked(row, price, spiking).row)
<1> DEFINE start == Pass(row, row.fill, <<>>)
<1>1. start.row = row /\ start.seen = row.fill
  BY DEF Pass
<1>2. RowMoves(row, row) /\ row.fill \in Int /\ row.status \in RowStatus
  BY RowStays, SignalFields
<1>3. CASE row.status = "PENDING_ENTRY"
  <2>1. IsOpen(row) /\ Tracked(row, price, spiking) = TrackedPending(row, price, spiking)
    BY <1>3 DEF Tracked, IsOpen, OpenStatus
  <2>2. {"STOP_LOSS_BEFORE_ENTRY", "ENTRY_SKIPPED"} \subseteq ClosingEvents
    BY DEF ClosingEvents
  <2>3. \A event \in {"STOP_LOSS_BEFORE_ENTRY", "ENTRY_SKIPPED"} :
           RowMoves(row, ClosedBy(start, event).row)
    <3> HIDE DEF start
    <3> QED
      BY <1>1, <1>2, <2>1, <2>2, ClosedByMoves
  <2> DEFINE entered == Pass(Entered(row, price), row.fill, <<"ENTRY_TRIGGERED">>)
  <2>4. LivePass(row, entered)
    <3>1. Entered(row, price) \in Signal
      BY SignalRewrite, SignalFields DEF Entered, RowStatus, OpenStatus
    <3>2. /\ Entered(row, price).plan = row.plan
          /\ Entered(row, price).stop = row.stop
          /\ Entered(row, price).status = "ACTIVE"
      BY DEF Entered, Signal
    <3>3. "ACTIVE" \in LaterStatus(row.status) /\ "ACTIVE" \in Lifecycle!Live
      BY <1>3 DEF LaterStatus, Lifecycle!Later, Lifecycle!Live
    <3>4. entered.row = Entered(row, price) /\ entered.seen \in Int
      BY <1>2 DEF Pass
    <3>5. NoWorse(Side(row), row.stop, row.stop)
      BY <1>2 DEF RowMoves
    <3> HIDE DEF entered
    <3> QED
      BY <2>1, <3>1, <3>2, <3>3, <3>4, <3>5 DEF LivePass, RowMoves
  <2>5. RowMoves(row, Managed(entered, price, spiking).row)
    <3> HIDE DEF entered
    <3> QED
      BY <2>1, <2>4, ManagedMoves
  <2> QED
    BY <1>1, <1>2, <2>1, <2>3, <2>5 DEF TrackedPending
<1>4. CASE row.status \in OpenStatus \ {"PENDING_ENTRY"}
  <2>1. LivePass(row, start) /\ IsOpen(row)
    BY <1>1, <1>2, <1>4 DEF LivePass, IsOpen, OpenStatus, Lifecycle!Live
  <2>2. Tracked(row, price, spiking) = Managed(start, price, spiking)
    BY <1>4 DEF Tracked, OpenStatus
  <2> HIDE DEF start
  <2> QED
    BY <2>1, <2>2, ManagedMoves
<1>5. CASE row.status \notin OpenStatus
  BY <1>1, <1>2, <1>5 DEF Tracked, OpenStatus
<1> QED
  BY <1>3, <1>4, <1>5

-----------------------------------------------------------------------------
(***************************************************************************)
(* The inductive invariant.  The gate looks at one row only, the latest of *)
(* the slot; it is enough because every earlier row of the slot is closed  *)
(* for good, and because with the gate on no row is ever replaced.         *)
(***************************************************************************)
OnlyLatestOpen ==
    \A i, j \in SignalIds :
        i < j /\ signals[i].plan.slot = signals[j].plan.slot =>
            /\ signals[i].status # "PENDING_ENTRY"
            /\ gate => ~IsOpen(signals[i])

NoneReplaced == gate => \A i \in SignalIds : signals[i].status # "REPLACED"

SignalInv ==
    /\ SignalTypeOK
    /\ OnlyLatestOpen
    /\ NoneReplaced
    /\ NoSameThesisReentry

\* What every step does to the rows that exist, and how many it adds.
RowsProgress ==
    /\ Len(signals') \in {Len(signals), Len(signals) + 1}
    /\ \A i \in SignalIds :
          /\ signals'[i].status \in LaterStatus(signals[i].status)
          /\ signals'[i].plan = signals[i].plan
          /\ NoWorse(Side(signals[i]), signals'[i].stop, signals[i].stop)
          /\ ~IsOpen(signals[i]) => /\ signals'[i].status = signals[i].status
                                    /\ signals'[i].reason = signals[i].reason
    /\ \A i \in Len(signals) + 1 .. Len(signals') :
          signals'[i].status \in {"PENDING_ENTRY", "ACTIVE"}

LEMMA SignalInvInit == SignalInit => SignalInv
BY SignalAssumption DEF SignalAssumption, SignalInit, SignalInv, SignalTypeOK, OnlyLatestOpen,
   NoneReplaced, NoSameThesisReentry, SignalIds, RowsIn

\* Rows may be rewritten by the lifecycle's moves without disturbing the rest.
LEMMA RowsMove ==
    ASSUME SignalInv,
           UNCHANGED <<mode, gate>>,
           runtime' \in [Slots -> Analyses \cup {<<>>}],
           signals' \in Seq(Signal),
           Len(signals') = Len(signals),
           \A i \in SignalIds : RowMoves(signals[i], signals'[i])
    PROVE  SignalInv' /\ RowsProgress
<1>1. SignalIds' = SignalIds /\ Len(signals) \in Nat
  BY DEF SignalIds, SignalInv, SignalTypeOK
<1>2. ASSUME NEW i \in SignalIds
      PROVE  /\ signals'[i].plan = signals[i].plan
             /\ signals'[i].status \in LaterStatus(signals[i].status)
             /\ ~IsOpen(signals[i]) => signals'[i].status = signals[i].status
                                       /\ signals'[i].reason = signals[i].reason
             /\ signals'[i].status = "REPLACED" => signals[i].status = "REPLACED"
             /\ NoWorse(Side(signals[i]), signals'[i].stop, signals[i].stop)
  BY DEF RowMoves
<1>3. SignalTypeOK'
  BY DEF SignalInv, SignalTypeOK
<1>4. ASSUME NEW i \in SignalIds
      PROVE  /\ signals[i].status # "PENDING_ENTRY" => signals'[i].status # "PENDING_ENTRY"
             /\ ~IsOpen(signals[i]) => ~IsOpen(signals'[i])
  BY <1>2 DEF LaterStatus, Lifecycle!Later, Lifecycle!Live, Lifecycle!Resolved, IsOpen, OpenStatus
<1>5. OnlyLatestOpen'
  BY <1>1, <1>2, <1>4 DEF SignalInv, OnlyLatestOpen
<1>6. NoneReplaced'
  BY <1>1, <1>2 DEF SignalInv, NoneReplaced
<1>7. NoSameThesisReentry'
  <2> SUFFICES ASSUME gate', NEW slot \in Slots, NEW i \in RowsIn(slot)', NEW j \in RowsIn(slot)',
                      i < j, (\A k \in RowsIn(slot) : k <= i \/ j <= k)',
                      \/ signals'[i].status = "STOPPED"
                      \/ /\ signals'[i].status = "INVALIDATED"
                         /\ signals'[i].reason = "STOP_LOSS_BEFORE_ENTRY"
               PROVE  signals'[i].plan.bias # signals'[j].plan.bias
    BY DEF NoSameThesisReentry
  <2>1. RowsIn(slot)' = RowsIn(slot)
    BY <1>1, <1>2 DEF RowsIn
  <2>2. i \in SignalIds /\ j \in SignalIds /\ signals[i].plan.slot = signals[j].plan.slot
    BY <2>1 DEF RowsIn
  <2>3. gate /\ ~IsOpen(signals[i])
    BY <2>2 DEF SignalInv, OnlyLatestOpen
  <2>4. signals'[i].status = signals[i].status /\ signals'[i].reason = signals[i].reason
    BY <1>2, <2>2, <2>3
  <2>5. signals[i].plan.bias # signals[j].plan.bias
    BY <2>1, <2>3, <2>4 DEF SignalInv, NoSameThesisReentry
  <2> QED
    BY <1>2, <2>2, <2>5
<1>8. RowsProgress
  BY <1>1, <1>2 DEF RowsProgress
<1> QED
  BY <1>3, <1>5, <1>6, <1>7, <1>8 DEF SignalInv

-----------------------------------------------------------------------------
(* The steps that rewrite rows in place.                                   *)

LEMMA TrackPriceStep ==
    ASSUME SignalInv, NEW price \in Prices, NEW spiking, TrackPrice(price, spiking)
    PROVE  SignalInv' /\ RowsProgress
<1>1. price \in Int /\ signals \in Seq(Signal) /\ Len(signals) \in Nat
  BY SignalAssumption DEF SignalAssumption, SignalInv, SignalTypeOK
<1>2. \A i \in SignalIds : RowMoves(signals[i], Tracked(signals[i], price, spiking).row)
  BY <1>1, TrackedMoves DEF SignalIds
<1>3. signals' = [i \in 1..Len(signals) |-> Tracked(signals[i], price, spiking).row]
  BY DEF TrackPrice, SignalIds
<1>4. \A i \in SignalIds : RowMoves(signals[i], signals'[i])
  BY <1>2, <1>3 DEF SignalIds
<1>5. signals' \in Seq(Signal) /\ Len(signals') = Len(signals)
  <2>1. \A i \in 1..Len(signals) : Tracked(signals[i], price, spiking).row \in Signal
    BY <1>2 DEF SignalIds, RowMoves
  <2> QED
    BY <1>1, <1>3, <2>1
<1>6. UNCHANGED <<mode, gate>> /\ runtime' \in [Slots -> Analyses \cup {<<>>}]
  BY DEF TrackPrice, SignalInv, SignalTypeOK
<1> QED
  BY <1>4, <1>5, <1>6, RowsMove

\* One row rewritten.
LEMMA OneRowMoves ==
    ASSUME SignalInv, NEW i \in SignalIds, NEW row,
           RowMoves(signals[i], row),
           signals' = [signals EXCEPT ![i] = row],
           UNCHANGED <<runtime, mode, gate>>
    PROVE  SignalInv' /\ RowsProgress
<1>1. signals \in Seq(Signal) /\ row \in Signal
  BY DEF SignalInv, SignalTypeOK, RowMoves
<1>2. signals' \in Seq(Signal) /\ Len(signals') = Len(signals)
      /\ \A j \in SignalIds : signals'[j] = IF j = i THEN row ELSE signals[j]
  BY <1>1 DEF SignalIds
<1>3. \A j \in SignalIds : RowMoves(signals[j], signals'[j])
  BY <1>1, <1>2, RowStays DEF SignalIds
<1>4. runtime' \in [Slots -> Analyses \cup {<<>>}]
  BY DEF SignalInv, SignalTypeOK
<1> QED
  BY <1>2, <1>3, <1>4, RowsMove

LEMMA RowStepPreserves ==
    ASSUME SignalInv, NEW i \in SignalIds, RowStep(i)
    PROVE  SignalInv' /\ RowsProgress
<1> DEFINE row == signals[i]
<1>1. row \in Signal
  BY DEF SignalIds, SignalInv, SignalTypeOK
<1>2. RowMoves(row, row) /\ row.status \in RowStatus
  BY <1>1, RowStays, SignalFields
<1>3. ASSUME NEW price \in Fills, ExchangeFill(i, price)
      PROVE  SignalInv' /\ RowsProgress
  <2> DEFINE status == IF row.status = "PENDING_ENTRY" THEN "ACTIVE" ELSE row.status
             filled == [row EXCEPT !.status = status, !.fill = price, !.entered = TRUE]
  <2>1. price \in Int /\ status \in RowStatus
    BY <1>2, <1>3, SignalAssumption DEF SignalAssumption, RowStatus, OpenStatus
  <2>2. filled \in Signal
    <3> HIDE DEF status, row
    <3> QED
      BY <1>1, <1>2, <2>1, SignalRewrite, SignalFields
  <2>3. filled.plan = row.plan /\ filled.stop = row.stop /\ filled.status = status
    BY <1>1 DEF Signal
  <2>4. status \in LaterStatus(row.status) /\ status # "REPLACED" /\ IsOpen(row)
    BY <1>3 DEF ExchangeFill, IsOpen, OpenStatus, LaterStatus, Lifecycle!Later, Lifecycle!Live
  <2>5. signals' = [signals EXCEPT ![i] = filled] /\ UNCHANGED <<runtime, mode, gate>>
    BY <1>1, <1>3 DEF ExchangeFill, SignalIds
  <2>6. RowMoves(row, filled)
    <3> HIDE DEF filled, status
    <3> QED
      BY <1>1, <1>2, <2>2, <2>3, <2>4 DEF RowMoves
  <2> HIDE DEF filled
  <2> QED
    BY <2>5, <2>6, OneRowMoves
<1>4. ASSUME NEW price \in Fills, AlignClosedEntry(i, price)
      PROVE  SignalInv' /\ RowsProgress
  <2> DEFINE filled == [row EXCEPT !.fill = price, !.entered = TRUE]
  <2>1. price \in Int
    BY <1>4, SignalAssumption DEF SignalAssumption
  <2>2. filled \in Signal
    <3> HIDE DEF row
    <3> QED
      BY <1>1, <1>2, <2>1, SignalRewrite, SignalFields
  <2>3. filled.plan = row.plan /\ filled.stop = row.stop /\ filled.status = row.status
        /\ filled.reason = row.reason
    BY <1>1 DEF Signal
  <2>4. signals' = [signals EXCEPT ![i] = filled] /\ UNCHANGED <<runtime, mode, gate>>
    BY <1>1, <1>4 DEF AlignClosedEntry, SignalIds
  <2>5. RowMoves(row, filled)
    <3> HIDE DEF filled
    <3> QED
      BY <1>1, <1>2, <2>2, <2>3 DEF RowMoves
  <2> HIDE DEF filled
  <2> QED
    BY <2>4, <2>5, OneRowMoves
<1>5. ASSUME NEW reason \in CloseReasons, CloseOpen(i, reason)
      PROVE  SignalInv' /\ RowsProgress
  <2> DEFINE closed == [row EXCEPT !.status = "INVALIDATED", !.reason = reason]
  <2>1. reason \in Reasons /\ "INVALIDATED" \in RowStatus
    BY <1>5 DEF CloseReasons, Reasons, RowStatus, TerminalStatus
  <2>2. closed \in Signal
    <3> HIDE DEF row
    <3> QED
      BY <1>1, <1>2, <2>1, SignalRewrite, SignalFields
  <2>3. closed.plan = row.plan /\ closed.stop = row.stop /\ closed.status = "INVALIDATED"
    BY <1>1 DEF Signal
  <2>4. IsOpen(row) /\ "INVALIDATED" \in LaterStatus(row.status)
    BY <1>5 DEF CloseOpen, IsOpen, OpenStatus, LaterStatus, Lifecycle!Later, Lifecycle!Live,
       Lifecycle!Resolved
  <2>5. signals' = [signals EXCEPT ![i] = closed] /\ UNCHANGED <<runtime, mode, gate>>
    BY <1>1, <1>5 DEF CloseOpen, Closed, SignalIds
  <2>6. RowMoves(row, closed)
    <3> HIDE DEF closed
    <3> QED
      BY <1>1, <1>2, <2>2, <2>3, <2>4 DEF RowMoves
  <2> HIDE DEF closed
  <2> QED
    BY <2>5, <2>6, OneRowMoves
<1>6. ASSUME BarsElapse(i)
      PROVE  SignalInv' /\ RowsProgress
  <2> DEFINE late == [row EXCEPT !.overdue = TRUE]
  <2>1. late \in Signal
    <3> HIDE DEF row
    <3> QED
      BY <1>1, <1>2, SignalRewrite, SignalFields
  <2>2. late.plan = row.plan /\ late.stop = row.stop /\ late.status = row.status
        /\ late.reason = row.reason
    BY <1>1 DEF Signal
  <2>3. signals' = [signals EXCEPT ![i] = late] /\ UNCHANGED <<runtime, mode, gate>>
    BY <1>1, <1>6 DEF BarsElapse, SignalIds
  <2>4. RowMoves(row, late)
    <3> HIDE DEF late
    <3> QED
      BY <1>1, <1>2, <2>1, <2>2 DEF RowMoves
  <2> HIDE DEF late
  <2> QED
    BY <2>3, <2>4, OneRowMoves
<1> QED
  BY <1>3, <1>4, <1>5, <1>6 DEF RowStep

-----------------------------------------------------------------------------
(* A new analysis.                                                         *)

LEMMA SnapshotIsPlan ==
    ASSUME NEW slot \in Slots, NEW s \in Scenario
    PROVE  SnapshotOf(slot, s) \in Plan
<1>1. /\ s.bias \in Bias /\ s.confirmation \in Int /\ s.stop_loss \in Int
      /\ s.invalidation \in Int /\ s.targets \in Seq(Int)
  BY DEF Scenario
<1>2. ASSUME NEW side
      PROVE  FallbackTargets(side, s.confirmation, Abs(s.confirmation - s.stop_loss)) \in Seq(Int)
  <2> DEFINE risk == Abs(s.confirmation - s.stop_loss)
             direction == IF side = "LONG" THEN 1 ELSE -1
  <2>1. risk \in Int /\ direction \in Int
    BY <1>1 DEF Abs
  <2> HIDE DEF risk, direction
  <2>2. (risk * 1272) \div 1000 \in Int /\ (risk * 1618) \div 1000 \in Int
    BY <2>1
  <2>3. direction * risk \in Int /\ direction * ((risk * 1272) \div 1000) \in Int
        /\ direction * ((risk * 1618) \div 1000) \in Int
    BY <2>1, <2>2
  <2> DEFINE t == <<s.confirmation + direction * risk,
                    s.confirmation + direction * ((risk * 1272) \div 1000),
                    s.confirmation + direction * ((risk * 1618) \div 1000)>>
  <2>4. t \in Seq(Int)
    BY <1>1, <2>3
  <2> QED
    BY <2>4 DEF FallbackTargets, risk, direction
<1>3. SubSeq(s.targets, 1, IF Len(s.targets) < 3 THEN Len(s.targets) ELSE 3) \in Seq(Int)
  BY <1>1
<1>4. SnapshotTargets(s) \in Seq(Int)
  BY <1>2, <1>3 DEF SnapshotTargets
<1> QED
  BY <1>1, <1>4 DEF SnapshotOf, Plan

LEMMA NewSignalFields ==
    ASSUME NEW plan \in Plan, NEW price \in Int
    PROVE  /\ NewSignal(plan, price) \in Signal
           /\ NewSignal(plan, price).plan = plan
           /\ NewSignal(plan, price).status \in {"PENDING_ENTRY", "ACTIVE"}
BY DEF NewSignal, Signal, Plan, OpenStatus, Reasons

\* A row that is inserted finds its slot's other rows closed, or at least, with
\* the gate off, none of them waiting any more.
LEMMA InsertStep ==
    ASSUME SignalInv, NEW plan \in Plan, NEW price \in Int,
           ~GateBlocks(plan),
           Len(signals) < MaxSignals,
           signals' = Append(WithPendingReplaced(plan), NewSignal(plan, price)),
           UNCHANGED <<mode, gate>>,
           runtime' \in [Slots -> Analyses \cup {<<>>}]
    PROVE  SignalInv' /\ RowsProgress
<1> DEFINE n == Len(signals)
           kept == WithPendingReplaced(plan)
           born == NewSignal(plan, price)
           replaced(i) == signals[i].plan.slot = plan.slot /\ signals[i].status = "PENDING_ENTRY"
<1>1. signals \in Seq(Signal) /\ n \in Nat
  BY DEF SignalInv, SignalTypeOK
<1>2. born \in Signal /\ born.plan = plan /\ born.status \in {"PENDING_ENTRY", "ACTIVE"}
  BY NewSignalFields
<1>3. ASSUME NEW i \in SignalIds
      PROVE  /\ kept[i] \in Signal
             /\ kept[i].plan = signals[i].plan
             /\ kept[i].stop = signals[i].stop
             /\ ~replaced(i) => kept[i] = signals[i]
             /\ replaced(i) => kept[i].status = "REPLACED"
  <2>1. signals[i] \in Signal
    BY <1>1 DEF SignalIds
  <2>2. kept[i] = IF replaced(i)
                  THEN [signals[i] EXCEPT !.status = "REPLACED",
                                          !.reason = "REPLACED_BY_NEW_SIGNAL"]
                  ELSE signals[i]
    BY DEF WithPendingReplaced, Closed
  <2> HIDE DEF kept
  <2>3. "REPLACED" \in RowStatus /\ "REPLACED_BY_NEW_SIGNAL" \in Reasons
    BY DEF RowStatus, TerminalStatus, Reasons
  <2>4. [signals[i] EXCEPT !.status = "REPLACED", !.reason = "REPLACED_BY_NEW_SIGNAL"] \in Signal
    BY <2>1, <2>3, SignalRewrite, SignalFields
  <2> QED
    BY <2>1, <2>2, <2>4 DEF Signal
<1>4. kept \in Seq(Signal) /\ Len(kept) = n
  <2>1. kept = [i \in 1..n |-> kept[i]]
    BY <1>1 DEF WithPendingReplaced, SignalIds
  <2>2. \A i \in 1..n : kept[i] \in Signal
    BY <1>3 DEF SignalIds
  <2> HIDE DEF kept
  <2> QED
    BY <1>1, <2>1, <2>2
<1> HIDE DEF kept, born
<1>5. /\ signals' \in Seq(Signal)
      /\ Len(signals') = n + 1
      /\ signals'[n + 1] = born
      /\ \A i \in SignalIds : signals'[i] = kept[i]
      /\ SignalIds' = SignalIds \cup {n + 1}
  BY <1>1, <1>2, <1>4 DEF SignalIds, kept, born
<1>6. n + 1 \notin SignalIds /\ \A i \in SignalIds : i < n + 1
  BY <1>1 DEF SignalIds
<1>7. ASSUME gate, NEW i \in SignalIds, signals[i].plan.slot = plan.slot
      PROVE  ~IsOpen(signals[i])
  <2> SUFFICES ASSUME IsOpen(signals[i]) PROVE FALSE
    OBVIOUS
  <2>1. \A j \in SignalIds : signals[j].plan.slot = plan.slot => j <= i
    BY <1>7 DEF SignalInv, OnlyLatestOpen, SignalIds
  <2>2. signals[i].status # "REPLACED"
    BY <1>7 DEF SignalInv, NoneReplaced
  <2>3. i \in LatestIn(plan.slot)
    BY <1>7, <2>1, <2>2 DEF LatestIn, RowsIn
  <2> QED
    BY <1>7, <2>3 DEF GateBlocks
<1>8. ASSUME gate, NEW i \in SignalIds
      PROVE  kept[i] = signals[i]
  BY <1>3, <1>7, <1>8 DEF IsOpen, OpenStatus
<1>9. SignalTypeOK'
  <2>1. Len(signals') <= MaxSignals
    BY <1>1, <1>5, SignalAssumption DEF SignalAssumption
  <2> QED
    BY <1>5, <2>1 DEF SignalInv, SignalTypeOK
<1>10. OnlyLatestOpen'
  <2> SUFFICES ASSUME NEW i \in SignalIds', NEW j \in SignalIds', i < j,
                      signals'[i].plan.slot = signals'[j].plan.slot
               PROVE  /\ signals'[i].status # "PENDING_ENTRY"
                      /\ gate => ~IsOpen(signals'[i])
    BY DEF OnlyLatestOpen
  <2>1. i \in SignalIds /\ signals'[i] = kept[i] /\ kept[i].plan = signals[i].plan
    BY <1>3, <1>5, <1>6 DEF SignalIds
  <2>2. CASE j \in SignalIds
    <3>1. signals[i].plan.slot = signals[j].plan.slot
      BY <1>3, <1>5, <2>1, <2>2
    <3>2. signals[i].status # "PENDING_ENTRY" /\ (gate => ~IsOpen(signals[i]))
      BY <2>1, <2>2, <3>1 DEF SignalInv, OnlyLatestOpen
    <3> QED
      BY <1>3, <2>1, <3>2
  <2>3. CASE j = n + 1
    <3>1. signals[i].plan.slot = plan.slot
      BY <1>2, <1>5, <2>1, <2>3
    <3>2. signals'[i].status # "PENDING_ENTRY"
      BY <1>3, <2>1, <3>1
    <3>3. gate => ~IsOpen(signals'[i])
      BY <1>7, <1>8, <2>1, <3>1
    <3> QED
      BY <3>2, <3>3
  <2> QED
    BY <1>5, <2>2, <2>3
<1>11. NoneReplaced'
  BY <1>2, <1>5, <1>8 DEF SignalInv, NoneReplaced
<1>12. NoSameThesisReentry'
  <2> SUFFICES ASSUME gate, NEW slot \in Slots, NEW i \in RowsIn(slot)', NEW j \in RowsIn(slot)',
                      i < j, (\A k \in RowsIn(slot) : k <= i \/ j <= k)',
                      \/ signals'[i].status = "STOPPED"
                      \/ /\ signals'[i].status = "INVALIDATED"
                         /\ signals'[i].reason = "STOP_LOSS_BEFORE_ENTRY"
               PROVE  signals'[i].plan.bias # signals'[j].plan.bias
    BY DEF NoSameThesisReentry
  <2>1. \A k \in SignalIds : signals'[k] = signals[k]
    BY <1>5, <1>8
  <2>2. i \in SignalIds /\ i \in RowsIn(slot) /\ j \in SignalIds'
    BY <1>5, <1>6, <2>1 DEF RowsIn, SignalIds
  <2>3. \A k \in RowsIn(slot) : k \in RowsIn(slot)'
    BY <1>5, <2>1 DEF RowsIn
  <2>4. CASE j \in SignalIds
    <3>1. j \in RowsIn(slot)
      BY <2>1, <2>4 DEF RowsIn
    <3>2. \A k \in RowsIn(slot) : k <= i \/ j <= k
      BY <2>3
    <3>3. \/ signals[i].status = "STOPPED"
          \/ signals[i].status = "INVALIDATED" /\ signals[i].reason = "STOP_LOSS_BEFORE_ENTRY"
      BY <2>1, <2>2
    <3>4. signals[i].plan.bias # signals[j].plan.bias
      BY <2>2, <3>1, <3>2, <3>3 DEF SignalInv, NoSameThesisReentry
    <3> QED
      BY <2>1, <2>2, <2>4, <3>4
  <2>5. CASE j = n + 1
    <3>1. plan.slot = slot
      BY <1>2, <1>5, <2>5 DEF RowsIn
    <3>2. \A k \in RowsIn(slot) : k <= i
      BY <1>6, <2>3, <2>5 DEF RowsIn, SignalIds
    <3>3. i \in LatestIn(slot)
      BY <2>2, <3>2 DEF LatestIn, SignalInv, NoneReplaced
    <3>4. signals[i].plan.bias # plan.bias
      BY <2>1, <2>2, <3>1, <3>3 DEF GateBlocks
    <3> QED
      BY <1>2, <1>5, <2>1, <2>2, <2>5, <3>4
  <2> QED
    BY <1>5, <2>2, <2>4, <2>5
<1>13. RowsProgress
  <2>1. ASSUME NEW i \in SignalIds
        PROVE  /\ signals'[i].status \in LaterStatus(signals[i].status)
               /\ signals'[i].plan = signals[i].plan
               /\ NoWorse(Side(signals[i]), signals'[i].stop, signals[i].stop)
               /\ ~IsOpen(signals[i]) => /\ signals'[i].status = signals[i].status
                                         /\ signals'[i].reason = signals[i].reason
    <3>1. RowMoves(signals[i], signals[i]) /\ signals[i] \in Signal
      BY <1>1, RowStays DEF SignalIds
    <3>2. CASE replaced(i)
      <4>1. signals'[i].status = "REPLACED" /\ signals[i].status = "PENDING_ENTRY"
        BY <1>3, <1>5, <3>2
      <4>2. NoWorse(Side(signals[i]), signals[i].stop, signals[i].stop)
            /\ signals'[i].stop = signals[i].stop
        BY <1>3, <1>5, <3>1 DEF RowMoves
      <4>3. "REPLACED" \in LaterStatus("PENDING_ENTRY")
        BY ReplacingIsLater
      <4>4. IsOpen(signals[i])
        BY <4>1 DEF IsOpen, OpenStatus
      <4> QED
        BY <1>3, <1>5, <4>1, <4>2, <4>3, <4>4
    <3>3. CASE ~replaced(i)
      BY <1>3, <1>5, <3>1, <3>3 DEF RowMoves
    <3> QED
      BY <3>2, <3>3
  <2>2. \A i \in Len(signals) + 1 .. Len(signals') : signals'[i].status \in {"PENDING_ENTRY", "ACTIVE"}
    BY <1>1, <1>2, <1>5
  <2> QED
    BY <1>5, <2>1, <2>2 DEF RowsProgress
<1> QED
  BY <1>9, <1>10, <1>11, <1>12, <1>13 DEF SignalInv

LEMMA SyncAnalysisStep ==
    ASSUME SignalInv, NEW slot \in Slots, NEW scenarios \in Analyses, NEW price \in Prices,
           SyncAnalysis(slot, scenarios, price)
    PROVE  SignalInv' /\ RowsProgress
<1>1. price \in Int /\ scenarios \in Seq(Scenario)
  BY SignalAssumption DEF SignalAssumption
<1>2. UNCHANGED <<mode, gate>> /\ runtime' \in [Slots -> Analyses \cup {<<>>}]
  BY DEF SyncAnalysis, SignalInv, SignalTypeOK
<1>3. CASE UNCHANGED signals
  <2>1. signals' \in Seq(Signal) /\ Len(signals') = Len(signals)
        /\ \A i \in SignalIds : signals[i] \in Signal /\ signals'[i] = signals[i]
    BY <1>3 DEF SignalInv, SignalTypeOK, SignalIds
  <2>2. \A i \in SignalIds : RowMoves(signals[i], signals'[i])
    BY <2>1, RowStays
  <2> QED
    BY <1>2, <2>1, <2>2, RowsMove
<1>4. ASSUME NEW plan \in SnapshotsFrom(slot, scenarios, price), Insert(plan, price),
             ~UNCHANGED signals
      PROVE  SignalInv' /\ RowsProgress
  <2>1. plan \in Plan
    BY <1>1, SnapshotIsPlan DEF SnapshotsFrom
  <2>2. /\ ~GateBlocks(plan)
        /\ Len(signals) < MaxSignals
        /\ signals' = Append(WithPendingReplaced(plan), NewSignal(plan, price))
    BY <1>4 DEF Insert
  <2> QED
    BY <1>1, <1>2, <2>1, <2>2, InsertStep
<1> QED
  BY <1>3, <1>4 DEF SyncAnalysis

LEMMA SignalNextStep == SignalInv /\ SignalNext => SignalInv' /\ RowsProgress
<1> SUFFICES ASSUME SignalInv, SignalNext PROVE SignalInv' /\ RowsProgress
  OBVIOUS
<1> QED
  BY SyncAnalysisStep, TrackPriceStep, RowStepPreserves DEF SignalNext

LEMMA SignalStutter ==
    ASSUME SignalInv, UNCHANGED signalVars
    PROVE  SignalInv'
<1>1. /\ signals' = signals /\ runtime' = runtime /\ mode' = mode /\ gate' = gate
  BY DEF signalVars
<1> QED
  BY <1>1 DEF SignalInv, SignalTypeOK, OnlyLatestOpen, NoneReplaced, NoSameThesisReentry,
     SignalIds, RowsIn

LEMMA OnePlanFromInv == SignalInv => OnePlanPerSlot
BY DEF SignalInv, SignalTypeOK, OnlyLatestOpen, OnePlanPerSlot, OpenIn, RowsIn, SignalIds, IsOpen

LEMMA SignalInvAlways == SignalSpec => []SignalInv
<1>1. SignalInv /\ [SignalNext]_signalVars => SignalInv'
  BY SignalNextStep, SignalStutter
<1> QED
  BY SignalInvInit, <1>1, PTL DEF SignalSpec

-----------------------------------------------------------------------------
\* Whatever analyses, ticks, exchange fills and reconciliations come, in any
\* order: the table keeps its types, a slot has one open plan at a time (one
\* pending plan with the gate off), and with the gate on the plan after a
\* stopped one has the other bias (_signal_gate_blocks_new).
THEOREM SignalSafety ==
    SignalSpec => [](SignalTypeOK /\ OnePlanPerSlot /\ NoSameThesisReentry)
<1>1. SignalInv => SignalTypeOK /\ OnePlanPerSlot /\ NoSameThesisReentry
  BY OnePlanFromInv DEF SignalInv
<1> QED
  BY <1>1, SignalInvAlways, PTL

\* Every row keeps the types of its columns.
THEOREM SignalTypes == SignalSpec => []SignalTypeOK
BY SignalSafety, PTL

\* The re-entry gate of sync_analysis never admits the thesis that just lost.
THEOREM NoReentryOnLostThesis == SignalSpec => []NoSameThesisReentry
BY SignalSafety, PTL

\* No step changes the status or reason of a plan once it is closed.
THEOREM ClosedPlansStayClosed == SignalSpec => TerminalIsFinal
<1>1. SignalInv /\ [SignalNext]_signalVars =>
        [\A i \in SignalIds : ~IsOpen(signals[i]) =>
            /\ signals'[i].status = signals[i].status
            /\ signals'[i].reason = signals[i].reason]_signalVars
  BY SignalNextStep DEF RowsProgress
<1> QED
  BY <1>1, SignalInvAlways, PTL DEF SignalSpec, TerminalIsFinal

\* No step moves a stop against the holder of the position, whichever targets a
\* price crosses and however late the entry was filled.
THEOREM StopsOnlyTighten == SignalSpec => StopNeverLoosens
<1>1. SignalInv /\ [SignalNext]_signalVars =>
        [\A i \in SignalIds :
            NoWorse(Side(signals[i]), signals'[i].stop, signals[i].stop)]_signalVars
  BY SignalNextStep DEF RowsProgress
<1> QED
  BY <1>1, SignalInvAlways, PTL DEF SignalSpec, StopNeverLoosens

-----------------------------------------------------------------------------
(* The table implements the documented lifecycle.                          *)

LEMMA StatusesLength ==
    ASSUME SignalTypeOK
    PROVE  Len([i \in SignalIds |-> signals[i].status]) = Len(signals)
BY DEF SignalTypeOK, SignalIds

LEMMA LifecycleInit == SignalInit => Lifecycle!Init
BY DEF SignalInit, Lifecycle!Init, SignalIds

LEMMA LifecycleMove ==
    ASSUME SignalTypeOK, SignalTypeOK', RowsProgress
    PROVE  Lifecycle!Move
<1> DEFINE status == [i \in SignalIds |-> signals[i].status]
<1>1. Len(status) = Len(signals) /\ Len(signals) \in Nat
  BY StatusesLength DEF SignalTypeOK
<1>2. Len(status') = Len(signals') /\ Len(signals') \in Nat
  BY DEF SignalTypeOK, SignalIds
<1>3. \A i \in 1..Len(signals) : status[i] = signals[i].status
  BY DEF SignalIds
<1>4. \A i \in 1..Len(signals') : status'[i] = signals'[i].status
  BY DEF SignalIds
<1>5. Len(signals') \in {Len(signals), Len(signals) + 1}
  BY DEF RowsProgress
<1>6. \A i \in 1..Len(signals) : signals'[i].status \in Lifecycle!Later(signals[i].status)
  BY DEF RowsProgress, LaterStatus, SignalIds
<1>7. \A i \in Len(signals) + 1 .. Len(signals') :
         signals'[i].status \in {"PENDING_ENTRY", "ACTIVE"}
  BY DEF RowsProgress
<1> HIDE DEF status
<1>8. Len(status') \in {Len(status), Len(status) + 1}
  BY <1>1, <1>2, <1>5
<1>9. \A i \in 1..Len(status) : status'[i] \in Lifecycle!Later(status[i])
  BY <1>1, <1>2, <1>3, <1>4, <1>5, <1>6
<1>10. \A i \in Len(status) + 1 .. Len(status') : status'[i] \in {"PENDING_ENTRY", "ACTIVE"}
  BY <1>1, <1>2, <1>4, <1>7
<1> QED
  BY <1>8, <1>9, <1>10 DEF Lifecycle!Move, status

\* Every run of the table is a run of SignalPlan: transactions only take plans
\* forward through the lifecycle its docstring states.
THEOREM ImplementsLifecycle == SignalSpec => LifecycleSpec
<1>1. SignalInv /\ SignalInv' /\ [SignalNext]_signalVars =>
        [Lifecycle!Move]_([i \in SignalIds |-> signals[i].status])
  <2>1. CASE SignalNext
    BY <2>1, SignalNextStep, LifecycleMove DEF SignalInv
  <2>2. CASE UNCHANGED signalVars
    BY <2>2 DEF signalVars, SignalIds
  <2> QED
    BY <2>1, <2>2
<1> QED
  BY <1>1, LifecycleInit, SignalInvAlways, PTL DEF SignalSpec, LifecycleSpec, Lifecycle!Spec

-----------------------------------------------------------------------------
(***************************************************************************)
(* Targets and the status.  StatusMatchesHits is inductive row by row: a   *)
(* live row was entered, since a fill makes it ACTIVE and only a hit takes *)
(* it further; that is what a close or the next target finds.              *)
(***************************************************************************)
HitsMatch(row) ==
    /\ row.hits # {} \/ row.overdue \/ row.status \in {"ACTIVE", "STOPPED"} => row.entered
    /\ row.status = "PARTIAL_TP1" => 1 \in row.hits
    /\ row.status = "PARTIAL_TP2" => 2 \in row.hits
    /\ row.status = "TP3_HIT" <=> 3 \in row.hits
    /\ row.status \in {"PENDING_ENTRY", "ACTIVE", "REPLACED"} => row.hits = {}

LEMMA LiveWasEntered ==
    ASSUME NEW row, HitsMatch(row), row.status \in Lifecycle!Live
    PROVE  row.entered /\ 3 \notin row.hits
BY DEF HitsMatch, Lifecycle!Live

LEMMA AfterTargetHits ==
    ASSUME NEW x, x.row \in Signal, HitsMatch(x.row), x.row.status \in Lifecycle!Live,
           NEW n \in {1, 2}, NEW price
    PROVE  HitsMatch(AfterTarget(x, n, price).row)
<1> DEFINE row == x.row
           moved == StopAfterTarget(row, n, x.seen)
           hit == [row EXCEPT !.status = PartialStatus[n],
                              !.hits = @ \cup {n},
                              !.stop = moved]
<1>1. CASE ~TargetHit(row, n, price)
  BY <1>1 DEF AfterTarget
<1>2. CASE TargetHit(row, n, price)
  <2>1. AfterTarget(x, n, price).row = hit
    BY <1>2 DEF AfterTarget, Pass
  <2>2. /\ hit.status = PartialStatus[n]
        /\ hit.hits = row.hits \cup {n}
        /\ hit.entered = row.entered
    <3> HIDE DEF moved
    <3> QED
      BY DEF Signal
  <2>3. PartialStatus[n] = IF n = 1 THEN "PARTIAL_TP1" ELSE "PARTIAL_TP2"
    BY DEF PartialStatus
  <2>4. row.entered /\ 3 \notin row.hits
    BY LiveWasEntered
  <2> HIDE DEF hit
  <2> QED
    BY <2>1, <2>2, <2>3, <2>4 DEF HitsMatch
<1> QED
  BY <1>1, <1>2

LEMMA ClosedByHits ==
    ASSUME NEW x, x.row \in Signal, HitsMatch(x.row), IsOpen(x.row),
           NEW event \in ClosingEvents,
           \/ x.row.status \in Lifecycle!Live
           \/ event \in {"STOP_LOSS_BEFORE_ENTRY", "ENTRY_SKIPPED"}
    PROVE  HitsMatch(ClosedBy(x, event).row)
<1> DEFINE row == x.row
           hits == IF event = "TP3_HIT" THEN row.hits \cup {3} ELSE row.hits
           counted == [row EXCEPT !.hits = hits]
           status == ClosedStatus(event)
           reason == CloseReason(event)
           closed == [counted EXCEPT !.status = status, !.reason = reason]
<1>1. ClosedBy(x, event).row = closed
  BY DEF ClosedBy, Closed, Pass
<1>2. /\ closed.status = status /\ closed.hits = hits
      /\ closed.entered = row.entered /\ closed.overdue = row.overdue
  <2> HIDE DEF hits, status, reason
  <2> QED
    BY DEF Signal
<1>3. /\ status \in {"TP3_HIT", "STOPPED", "INVALIDATED"}
      /\ status = "TP3_HIT" <=> event = "TP3_HIT"
      /\ event \in {"STOP_LOSS_BEFORE_ENTRY", "ENTRY_SKIPPED"} => status = "INVALIDATED"
  BY DEF ClosedStatus
<1>4. 3 \notin row.hits
  BY DEF HitsMatch, IsOpen, OpenStatus
<1>5. row.status \in Lifecycle!Live => row.entered
  BY LiveWasEntered
<1>6. row.hits # {} \/ row.overdue => row.entered
  BY DEF HitsMatch
<1> HIDE DEF closed, status
<1> QED
  BY <1>1, <1>2, <1>3, <1>4, <1>5, <1>6 DEF HitsMatch

LEMMA ManagedHits ==
    ASSUME NEW old \in Signal, IsOpen(old), NEW x, LivePass(old, x), HitsMatch(x.row),
           NEW price \in Int, NEW spiking
    PROVE  HitsMatch(Managed(x, price, spiking).row)
<1> DEFINE first == AfterTarget(x, 1, price)
           y == AfterTarget(first, 2, price)
           event == ExitEvent(y, price, spiking)
<1>1. LivePass(old, first) /\ HitsMatch(first.row)
  BY AfterTargetLive, AfterTargetHits DEF LivePass, RowMoves
<1>2. LivePass(old, y) /\ HitsMatch(y.row)
  <2> HIDE DEF first
  <2>1. first.row \in Signal /\ first.row.status \in Lifecycle!Live
    BY <1>1 DEF LivePass, RowMoves
  <2>2. LivePass(old, AfterTarget(first, 2, price))
    BY <1>1, AfterTargetLive
  <2>3. HitsMatch(AfterTarget(first, 2, price).row)
    BY <1>1, <2>1, AfterTargetHits
  <2> QED
    BY <2>2, <2>3
<1>3. event \in ClosingEvents \cup {"none"}
  BY DEF ExitEvent, ClosingEvents
<1>4. Managed(x, price, spiking) = IF event = "none" THEN y ELSE ClosedBy(y, event)
  BY DEF Managed, AfterExit
<1>5. y.row \in Signal /\ y.row.status \in Lifecycle!Live /\ IsOpen(y.row)
  BY <1>2 DEF LivePass, RowMoves, IsOpen, OpenStatus, Lifecycle!Live
<1> HIDE DEF y, event
<1> QED
  BY <1>2, <1>3, <1>4, <1>5, ClosedByHits

\* A tick keeps the status and the targets of a row together.
LEMMA TrackedHits ==
    ASSUME NEW row \in Signal, HitsMatch(row), NEW price \in Int, NEW spiking
    PROVE  HitsMatch(Tracked(row, price, spiking).row)
<1> DEFINE start == Pass(row, row.fill, <<>>)
           entered == Pass(Entered(row, price), row.fill, <<"ENTRY_TRIGGERED">>)
<1>1. start.row = row /\ start.seen = row.fill
  BY DEF Pass
<1>2. RowMoves(row, row) /\ row.fill \in Int /\ row.status \in RowStatus
  BY RowStays, SignalFields
<1>3. CASE row.status = "PENDING_ENTRY"
  <2>1. IsOpen(row) /\ Tracked(row, price, spiking) = TrackedPending(row, price, spiking)
    BY <1>3 DEF Tracked, IsOpen, OpenStatus
  <2>2. \A event \in {"STOP_LOSS_BEFORE_ENTRY", "ENTRY_SKIPPED"} :
           HitsMatch(ClosedBy(start, event).row)
    <3>1. {"STOP_LOSS_BEFORE_ENTRY", "ENTRY_SKIPPED"} \subseteq ClosingEvents
      BY DEF ClosingEvents
    <3> HIDE DEF start
    <3> QED
      BY <1>1, <2>1, <3>1, ClosedByHits
  <2>3. entered.row = Entered(row, price) /\ entered.seen \in Int
    BY <1>2 DEF Pass
  <2>4. /\ Entered(row, price) \in Signal
        /\ Entered(row, price).plan = row.plan
        /\ Entered(row, price).stop = row.stop
        /\ Entered(row, price).status = "ACTIVE"
        /\ Entered(row, price).hits = row.hits
        /\ Entered(row, price).entered
    <3>1. Entered(row, price) \in Signal
      BY SignalRewrite, SignalFields DEF Entered, RowStatus, OpenStatus
    <3> QED
      BY <3>1 DEF Entered, Signal
  <2>5. LivePass(row, entered)
    <3>1. "ACTIVE" \in LaterStatus(row.status) /\ "ACTIVE" \in Lifecycle!Live
      BY <1>3 DEF LaterStatus, Lifecycle!Later, Lifecycle!Live
    <3>2. NoWorse(Side(row), row.stop, row.stop)
      BY <1>2 DEF RowMoves
    <3> HIDE DEF entered
    <3> QED
      BY <2>1, <2>3, <2>4, <3>1, <3>2 DEF LivePass, RowMoves
  <2>6. HitsMatch(entered.row)
    <3>1. row.hits = {}
      BY <1>3 DEF HitsMatch
    <3> HIDE DEF entered
    <3> QED
      BY <2>3, <2>4, <3>1 DEF HitsMatch
  <2>7. HitsMatch(Managed(entered, price, spiking).row)
    <3> HIDE DEF entered
    <3> QED
      BY <2>1, <2>5, <2>6, ManagedHits
  <2> QED
    BY <1>1, <2>1, <2>2, <2>7 DEF TrackedPending
<1>4. CASE row.status \in OpenStatus \ {"PENDING_ENTRY"}
  <2>1. LivePass(row, start) /\ IsOpen(row)
    BY <1>1, <1>2, <1>4 DEF LivePass, IsOpen, OpenStatus, Lifecycle!Live
  <2>2. Tracked(row, price, spiking) = Managed(start, price, spiking)
    BY <1>4 DEF Tracked, OpenStatus
  <2> HIDE DEF start
  <2> QED
    BY <1>1, <2>1, <2>2, ManagedHits
<1>5. CASE row.status \notin OpenStatus
  BY <1>1, <1>5 DEF Tracked, OpenStatus
<1> QED
  BY <1>3, <1>4, <1>5

\* The writers of one row keep them together too.
LEMMA RowStepHits ==
    ASSUME NEW i \in SignalIds, SignalInv, StatusMatchesHits, RowStep(i)
    PROVE  StatusMatchesHits'
<1> DEFINE row == signals[i]
<1>1. row \in Signal /\ HitsMatch(row) /\ signals \in Seq(Signal)
  BY DEF SignalIds, SignalInv, SignalTypeOK, StatusMatchesHits, HitsMatch
<1>2. ASSUME NEW new, signals' = [signals EXCEPT ![i] = new], HitsMatch(new)
      PROVE  StatusMatchesHits'
  <2>1. SignalIds' = SignalIds
        /\ \A j \in SignalIds : signals'[j] = IF j = i THEN new ELSE signals[j]
    BY <1>1, <1>2 DEF SignalIds
  <2>2. \A j \in SignalIds : HitsMatch(signals'[j])
    BY <1>2, <2>1 DEF StatusMatchesHits, HitsMatch
  <2> QED
    BY <2>1, <2>2 DEF StatusMatchesHits, HitsMatch
<1>4. ASSUME NEW price \in Fills, ExchangeFill(i, price)
      PROVE  StatusMatchesHits'
  <2> DEFINE status == IF row.status = "PENDING_ENTRY" THEN "ACTIVE" ELSE row.status
             filled == [row EXCEPT !.status = status, !.fill = price, !.entered = TRUE]
  <2>1. signals' = [signals EXCEPT ![i] = filled]
    BY <1>1, <1>4 DEF ExchangeFill, SignalIds
  <2>2. filled.status = status /\ filled.hits = row.hits /\ filled.entered
    <3> HIDE DEF status
    <3> QED
      BY <1>1 DEF Signal
  <2> HIDE DEF filled
  <2>3. HitsMatch(filled)
    BY <1>1, <2>1, <2>2 DEF HitsMatch
  <2> QED
    BY <1>2, <2>1, <2>3
<1>5. ASSUME NEW price \in Fills, AlignClosedEntry(i, price)
      PROVE  StatusMatchesHits'
  <2> DEFINE filled == [row EXCEPT !.fill = price, !.entered = TRUE]
  <2>1. signals' = [signals EXCEPT ![i] = filled]
    BY <1>1, <1>5 DEF AlignClosedEntry, SignalIds
  <2>2. filled.status = row.status /\ filled.hits = row.hits /\ filled.entered
    BY <1>1 DEF Signal
  <2> HIDE DEF filled
  <2>3. HitsMatch(filled)
    BY <1>1, <2>1, <2>2 DEF HitsMatch
  <2> QED
    BY <1>2, <2>1, <2>3
<1>6. ASSUME NEW reason \in CloseReasons, CloseOpen(i, reason)
      PROVE  StatusMatchesHits'
  <2> DEFINE closed == [row EXCEPT !.status = "INVALIDATED", !.reason = reason]
  <2>1. signals' = [signals EXCEPT ![i] = closed] /\ IsOpen(row)
    BY <1>1, <1>6 DEF CloseOpen, Closed, SignalIds
  <2>2. /\ closed.status = "INVALIDATED" /\ closed.hits = row.hits
        /\ closed.entered = row.entered /\ closed.overdue = row.overdue
    BY <1>1 DEF Signal
  <2> HIDE DEF closed
  <2>3. HitsMatch(closed)
    BY <1>1, <2>1, <2>2 DEF HitsMatch, IsOpen, OpenStatus
  <2> QED
    BY <1>2, <2>1, <2>3
<1>7. ASSUME BarsElapse(i)
      PROVE  StatusMatchesHits'
  <2> DEFINE late == [row EXCEPT !.overdue = TRUE]
  <2>1. signals' = [signals EXCEPT ![i] = late] /\ row.entered
    BY <1>1, <1>7 DEF BarsElapse, SignalIds
  <2>2. late.status = row.status /\ late.hits = row.hits /\ late.entered = row.entered
    BY <1>1 DEF Signal
  <2> HIDE DEF late
  <2>3. HitsMatch(late)
    BY <1>1, <2>1, <2>2 DEF HitsMatch
  <2> QED
    BY <1>2, <2>1, <2>3
<1> QED
  BY <1>4, <1>5, <1>6, <1>7 DEF RowStep

\* So does a new plan: what it replaces was waiting, and had hit nothing.
LEMMA InsertHits ==
    ASSUME SignalInv, StatusMatchesHits, NEW plan \in Plan, NEW price \in Int,
           signals' = Append(WithPendingReplaced(plan), NewSignal(plan, price))
    PROVE  StatusMatchesHits'
<1> DEFINE n == Len(signals)
           kept == WithPendingReplaced(plan)
           born == NewSignal(plan, price)
           replaced(i) == signals[i].plan.slot = plan.slot /\ signals[i].status = "PENDING_ENTRY"
<1>1. signals \in Seq(Signal) /\ n \in Nat
  BY DEF SignalInv, SignalTypeOK
<1>2. ASSUME NEW i \in SignalIds
      PROVE  HitsMatch(kept[i])
  <2>1. signals[i] \in Signal /\ HitsMatch(signals[i])
    BY <1>1 DEF SignalIds, StatusMatchesHits, HitsMatch
  <2> DEFINE gone == [signals[i] EXCEPT !.status = "REPLACED",
                                        !.reason = "REPLACED_BY_NEW_SIGNAL"]
  <2>2. kept[i] = IF replaced(i) THEN gone ELSE signals[i]
    BY DEF WithPendingReplaced, Closed
  <2>3. /\ gone.status = "REPLACED" /\ gone.hits = signals[i].hits
        /\ gone.entered = signals[i].entered /\ gone.overdue = signals[i].overdue
    BY <2>1 DEF Signal
  <2> HIDE DEF kept, gone
  <2> QED
    BY <2>1, <2>2, <2>3 DEF HitsMatch
<1>3. HitsMatch(born)
  BY DEF NewSignal, HitsMatch
<1>4. kept = [i \in 1..n |-> kept[i]]
  BY <1>1 DEF WithPendingReplaced, SignalIds
<1> HIDE DEF kept, born
<1>5. Len(signals') = n + 1 /\ signals'[n + 1] = born
      /\ \A i \in 1..n : signals'[i] = kept[i]
  <2>1. signals' = Append(kept, born)
    BY DEF kept, born
  <2>2. kept \in Seq({kept[i] : i \in 1..n}) /\ Len(kept) = n
    BY <1>1, <1>4
  <2> QED
    BY <1>1, <2>1, <2>2
<1>6. \A i \in SignalIds' : HitsMatch(signals'[i])
  BY <1>1, <1>2, <1>3, <1>5 DEF SignalIds
<1> QED
  BY <1>6 DEF StatusMatchesHits, HitsMatch

LEMMA HitsStep ==
    ASSUME SignalInv, StatusMatchesHits, SignalNext
    PROVE  StatusMatchesHits'
<1>1. ASSUME NEW price \in Prices, NEW spiking, TrackPrice(price, spiking)
      PROVE  StatusMatchesHits'
  <2>1. price \in Int /\ signals \in Seq(Signal) /\ Len(signals) \in Nat
    BY SignalAssumption DEF SignalAssumption, SignalInv, SignalTypeOK
  <2>2. \A i \in SignalIds : HitsMatch(Tracked(signals[i], price, spiking).row)
    BY <2>1, TrackedHits DEF SignalIds, StatusMatchesHits, HitsMatch
  <2>3. signals' = [i \in 1..Len(signals) |-> Tracked(signals[i], price, spiking).row]
    BY <1>1 DEF TrackPrice, SignalIds
  <2>4. SignalIds' = SignalIds /\ \A i \in SignalIds : HitsMatch(signals'[i])
    BY <2>1, <2>2, <2>3 DEF SignalIds
  <2> QED
    BY <2>4 DEF StatusMatchesHits, HitsMatch
<1>2. ASSUME NEW slot \in Slots, NEW scenarios \in Analyses, NEW price \in Prices,
             SyncAnalysis(slot, scenarios, price)
      PROVE  StatusMatchesHits'
  <2>1. price \in Int /\ scenarios \in Seq(Scenario)
    BY SignalAssumption DEF SignalAssumption
  <2>2. CASE UNCHANGED signals
    BY <2>2 DEF StatusMatchesHits, SignalIds
  <2>3. ASSUME NEW plan \in SnapshotsFrom(slot, scenarios, price), Insert(plan, price),
               ~UNCHANGED signals
        PROVE  StatusMatchesHits'
    <3>1. plan \in Plan
      BY <2>1, SnapshotIsPlan DEF SnapshotsFrom
    <3>2. signals' = Append(WithPendingReplaced(plan), NewSignal(plan, price))
      BY <2>3 DEF Insert
    <3> QED
      BY <2>1, <3>1, <3>2, InsertHits
  <2> QED
    BY <1>2, <2>2, <2>3 DEF SyncAnalysis
<1> QED
  BY <1>1, <1>2, RowStepHits DEF SignalNext

\* Whatever prices, fills and analyses come: no target, stop or time stop belongs
\* to a plan that was never entered, a status names a target that was hit, and
\* the third target is hit exactly when the plan closed on it.
THEOREM HitsFollowEntry == SignalSpec => []StatusMatchesHits
<1>1. SignalInit => StatusMatchesHits
  BY DEF SignalInit, StatusMatchesHits, SignalIds
<1>2. SignalInv /\ StatusMatchesHits /\ [SignalNext]_signalVars => StatusMatchesHits'
  <2>1. ASSUME StatusMatchesHits, UNCHANGED signalVars PROVE StatusMatchesHits'
    BY <2>1 DEF signalVars, StatusMatchesHits, SignalIds
  <2> QED
    BY <2>1, HitsStep
<1> QED
  BY <1>1, <1>2, SignalInvAlways, PTL DEF SignalSpec

-----------------------------------------------------------------------------
(***************************************************************************)
(* Break-even.  What could spoil it is an entry triggered late by the very *)
(* price that crosses the first target: the stop would move to the planned *)
(* entry, which is worse than the fill.  The stretch that is tracked rules *)
(* it out, given that a plan's first target is half a risk away and that a *)
(* waiting plan has its planned entry for a fill.                          *)
(***************************************************************************)
RoomToTarget(plan) ==
    LET side == SideOf(plan.bias) IN
    /\ ~StopCrossed(side, plan.entry, plan.stop)
    /\ 1 \in DOMAIN plan.targets =>
          /\ NoWorse(side, plan.targets[1], plan.entry)
          /\ 2 * Abs(plan.targets[1] - plan.entry) >= Abs(plan.entry - plan.stop)

PlanKept(row) ==
    /\ RoomToTarget(row.plan)
    /\ row.status = "PENDING_ENTRY" => row.fill = row.plan.entry

PlansKept == \A i \in SignalIds : PlanKept(signals[i])

\* Once a pass has hit the first target, the stop is the fill or better.
AtBreakeven(old, row) ==
    1 \notin old.hits /\ 1 \in row.hits => NoWorse(Side(old), row.stop, row.fill)

LEMMA LateEntryMissesTarget ==
    ASSUME NEW plan \in Plan, RoomToTarget(plan), 1 \in DOMAIN plan.targets,
           NEW price \in Int, EntryCrossed(SideOf(plan.bias), price, plan.entry),
           ~Overextended(SideOf(plan.bias), plan.entry, price, plan.stop,
                         MaxTrackedStretchPercent)
    PROVE  ~TargetCrossed(SideOf(plan.bias), price, plan.targets[1])
<1> DEFINE e == plan.entry
           s == plan.stop
           t == plan.targets[1]
<1>1. e \in Int /\ s \in Int /\ t \in Int
  BY DEF Plan
<1>2. SideOf(plan.bias) \in Sides
  BY DEF SideOf, Sides
<1>3. ~(e = s) => 100 * Stretch(SideOf(plan.bias), e, price) <= 35 * Abs(e - s)
  BY <1>1, <1>2 DEF Overextended, MaxTrackedStretchPercent, Stretch, Abs, NoWorse, Sides,
     EntryCrossed
<1>4. 2 * Abs(t - e) >= Abs(e - s) /\ NoWorse(SideOf(plan.bias), t, e)
      /\ ~StopCrossed(SideOf(plan.bias), e, s) /\ NoWorse(SideOf(plan.bias), price, e)
  BY DEF RoomToTarget, EntryCrossed
<1> HIDE DEF e, s, t
<1>5. CASE SideOf(plan.bias) = "LONG"
  <2>1. e > s /\ t >= e /\ price >= e /\ 2 * (t - e) >= e - s
    BY <1>1, <1>4, <1>5 DEF NoWorse, StopCrossed, Abs
  <2>2. 100 * (price - e) <= 35 * (e - s)
    BY <1>1, <1>3, <1>5, <2>1 DEF NoWorse, Stretch, Abs
  <2>3. ~(price >= t)
    BY <1>1, <2>1, <2>2
  <2> QED
    BY <1>5, <2>3 DEF TargetCrossed, NoWorse, t
<1>6. CASE SideOf(plan.bias) = "SHORT"
  <2>1. e < s /\ t <= e /\ price <= e /\ 2 * (e - t) >= s - e
    BY <1>1, <1>4, <1>6 DEF NoWorse, StopCrossed, Abs
  <2>2. 100 * (e - price) <= 35 * (s - e)
    BY <1>1, <1>3, <1>6, <2>1 DEF NoWorse, Stretch, Abs
  <2>3. ~(price <= t)
    BY <1>1, <2>1, <2>2
  <2> QED
    BY <1>6, <2>3 DEF TargetCrossed, NoWorse, t
<1> QED
  BY <1>2, <1>5, <1>6 DEF Sides

\* A target moves the stop and nothing of the fill.
LEMMA AfterTargetFields ==
    ASSUME NEW x, x.row \in Signal, NEW n \in {1, 2}, NEW price, TargetHit(x.row, n, price)
    PROVE  /\ AfterTarget(x, n, price).row.hits = x.row.hits \cup {n}
           /\ AfterTarget(x, n, price).row.fill = x.row.fill
           /\ AfterTarget(x, n, price).row.stop = StopAfterTarget(x.row, n, x.seen)
<1> DEFINE row == x.row
           moved == StopAfterTarget(row, n, x.seen)
           hit == [row EXCEPT !.status = PartialStatus[n],
                              !.hits = @ \cup {n},
                              !.stop = moved]
<1>1. AfterTarget(x, n, price).row = hit
  BY DEF AfterTarget, Pass
<1>2. hit.hits = row.hits \cup {n} /\ hit.fill = row.fill /\ hit.stop = moved
  <2> HIDE DEF moved
  <2> QED
    BY DEF Signal
<1> QED
  BY <1>1, <1>2

LEMMA FirstTargetBreaksEven ==
    ASSUME NEW old \in Signal, NEW x, LivePass(old, x), x.row.hits = old.hits, NEW price \in Int,
           TargetHit(x.row, 1, price) => x.seen = x.row.fill
    PROVE  AtBreakeven(old, AfterTarget(x, 1, price).row)
<1> DEFINE row == x.row
<1>1. row \in Signal /\ Side(row) = Side(old) /\ row.stop \in Int /\ row.fill \in Int
      /\ Side(old) \in Sides
  BY SignalFields DEF LivePass, RowMoves, Side
<1>2. CASE ~TargetHit(row, 1, price)
  BY <1>2 DEF AfterTarget, AtBreakeven
<1>3. CASE TargetHit(row, 1, price)
  <2>1. /\ AfterTarget(x, 1, price).row.fill = row.fill
        /\ AfterTarget(x, 1, price).row.stop = StopAfterTarget(row, 1, x.seen)
    BY <1>1, <1>3, AfterTargetFields
  <2>2. StopAfterTarget(row, 1, x.seen) = Tighter(Side(old), row.stop, row.fill)
    BY <1>1, <1>3 DEF StopAfterTarget, ManagedStopAfterTarget, TargetLabel
  <2>3. NoWorse(Side(old), Tighter(Side(old), row.stop, row.fill), row.fill)
    BY <1>1, NoWorseOrder
  <2> QED
    BY <2>1, <2>2, <2>3 DEF AtBreakeven
<1> QED
  BY <1>2, <1>3

LEMMA SecondTargetBreaksEven ==
    ASSUME NEW old \in Signal, IsOpen(old), NEW x, LivePass(old, x), AtBreakeven(old, x.row),
           NEW price \in Int
    PROVE  AtBreakeven(old, AfterTarget(x, 2, price).row)
<1> DEFINE row == x.row
           next == AfterTarget(x, 2, price).row
<1>1. row \in Signal /\ Side(row) = Side(old) /\ row.stop \in Int /\ row.fill \in Int
      /\ Side(old) \in Sides /\ x.seen \in Int
  BY SignalFields DEF LivePass, RowMoves, Side
<1>2. CASE ~TargetHit(row, 2, price)
  BY <1>2 DEF AfterTarget
<1>3. CASE TargetHit(row, 2, price)
  <2>1. /\ next.hits = row.hits \cup {2} /\ next.fill = row.fill
        /\ next.stop = StopAfterTarget(row, 2, x.seen)
    BY <1>1, <1>3, AfterTargetFields
  <2>2. row.plan.targets[1] \in Int
    <3>1. row.plan.targets \in Seq(Int) /\ 2 \in DOMAIN row.plan.targets
      BY <1>1, <1>3, SignalFields DEF TargetHit
    <3> QED
      BY <3>1
  <2>3. StopAfterTarget(row, 2, x.seen) = Tighter(Side(old), row.stop, row.plan.targets[1])
    BY <1>1 DEF StopAfterTarget, ManagedStopAfterTarget, TargetLabel
  <2> HIDE DEF next
  <2>4. next.stop \in Int /\ NoWorse(Side(old), next.stop, row.stop)
    BY <1>1, <2>1, <2>2, <2>3, NoWorseOrder
  <2>5. NoWorse(Side(old), row.stop, row.fill) => NoWorse(Side(old), next.stop, row.fill)
    BY <1>1, <2>4, NoWorseOrder
  <2> QED
    BY <2>1, <2>5 DEF AtBreakeven, next
<1> QED
  BY <1>2, <1>3

LEMMA ManagedBreaksEven ==
    ASSUME NEW old \in Signal, IsOpen(old), NEW x, LivePass(old, x), x.row.hits = old.hits,
           NEW price \in Int, NEW spiking,
           TargetHit(x.row, 1, price) => x.seen = x.row.fill
    PROVE  AtBreakeven(old, Managed(x, price, spiking).row)
<1> DEFINE first == AfterTarget(x, 1, price)
           y == AfterTarget(first, 2, price)
           event == ExitEvent(y, price, spiking)
           hits == IF event = "TP3_HIT" THEN y.row.hits \cup {3} ELSE y.row.hits
           counted == [y.row EXCEPT !.hits = hits]
           closed == [counted EXCEPT !.status = ClosedStatus(event),
                                     !.reason = CloseReason(event)]
<1>1. LivePass(old, first) /\ AtBreakeven(old, first.row)
  BY AfterTargetLive, FirstTargetBreaksEven
<1>2. LivePass(old, y) /\ AtBreakeven(old, y.row)
  <2> HIDE DEF first
  <2> QED
    BY <1>1, AfterTargetLive, SecondTargetBreaksEven
<1>3. Managed(x, price, spiking) = IF event = "none" THEN y ELSE ClosedBy(y, event)
  BY DEF Managed, AfterExit
<1>4. ClosedBy(y, event).row = closed
  BY DEF ClosedBy, Closed, Pass
<1>5. y.row \in Signal
  BY <1>2 DEF LivePass, RowMoves
<1> HIDE DEF y, event
<1>6. closed.hits = hits /\ closed.stop = y.row.stop /\ closed.fill = y.row.fill
  <2> DEFINE status == ClosedStatus(event)
             reason == CloseReason(event)
  <2> HIDE DEF hits, status, reason
  <2>1. /\ counted.hits = hits /\ counted.stop = y.row.stop /\ counted.fill = y.row.fill
        /\ DOMAIN counted = DOMAIN y.row
    BY <1>5 DEF Signal
  <2>2. /\ [counted EXCEPT !.status = status, !.reason = reason].hits = counted.hits
        /\ [counted EXCEPT !.status = status, !.reason = reason].stop = counted.stop
        /\ [counted EXCEPT !.status = status, !.reason = reason].fill = counted.fill
    BY <1>5 DEF Signal
  <2> QED
    BY <2>1, <2>2 DEF status, reason
<1> HIDE DEF closed
<1>7. AtBreakeven(old, closed)
  BY <1>2, <1>6 DEF AtBreakeven
<1> QED
  BY <1>2, <1>3, <1>4, <1>7

LEMMA TrackedBreaksEven ==
    ASSUME NEW row \in Signal, PlanKept(row), NEW price \in Int, NEW spiking
    PROVE  AtBreakeven(row, Tracked(row, price, spiking).row)
<1> DEFINE start == Pass(row, row.fill, <<>>)
           entered == Pass(Entered(row, price), row.fill, <<"ENTRY_TRIGGERED">>)
<1>1. start.row = row /\ start.seen = row.fill
  BY DEF Pass
<1>2. RowMoves(row, row) /\ row.fill \in Int /\ row.status \in RowStatus /\ row.plan \in Plan
  BY RowStays, SignalFields
<1>3. CASE row.status = "PENDING_ENTRY"
  <2>1. IsOpen(row) /\ Tracked(row, price, spiking) = TrackedPending(row, price, spiking)
    BY <1>3 DEF Tracked, IsOpen, OpenStatus
  <2>2. \A event \in {"STOP_LOSS_BEFORE_ENTRY", "ENTRY_SKIPPED"} :
           AtBreakeven(row, ClosedBy(start, event).row)
    <3> SUFFICES ASSUME NEW event \in {"STOP_LOSS_BEFORE_ENTRY", "ENTRY_SKIPPED"}
                 PROVE  ClosedBy(start, event).row.hits = row.hits
      BY DEF AtBreakeven
    <3> DEFINE status == ClosedStatus(event)
               reason == CloseReason(event)
               same == [row EXCEPT !.hits = row.hits]
    <3>1. ClosedBy(start, event).row = [same EXCEPT !.status = status, !.reason = reason]
      BY <1>1 DEF ClosedBy, Closed, Pass
    <3> HIDE DEF status, reason
    <3>2. same = row
      BY DEF Signal
    <3>3. [row EXCEPT !.status = status, !.reason = reason].hits = row.hits
      BY DEF Signal
    <3> QED
      BY <3>1, <3>2, <3>3
  <2>3. CASE /\ EntryCrossed(Side(row), price, row.plan.entry)
             /\ ~Overextended(Side(row), row.plan.entry, price, row.plan.stop,
                              MaxTrackedStretchPercent)
    <3>1. /\ Entered(row, price) \in Signal
          /\ Entered(row, price).plan = row.plan
          /\ Entered(row, price).stop = row.stop
          /\ Entered(row, price).status = "ACTIVE"
          /\ Entered(row, price).hits = row.hits
      <4>1. Entered(row, price) \in Signal
        BY SignalRewrite, SignalFields DEF Entered, RowStatus, OpenStatus
      <4> QED
        BY <4>1 DEF Entered, Signal
    <3>2. entered.row = Entered(row, price) /\ entered.seen \in Int
      BY <1>2 DEF Pass
    <3>3. "ACTIVE" \in LaterStatus(row.status) /\ "ACTIVE" \in Lifecycle!Live
      BY <1>3 DEF LaterStatus, Lifecycle!Later, Lifecycle!Live
    <3>4. NoWorse(Side(row), row.stop, row.stop)
      BY <1>2 DEF RowMoves
    <3>5. ~TargetHit(entered.row, 1, price)
      <4>1. 1 \in DOMAIN row.plan.targets => ~TargetCrossed(Side(row), price, row.plan.targets[1])
        BY <1>2, <2>3, LateEntryMissesTarget DEF PlanKept, Side
      <4> HIDE DEF entered
      <4> QED
        BY <3>1, <3>2, <4>1 DEF TargetHit, Side
    <3> HIDE DEF entered
    <3>6. LivePass(row, entered)
      BY <2>1, <3>1, <3>2, <3>3, <3>4 DEF LivePass, RowMoves
    <3>7. AtBreakeven(row, Managed(entered, price, spiking).row)
      BY <2>1, <3>1, <3>2, <3>5, <3>6, ManagedBreaksEven
    <3>8. AtBreakeven(row, row)
      BY DEF AtBreakeven
    <3> QED
      BY <1>1, <2>1, <2>2, <3>7, <3>8 DEF TrackedPending, entered
  <2>4. AtBreakeven(row, row)
    BY DEF AtBreakeven
  <2> QED
    BY <1>1, <2>1, <2>2, <2>3, <2>4 DEF TrackedPending
<1>4. CASE row.status \in OpenStatus \ {"PENDING_ENTRY"}
  <2>1. LivePass(row, start) /\ IsOpen(row)
    BY <1>1, <1>2, <1>4 DEF LivePass, IsOpen, OpenStatus, Lifecycle!Live
  <2>2. Tracked(row, price, spiking) = Managed(start, price, spiking)
    BY <1>4 DEF Tracked, OpenStatus
  <2> HIDE DEF start
  <2> QED
    BY <1>1, <2>1, <2>2, ManagedBreaksEven
<1>5. CASE row.status \notin OpenStatus
  BY <1>1, <1>5 DEF Tracked, OpenStatus, AtBreakeven
<1> QED
  BY <1>3, <1>4, <1>5

\* A row that still waits after a tick is the row as it was.
LEMMA TrackedWaits ==
    ASSUME NEW row \in Signal, NEW price \in Int, NEW spiking,
           Tracked(row, price, spiking).row.status = "PENDING_ENTRY"
    PROVE  Tracked(row, price, spiking).row = row
<1> DEFINE start == Pass(row, row.fill, <<>>)
           entered == Pass(Entered(row, price), row.fill, <<"ENTRY_TRIGGERED">>)
<1>1. start.row = row /\ row.status \in RowStatus
  BY SignalFields DEF Pass
<1>2. CASE row.status = "PENDING_ENTRY"
  <2>1. Tracked(row, price, spiking) = TrackedPending(row, price, spiking)
    BY <1>2 DEF Tracked
  <2>2. /\ ClosedBy(start, "STOP_LOSS_BEFORE_ENTRY").row.status # "PENDING_ENTRY"
        /\ ClosedBy(start, "ENTRY_SKIPPED").row.status # "PENDING_ENTRY"
    <3> SUFFICES ASSUME NEW event \in {"STOP_LOSS_BEFORE_ENTRY", "ENTRY_SKIPPED"}
                 PROVE  ClosedBy(start, event).row.status = "INVALIDATED"
      OBVIOUS
    <3> DEFINE reason == CloseReason(event)
               same == [row EXCEPT !.hits = row.hits]
    <3>1. ClosedBy(start, event).row = [same EXCEPT !.status = "INVALIDATED", !.reason = reason]
      BY <1>1 DEF ClosedBy, Closed, Pass, ClosedStatus
    <3> HIDE DEF reason
    <3>2. same = row
      BY DEF Signal
    <3>3. [row EXCEPT !.status = "INVALIDATED", !.reason = reason].status = "INVALIDATED"
      BY DEF Signal
    <3> QED
      BY <3>1, <3>2, <3>3
  <2>3. Managed(entered, price, spiking).row.status # "PENDING_ENTRY"
    <3>1. entered.row = Entered(row, price) /\ entered.seen \in Int
      BY SignalFields DEF Pass
    <3>2. Entered(row, price) \in Signal /\ Entered(row, price).status = "ACTIVE"
      <4>1. Entered(row, price) \in Signal
        BY SignalRewrite, SignalFields DEF Entered, RowStatus, OpenStatus
      <4> QED
        BY <4>1 DEF Entered, Signal
    <3>3. "ACTIVE" \in Lifecycle!Live /\ "ACTIVE" \in OpenStatus
          /\ "PENDING_ENTRY" \notin LaterStatus("ACTIVE")
      BY DEF Lifecycle!Live, OpenStatus, LaterStatus, Lifecycle!Later, Lifecycle!Resolved
    <3> HIDE DEF entered
    <3>4. LivePass(Entered(row, price), entered) /\ IsOpen(Entered(row, price))
      BY <3>1, <3>2, <3>3, RowStays DEF LivePass, IsOpen
    <3>5. RowMoves(Entered(row, price), Managed(entered, price, spiking).row)
      BY <3>2, <3>4, ManagedMoves
    <3> QED
      BY <3>2, <3>3, <3>5 DEF RowMoves
  <2> QED
    BY <1>1, <2>1, <2>2, <2>3 DEF TrackedPending
<1>3. CASE row.status \in OpenStatus \ {"PENDING_ENTRY"}
  <2>1. RowMoves(row, Tracked(row, price, spiking).row)
    BY TrackedMoves
  <2> QED
    BY <1>3, <2>1 DEF RowMoves, OpenStatus, LaterStatus, Lifecycle!Later, Lifecycle!Live,
       Lifecycle!Resolved
<1>4. CASE row.status \notin OpenStatus
  BY <1>1, <1>4 DEF Tracked, OpenStatus
<1> QED
  BY <1>2, <1>3, <1>4

\* What build_signal_snapshot hands on has the room, whichever scenario it takes.
LEMMA SnapshotHasRoom ==
    ASSUME NEW slot \in Slots, NEW scenarios \in Analyses, NEW price \in Int,
           NEW plan \in SnapshotsFrom(slot, scenarios, price)
    PROVE  RoomToTarget(plan)
<1>1. PICK m \in DOMAIN scenarios :
         plan = SnapshotOf(slot, scenarios[m]) /\ StopIsBehindEntry(scenarios[m])
  BY DEF SnapshotsFrom
<1> DEFINE s == scenarios[m]
           side == SideOf(s.bias)
           risk == Abs(s.confirmation - s.stop_loss)
           near == s.targets # <<>> /\ 2 * Abs(s.targets[1] - s.confirmation) < risk
           few == IF Len(s.targets) < 3 THEN Len(s.targets) ELSE 3
<1>2. s \in Scenario
  BY SignalAssumption DEF SignalAssumption
<1>3. s.confirmation \in Int /\ s.stop_loss \in Int /\ s.targets \in Seq(Int) /\ side \in Sides
  BY <1>2 DEF Scenario, SideOf, Sides
<1>4. \A n \in DOMAIN s.targets : NoWorse(side, s.targets[n], s.confirmation)
  BY SignalAssumption DEF SignalAssumption, TargetCrossed
<1>5. /\ plan.bias = s.bias /\ plan.entry = s.confirmation /\ plan.stop = s.stop_loss
      /\ plan.targets = SnapshotTargets(s)
  BY <1>1 DEF SnapshotOf
<1>6. ~StopCrossed(side, s.confirmation, s.stop_loss)
  BY <1>1 DEF StopIsBehindEntry
<1>7. SnapshotTargets(s) = IF near THEN FallbackTargets(side, s.confirmation, risk)
                           ELSE SubSeq(s.targets, 1, few)
  BY DEF SnapshotTargets
<1> HIDE DEF s, side
<1>8. CASE near
  <2>1. plan.targets[1] = s.confirmation + (IF side = "LONG" THEN 1 ELSE -1) * risk
    BY <1>5, <1>7, <1>8 DEF FallbackTargets
  <2>2. risk \in Nat /\ risk = Abs(s.confirmation - s.stop_loss)
    BY <1>3 DEF Abs
  <2> HIDE DEF risk, near
  <2>3. plan.targets[1] = IF side = "LONG" THEN s.confirmation + risk ELSE s.confirmation - risk
    BY <1>3, <2>1, <2>2
  <2>4. /\ NoWorse(side, plan.targets[1], s.confirmation)
        /\ 2 * Abs(plan.targets[1] - s.confirmation) >= risk
    BY <1>3, <2>2, <2>3 DEF NoWorse, Abs
  <2> QED
    BY <1>5, <1>6, <2>2, <2>4 DEF RoomToTarget, side
<1>9. CASE ~near
  <2> SUFFICES ASSUME 1 \in DOMAIN plan.targets
               PROVE  /\ NoWorse(side, plan.targets[1], s.confirmation)
                      /\ 2 * Abs(plan.targets[1] - s.confirmation) >= risk
    BY <1>5, <1>6 DEF RoomToTarget, side
  <2>1. plan.targets = SubSeq(s.targets, 1, few)
    BY <1>5, <1>7, <1>9
  <2>2. 1 \in DOMAIN s.targets /\ plan.targets[1] = s.targets[1] /\ s.targets # <<>>
    BY <1>3, <2>1
  <2>3. s.targets[1] \in Int /\ risk \in Int
    BY <1>3, <2>2 DEF Abs
  <2> QED
    BY <1>3, <1>4, <1>9, <2>2, <2>3 DEF Abs
<1> QED
  BY <1>8, <1>9

\* What a step does to a row, as far as break-even is concerned.
RowBreaksEven(old, new) == AtBreakeven(old, new) /\ PlanKept(new)

LEMMA UntouchedBreaksEven ==
    ASSUME NEW old, NEW new, PlanKept(old), new.plan = old.plan, new.hits = old.hits,
           new.status = "PENDING_ENTRY" => old.status = "PENDING_ENTRY" /\ new.fill = old.fill
    PROVE  RowBreaksEven(old, new)
BY DEF PlanKept, AtBreakeven, RowBreaksEven

LEMMA RowStepBreaksEven ==
    ASSUME SignalInv, PlansKept, NEW i \in SignalIds, RowStep(i)
    PROVE  /\ SignalIds' = SignalIds
           /\ \A j \in SignalIds : RowBreaksEven(signals[j], signals'[j])
<1> DEFINE row == signals[i]
<1>1. row \in Signal /\ PlanKept(row) /\ signals \in Seq(Signal)
  BY DEF SignalIds, SignalInv, SignalTypeOK, PlansKept
<1>2. ASSUME NEW new, signals' = [signals EXCEPT ![i] = new],
             new.plan = row.plan, new.hits = row.hits,
             new.status = "PENDING_ENTRY" => row.status = "PENDING_ENTRY" /\ new.fill = row.fill
      PROVE  /\ SignalIds' = SignalIds
             /\ \A j \in SignalIds : RowBreaksEven(signals[j], signals'[j])
  <2>1. SignalIds' = SignalIds
        /\ \A j \in SignalIds : signals'[j] = IF j = i THEN new ELSE signals[j]
    BY <1>1, <1>2 DEF SignalIds
  <2>2. RowBreaksEven(row, new)
    BY <1>1, <1>2, UntouchedBreaksEven
  <2>3. \A j \in SignalIds : RowBreaksEven(signals[j], signals[j])
    BY UntouchedBreaksEven DEF PlansKept
  <2> QED
    BY <2>1, <2>2, <2>3
<1>3. ASSUME NEW price \in Fills, ExchangeFill(i, price)
      PROVE  \E new : /\ signals' = [signals EXCEPT ![i] = new]
                      /\ new.plan = row.plan /\ new.hits = row.hits
                      /\ new.status # "PENDING_ENTRY"
  <2> DEFINE status == IF row.status = "PENDING_ENTRY" THEN "ACTIVE" ELSE row.status
             filled == [row EXCEPT !.status = status, !.fill = price, !.entered = TRUE]
  <2>1. signals' = [signals EXCEPT ![i] = filled]
    BY <1>1, <1>3 DEF ExchangeFill, SignalIds
  <2>2. filled.plan = row.plan /\ filled.hits = row.hits /\ filled.status = status
    <3> HIDE DEF status
    <3> QED
      BY <1>1 DEF Signal
  <2>3. status # "PENDING_ENTRY"
    OBVIOUS
  <2> HIDE DEF filled, status
  <2> QED
    BY <2>1, <2>2, <2>3
<1>4. ASSUME NEW price \in Fills, AlignClosedEntry(i, price)
      PROVE  \E new : /\ signals' = [signals EXCEPT ![i] = new]
                      /\ new.plan = row.plan /\ new.hits = row.hits
                      /\ new.status # "PENDING_ENTRY"
  <2> DEFINE filled == [row EXCEPT !.fill = price, !.entered = TRUE]
  <2>1. signals' = [signals EXCEPT ![i] = filled] /\ ~IsOpen(row)
    BY <1>1, <1>4 DEF AlignClosedEntry, SignalIds
  <2>2. filled.plan = row.plan /\ filled.hits = row.hits /\ filled.status = row.status
    BY <1>1 DEF Signal
  <2> HIDE DEF filled
  <2> QED
    BY <2>1, <2>2 DEF IsOpen, OpenStatus
<1>5. ASSUME NEW reason \in CloseReasons, CloseOpen(i, reason)
      PROVE  \E new : /\ signals' = [signals EXCEPT ![i] = new]
                      /\ new.plan = row.plan /\ new.hits = row.hits
                      /\ new.status # "PENDING_ENTRY"
  <2> DEFINE closed == [row EXCEPT !.status = "INVALIDATED", !.reason = reason]
  <2>1. signals' = [signals EXCEPT ![i] = closed]
    BY <1>1, <1>5 DEF CloseOpen, Closed, SignalIds
  <2>2. closed.plan = row.plan /\ closed.hits = row.hits /\ closed.status = "INVALIDATED"
    BY <1>1 DEF Signal
  <2> HIDE DEF closed
  <2> QED
    BY <2>1, <2>2
<1>6. ASSUME BarsElapse(i)
      PROVE  \E new : /\ signals' = [signals EXCEPT ![i] = new]
                      /\ new.plan = row.plan /\ new.hits = row.hits
                      /\ new.status = row.status /\ new.fill = row.fill
  <2> DEFINE late == [row EXCEPT !.overdue = TRUE]
  <2>1. signals' = [signals EXCEPT ![i] = late]
    BY <1>1, <1>6 DEF BarsElapse, SignalIds
  <2>2. /\ late.plan = row.plan /\ late.hits = row.hits
        /\ late.status = row.status /\ late.fill = row.fill
    BY <1>1 DEF Signal
  <2> HIDE DEF late
  <2> QED
    BY <2>1, <2>2
<1> QED
  BY <1>2, <1>3, <1>4, <1>5, <1>6 DEF RowStep

LEMMA InsertBreaksEven ==
    ASSUME SignalInv, PlansKept, NEW plan \in Plan, RoomToTarget(plan), NEW price \in Int,
           signals' = Append(WithPendingReplaced(plan), NewSignal(plan, price))
    PROVE  /\ PlansKept'
           /\ \A i \in SignalIds : AtBreakeven(signals[i], signals'[i])
<1> DEFINE n == Len(signals)
           kept == WithPendingReplaced(plan)
           born == NewSignal(plan, price)
           replaced(i) == signals[i].plan.slot = plan.slot /\ signals[i].status = "PENDING_ENTRY"
<1>1. signals \in Seq(Signal) /\ n \in Nat
  BY DEF SignalInv, SignalTypeOK
<1>2. ASSUME NEW i \in SignalIds
      PROVE  RowBreaksEven(signals[i], kept[i])
  <2>1. signals[i] \in Signal /\ PlanKept(signals[i])
    BY <1>1 DEF SignalIds, PlansKept
  <2> DEFINE gone == [signals[i] EXCEPT !.status = "REPLACED",
                                        !.reason = "REPLACED_BY_NEW_SIGNAL"]
  <2>2. kept[i] = IF replaced(i) THEN gone ELSE signals[i]
    BY DEF WithPendingReplaced, Closed
  <2>3. /\ gone.status = "REPLACED" /\ gone.hits = signals[i].hits
        /\ gone.plan = signals[i].plan
    BY <2>1 DEF Signal
  <2> HIDE DEF kept, gone
  <2> QED
    BY <2>1, <2>2, <2>3, UntouchedBreaksEven
<1>3. PlanKept(born)
  BY DEF NewSignal, PlanKept
<1>4. kept = [i \in 1..n |-> kept[i]]
  BY <1>1 DEF WithPendingReplaced, SignalIds
<1> HIDE DEF kept, born
<1>5. Len(signals') = n + 1 /\ signals'[n + 1] = born
      /\ \A i \in 1..n : signals'[i] = kept[i]
  <2>1. signals' = Append(kept, born)
    BY DEF kept, born
  <2>2. kept \in Seq({kept[i] : i \in 1..n}) /\ Len(kept) = n
    BY <1>1, <1>4
  <2> QED
    BY <1>1, <2>1, <2>2
<1>6. \A i \in SignalIds' : PlanKept(signals'[i])
  BY <1>1, <1>2, <1>3, <1>5 DEF SignalIds, RowBreaksEven
<1>7. \A i \in SignalIds : AtBreakeven(signals[i], signals'[i])
  BY <1>1, <1>2, <1>5 DEF SignalIds, RowBreaksEven
<1> QED
  BY <1>6, <1>7 DEF PlansKept

LEMMA BreakevenStep ==
    ASSUME SignalInv, PlansKept, SignalNext
    PROVE  /\ PlansKept'
           /\ \A i \in SignalIds : AtBreakeven(signals[i], signals'[i])
<1> DEFINE Goal == /\ PlansKept'
                   /\ \A i \in SignalIds : AtBreakeven(signals[i], signals'[i])
<1>1. ASSUME SignalIds' = SignalIds,
             \A j \in SignalIds : RowBreaksEven(signals[j], signals'[j])
      PROVE  Goal
  BY <1>1 DEF PlansKept, RowBreaksEven
<1>2. ASSUME NEW price \in Prices, NEW spiking, TrackPrice(price, spiking)
      PROVE  Goal
  <2>1. price \in Int /\ signals \in Seq(Signal) /\ Len(signals) \in Nat
    BY SignalAssumption DEF SignalAssumption, SignalInv, SignalTypeOK
  <2>2. ASSUME NEW i \in SignalIds
        PROVE  RowBreaksEven(signals[i], Tracked(signals[i], price, spiking).row)
    <3> DEFINE row == signals[i]
               new == Tracked(row, price, spiking).row
    <3>1. row \in Signal /\ PlanKept(row)
      BY <2>1 DEF SignalIds, PlansKept
    <3>2. AtBreakeven(row, new)
      BY <2>1, <3>1, TrackedBreaksEven
    <3>3. new.plan = row.plan
      BY <2>1, <3>1, TrackedMoves DEF RowMoves
    <3>4. new.status = "PENDING_ENTRY" => new = row
      BY <2>1, <3>1, TrackedWaits
    <3> HIDE DEF new
    <3>5. PlanKept(new)
      BY <3>1, <3>3, <3>4 DEF PlanKept
    <3> QED
      BY <3>2, <3>5 DEF RowBreaksEven, new
  <2>3. signals' = [i \in 1..Len(signals) |-> Tracked(signals[i], price, spiking).row]
    BY <1>2 DEF TrackPrice, SignalIds
  <2>4. SignalIds' = SignalIds /\ \A i \in SignalIds : RowBreaksEven(signals[i], signals'[i])
    BY <2>1, <2>2, <2>3 DEF SignalIds
  <2> HIDE DEF Goal
  <2> QED
    BY <1>1, <2>4
<1>3. ASSUME NEW slot \in Slots, NEW scenarios \in Analyses, NEW price \in Prices,
             SyncAnalysis(slot, scenarios, price)
      PROVE  Goal
  <2>1. price \in Int /\ scenarios \in Seq(Scenario)
    BY SignalAssumption DEF SignalAssumption
  <2>2. CASE UNCHANGED signals
    <3>1. \A j \in SignalIds : RowBreaksEven(signals[j], signals'[j])
      BY <2>2, UntouchedBreaksEven DEF PlansKept
    <3> HIDE DEF Goal
    <3> QED
      BY <1>1, <2>2, <3>1 DEF SignalIds
  <2>3. ASSUME NEW plan \in SnapshotsFrom(slot, scenarios, price), Insert(plan, price),
               ~UNCHANGED signals
        PROVE  Goal
    <3>1. plan \in Plan /\ RoomToTarget(plan)
      BY <2>1, SnapshotIsPlan, SnapshotHasRoom DEF SnapshotsFrom
    <3>2. signals' = Append(WithPendingReplaced(plan), NewSignal(plan, price))
      BY <2>3 DEF Insert
    <3> QED
      BY <2>1, <3>1, <3>2, InsertBreaksEven
  <2> QED
    BY <1>3, <2>2, <2>3 DEF SyncAnalysis
<1>4. ASSUME NEW i \in SignalIds, RowStep(i)
      PROVE  Goal
  BY <1>1, <1>4, RowStepBreaksEven
<1> QED
  BY <1>2, <1>3, <1>4 DEF SignalNext

\* For every analysis, price and fill, and for every distance of the targets: the
\* step that records the first target leaves the stop at the fill or better.
THEOREM FirstTargetProtects == SignalSpec => BreakevenAtTP1
<1>1. SignalInit => PlansKept
  BY DEF SignalInit, PlansKept, SignalIds
<1>2. SignalInv /\ PlansKept /\ [SignalNext]_signalVars => PlansKept'
  <2>1. ASSUME PlansKept, UNCHANGED signalVars PROVE PlansKept'
    BY <2>1 DEF signalVars, PlansKept, SignalIds
  <2> QED
    BY <2>1, BreakevenStep
<1>3. SignalInv /\ PlansKept /\ [SignalNext]_signalVars
        => [\A i \in SignalIds :
               1 \notin signals[i].hits /\ 1 \in signals'[i].hits =>
                   NoWorse(Side(signals[i]), signals'[i].stop, signals'[i].fill)]_signalVars
  BY BreakevenStep DEF AtBreakeven
<1> QED
  BY <1>1, <1>2, <1>3, SignalInvAlways, PTL DEF SignalSpec, BreakevenAtTP1
=============================================================================
