--------------------------- MODULE ExecutionQueue ---------------------------
(***************************************************************************)
(* The SQLite execution queue (storage/execution_queue_store.py) and the   *)
(* worker that drains it once per orchestrator cycle                       *)
(* (services/trading_orchestrator.py, _process_execution_queue), with the  *)
(* circuit breaker persisted beside it in system_events.                   *)
(*                                                                         *)
(* Enqueuers and worker are one Python thread: the worker runs at the head *)
(* of a cycle, the enqueuers in the rest of it.  The table outlives the    *)
(* process; the fetched batch does not.  Time is abstract: next_run_at is  *)
(* the flag "due", circuit_until the flag circuitOpen, and time passing is *)
(* the pair of actions BackoffElapses and CooldownElapses.                 *)
(***************************************************************************)
EXTENDS Integers, Sequences, FiniteSets

CONSTANTS
    Keys,               \* dedupe keys, "open:<id>" and "close:<id>:<event>"
    BatchLimit,         \* EXECUTION_QUEUE_MAX_TASKS_PER_CYCLE
    MaxAttempts,        \* the literal 10 of the worker's exception handler
    BreakerEnabled,     \* EXECUTION_CIRCUIT_BREAKER_ENABLED
    BreakerFailures,    \* EXECUTION_CIRCUIT_BREAKER_FAILURES
    MaxRestarts         \* bound: how many times the process may die

ASSUME QueueAssumption ==
    /\ IsFiniteSet(Keys)
    /\ BatchLimit \in Nat \ {0}
    /\ MaxAttempts \in Nat \ {0}
    /\ BreakerEnabled \in BOOLEAN
    /\ BreakerFailures \in Nat \ {0}
    /\ MaxRestarts \in Nat

VARIABLES
    queue,          \* table execution_queue; the id of a row is its index
    batch,          \* attempts column of each fetched row not yet started
    task,           \* the row the worker is on, and how far it has got
    phase,          \* "cycle": rest of the cycle; "draining": in the worker
    failures,       \* system_events execution:circuit_failures
    circuitOpen,    \* system_events execution:circuit_until is in the future
    restarts        \* how many times the process has died

queueVars == <<queue, batch, task, phase, failures, circuitOpen, restarts>>

-----------------------------------------------------------------------------
Status == {"PENDING", "RETRY", "RUNNING", "DONE", "FAILED"}

Row == [key : Keys, status : Status, attempts : 0..MaxAttempts, due : BOOLEAN]

Ids == 1..Len(queue)

\* The worker between two tasks.
NoTask == [id |-> 0, attempts |-> 0, stage |-> "none"]

\* "handling": RUNNING, the handler is executing; "recording": mark_done has
\* committed, the health markers are being written.
Task == [id : Nat, attempts : Nat, stage : {"none", "handling", "recording"}]

\* Nothing fetched.
NoBatch == [i \in {} |-> 0]

RowsOf(k) == {i \in Ids : queue[i].key = k}

NewRow(k) == [key |-> k, status |-> "PENDING", attempts |-> 0, due |-> TRUE]

\* Mutant of Ready: next_run_at is not compared.
ReadyIgnoringBackoff == {i \in Ids : queue[i].status \in {"PENDING", "RETRY"}}

Ready == {i \in Ids : queue[i].status \in {"PENDING", "RETRY"} /\ queue[i].due}

\* Mutant of FirstReady: one row short of the limit.
FirstReadyOneShort == {i \in Ready : Cardinality({j \in Ready : j <= i}) < BatchLimit}

\* ORDER BY id ASC LIMIT ?
FirstReady == {i \in Ready : Cardinality({j \in Ready : j < i}) < BatchLimit}

-----------------------------------------------------------------------------
QueueInit ==
    /\ queue = <<>>
    /\ batch = NoBatch
    /\ task = NoTask
    /\ phase = "cycle"
    /\ failures = 0
    /\ circuitOpen = FALSE
    /\ restarts = 0

\* ExecutionQueueStore.enqueue: a new key is inserted, a FAILED row is reset,
\* any other row answers None and stays as it is.
EnqueueRow(k) ==
    IF RowsOf(k) = {}
    THEN queue' = Append(queue, NewRow(k))
    ELSE queue' = [i \in Ids |-> IF i \in RowsOf(k) /\ queue[i].status = "FAILED"
                                 THEN NewRow(k) ELSE queue[i]]

Enqueue(k) ==
    /\ phase = "cycle"
    /\ EnqueueRow(k)
    /\ UNCHANGED <<batch, task, phase, failures, circuitOpen, restarts>>

\* Head of a cycle: nothing is fetched while the circuit is open.
FetchReady ==
    /\ phase = "cycle"
    /\ ~circuitOpen
    /\ phase' = "draining"
    /\ batch' = [i \in FirstReady |-> queue[i].attempts]
    /\ UNCHANGED <<queue, task, failures, circuitOpen, restarts>>

\* Mutant of MarkRunning: the handler starts, the row stays as fetched.
MarkRunningUnwritten ==
    /\ phase = "draining"
    /\ task = NoTask
    /\ \E i \in DOMAIN batch :
        /\ \A j \in DOMAIN batch : i <= j
        /\ task' = [id |-> i, attempts |-> batch[i], stage |-> "handling"]
        /\ batch' = [j \in DOMAIN batch \ {i} |-> batch[j]]
    /\ UNCHANGED <<queue, phase, failures, circuitOpen, restarts>>

MarkRunning ==
    /\ phase = "draining"
    /\ task = NoTask
    /\ \E i \in DOMAIN batch :
        /\ \A j \in DOMAIN batch : i <= j
        /\ task' = [id |-> i, attempts |-> batch[i], stage |-> "handling"]
        /\ queue' = [queue EXCEPT ![i].status = "RUNNING"]
        /\ batch' = [j \in DOMAIN batch \ {i} |-> batch[j]]
    /\ UNCHANGED <<phase, failures, circuitOpen, restarts>>

\* The handler returned ok: mark_done, then the health markers.
HandlerSucceeds ==
    /\ task.stage = "handling"
    /\ queue' = [queue EXCEPT ![task.id].status = "DONE"]
    /\ task' = [task EXCEPT !.stage = "recording"]
    /\ UNCHANGED <<batch, phase, failures, circuitOpen, restarts>>

HealthRecorded ==
    /\ task.stage = "recording"
    /\ failures' = 0
    /\ task' = NoTask
    /\ UNCHANGED <<queue, batch, phase, circuitOpen, restarts>>

\* awaiting_entry_fill: mark_defer leaves attempts and the breaker alone.
HandlerDefers ==
    /\ task.stage = "handling"
    /\ queue' = [queue EXCEPT ![task.id].status = "RETRY", ![task.id].due = FALSE]
    /\ task' = NoTask
    /\ UNCHANGED <<batch, phase, failures, circuitOpen, restarts>>

\* Mutant of HandlerDiscards: "continue" without mark_failed.
HandlerDiscardsSilently ==
    /\ task.stage = "handling"
    /\ task' = NoTask
    /\ UNCHANGED <<queue, batch, phase, failures, circuitOpen, restarts>>

\* missing_signal and unknown_task: failed without an attempt or a breaker count.
HandlerDiscards ==
    /\ task.stage = "handling"
    /\ queue' = [queue EXCEPT ![task.id].status = "FAILED"]
    /\ task' = NoTask
    /\ UNCHANGED <<batch, phase, failures, circuitOpen, restarts>>

\* Mutants of RowAfterFailure: no cap, and a cap checked one attempt late.
RowAfterFailureUncapped(row, seen) ==
    [row EXCEPT !.status = "RETRY", !.attempts = @ + 1, !.due = FALSE]

RowAfterFailureLate(row, seen) ==
    IF seen >= MaxAttempts
    THEN [row EXCEPT !.status = "FAILED"]
    ELSE [row EXCEPT !.status = "RETRY", !.attempts = @ + 1, !.due = FALSE]

\* What the exception handler writes to the row: the attempts it compares are
\* those of the fetched snapshot, the attempts it increments are the table's.
RowAfterFailure(row, seen) ==
    IF seen + 1 >= MaxAttempts
    THEN [row EXCEPT !.status = "FAILED"]
    ELSE [row EXCEPT !.status = "RETRY", !.attempts = @ + 1, !.due = FALSE]

\* Only "n >= BreakerFailures" is ever asked of the count, so it saturates there.
BumpedFailures == IF failures < BreakerFailures THEN failures + 1 ELSE failures

\* Mutant of TripOrGoOn: no early return, the batch goes on.
TripWithoutReturn ==
    IF BreakerEnabled
    THEN /\ failures' = BumpedFailures
         /\ IF BumpedFailures >= BreakerFailures
            THEN circuitOpen' = TRUE
            ELSE UNCHANGED circuitOpen
         /\ UNCHANGED batch
    ELSE UNCHANGED <<failures, circuitOpen, batch>>

\* The breaker trips: the worker returns and the rest of the batch is dropped.
TripOrGoOn ==
    IF BreakerEnabled
    THEN /\ failures' = BumpedFailures
         /\ IF BumpedFailures >= BreakerFailures
            THEN circuitOpen' = TRUE /\ batch' = NoBatch
            ELSE UNCHANGED <<circuitOpen, batch>>
    ELSE UNCHANGED <<failures, circuitOpen, batch>>

\* An exception in the try block: from the handler, or from writing the health
\* markers after mark_done ("database is locked").
HandlerFails ==
    /\ task.stage \in {"handling", "recording"}
    /\ queue' = [queue EXCEPT ![task.id] = RowAfterFailure(@, task.attempts)]
    /\ task' = NoTask
    /\ TripOrGoOn
    /\ UNCHANGED <<phase, restarts>>

WorkerReturns ==
    /\ phase = "draining"
    /\ task = NoTask
    /\ batch = NoBatch
    /\ phase' = "cycle"
    /\ UNCHANGED <<queue, batch, task, failures, circuitOpen, restarts>>

BackoffElapses(i) ==
    /\ queue[i].status = "RETRY"
    /\ ~queue[i].due
    /\ queue' = [queue EXCEPT ![i].due = TRUE]
    /\ UNCHANGED <<batch, task, phase, failures, circuitOpen, restarts>>

CooldownElapses ==
    /\ circuitOpen
    /\ circuitOpen' = FALSE
    /\ UNCHANGED <<queue, batch, task, phase, failures, restarts>>

\* The exception handler's own writes are transactions apart, and nothing catches
\* what they raise: the row is written, the failure perhaps counted, the circuit
\* not opened, and the worker is left.
FailureHalfRecorded ==
    /\ restarts < MaxRestarts
    /\ task.stage \in {"handling", "recording"}
    /\ queue' = [queue EXCEPT ![task.id] = RowAfterFailure(@, task.attempts)]
    /\ failures' \in IF BreakerEnabled THEN {failures, BumpedFailures} ELSE {failures}
    /\ restarts' = restarts + 1
    /\ batch' = NoBatch
    /\ task' = NoTask
    /\ phase' = "cycle"
    /\ UNCHANGED circuitOpen

\* The process dies, or an exception leaves the worker: the tables stay.
Restart ==
    /\ restarts < MaxRestarts
    /\ restarts' = restarts + 1
    /\ batch' = NoBatch
    /\ task' = NoTask
    /\ phase' = "cycle"
    /\ UNCHANGED <<queue, failures, circuitOpen>>

HandlerEnds ==
    \/ HandlerSucceeds
    \/ HealthRecorded
    \/ HandlerDefers
    \/ HandlerDiscards
    \/ HandlerFails

WorkerStep ==
    \/ FetchReady
    \/ MarkRunning
    \/ HandlerEnds
    \/ WorkerReturns

QueueNext ==
    \/ \E k \in Keys : Enqueue(k)
    \/ WorkerStep
    \/ \E i \in Ids : BackoffElapses(i)
    \/ CooldownElapses
    \/ FailureHalfRecorded
    \/ Restart

QueueSpec == QueueInit /\ [][QueueNext]_queueVars

\* The orchestrator loop keeps cycling and wall-clock time keeps passing.
QueueFairness ==
    /\ WF_queueVars(FetchReady)
    /\ WF_queueVars(MarkRunning)
    /\ WF_queueVars(HandlerEnds)
    /\ WF_queueVars(WorkerReturns)
    /\ WF_queueVars(CooldownElapses)

FairQueueSpec == QueueSpec /\ QueueFairness

-----------------------------------------------------------------------------
(* Properties.                                                             *)

QueueTypeOK ==
    /\ queue \in Seq(Row)
    /\ DOMAIN batch \subseteq Ids
    /\ batch \in [DOMAIN batch -> 0..MaxAttempts]
    /\ task \in Task
    /\ task.id \in 0..Len(queue)
    /\ phase \in {"cycle", "draining"}
    /\ failures \in 0..BreakerFailures
    /\ circuitOpen \in BOOLEAN
    /\ restarts \in 0..MaxRestarts

\* One row per dedupe key, whatever failed and was enqueued again: the unique
\* index of the table can never fire (ExecutionQueueStore.enqueue).
OneRowPerKey ==
    \A i, j \in Ids : queue[i].key = queue[j].key => i = j

\* A fetched row that has not been started is still the row that was fetched:
\* ready, with the attempts the exception handler will compare to the cap
\* (attempts is read from the snapshot t, not from the table).
SnapshotFresh ==
    \A i \in DOMAIN batch :
        /\ queue[i].status \in {"PENDING", "RETRY"}
        /\ queue[i].due
        /\ batch[i] = queue[i].attempts

\* The row a handler works on is the one marked RUNNING, with the attempts the
\* handler believes, and no row is fetched twice in one batch.
TaskOwnsItsRow ==
    task.stage # "none" =>
        /\ task.id \in Ids \ DOMAIN batch
        /\ queue[task.id].attempts = task.attempts
        /\ queue[task.id].status =
               IF task.stage = "handling" THEN "RUNNING" ELSE "DONE"

\* A row that still waits for its turn has an attempt left: exhausting the
\* budget always ends in FAILED, never in a tenth RETRY.
RetryHasBudget ==
    \A i \in Ids : queue[i].attempts < MaxAttempts

\* No handler starts while the circuit is open: tripping also drops the rows
\* that were already fetched.
NoStartWhileOpen ==
    [][task.stage = "none" /\ task'.stage = "handling" => ~circuitOpen]_queueVars

\* Every task handed to the queue is tried, unless the circuit keeps opening:
\* one task that fails at each cooldown's end may then be first for ever, for
\* the count of failures is not reset when the circuit closes again.  The batch
\* limit starves as well: the runs take BatchLimit >= Cardinality(Keys).
EveryTaskTried ==
    \/ []<>circuitOpen
    \/ \A k \in Keys :
          (\E i \in Ids : queue[i].key = k /\ queue[i].status = "PENDING")
              ~> (\E i \in Ids : queue[i].key = k /\ queue[i].status # "PENDING")

\* The docstring of enqueue treats RUNNING as "already queued": a row in that
\* state must therefore leave it again.
RunningEnds ==
    \A k \in Keys :
        (\E i \in Ids : queue[i].key = k /\ queue[i].status = "RUNNING")
            ~> (\E i \in Ids : queue[i].key = k /\ queue[i].status # "RUNNING")

\* A handler that is not killed leaves RUNNING: whatever it answers, whatever it
\* raises and wherever the breaker trips, the worker writes another status.
RunningEndsUnlessKilled == [](restarts = 0) => RunningEnds

-----------------------------------------------------------------------------
\* What those who enqueue know of a row
StateOf(status) ==
    CASE status \in {"PENDING", "RETRY"} -> "waiting"
      [] status = "RUNNING" -> "taken"
      [] status = "DONE" -> "done"
      [] status = "FAILED" -> "failed"

WorkOf(row) == [state |-> StateOf(row.status), tries |-> row.attempts]

WorkOfKeys ==
    [k \in Keys |-> IF RowsOf(k) = {} THEN [state |-> "none", tries |-> 0]
                    ELSE WorkOf(queue[CHOOSE i \in RowsOf(k) : TRUE])]

KeyInHand == IF task.stage = "none" THEN {} ELSE {queue[task.id].key}

Promised == INSTANCE WorkQueue WITH work <- WorkOfKeys, hand <- KeyInHand

\* The table, the batch fetched from it and the breaker together keep the promise of a
\* work queue: although the worker acts on a snapshot and compares its attempts and
\* not the table's, each task has all of its attempts and not one more.
WorkQueueSpec == Promised!Spec
=============================================================================
