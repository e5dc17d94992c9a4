----------------------------- MODULE WorkQueue -----------------------------
(***************************************************************************)
(* What the execution queue promises those who enqueue (the docstring of   *)
(* ExecutionQueueStore.enqueue, docs/PORTFOLIO_EXECUTION.md): one task for *)
(* each key, taken by one worker at a time, tried again until it is done   *)
(* or its attempts are used up, and started anew only after that.          *)
(*                                                                         *)
(* There are no rows, batches or snapshots here, no backoff and no circuit *)
(* breaker: none of them may be seen in what becomes of a task.            *)
(***************************************************************************)
EXTENDS Integers

CONSTANTS Keys, MaxAttempts

VARIABLES
    work,       \* work[k]: how far the task of key k has got
    hand        \* the key the worker has in hand, if any

workVars == <<work, hand>>

NoWork == [state |-> "none", tries |-> 0]

Init == work = [k \in Keys |-> NoWork] /\ hand = {}

Becomes(k, state, tries) == work' = [work EXCEPT ![k] = [state |-> state, tries |-> tries]]

\* A task that is waiting, taken or done is not queued a second time.
Submit(k) ==
    /\ hand = {}
    /\ work[k].state \in {"none", "failed"}
    /\ Becomes(k, "waiting", 0)
    /\ UNCHANGED hand

Take(k) ==
    /\ hand = {}
    /\ work[k].state = "waiting"
    /\ Becomes(k, "taken", work[k].tries)
    /\ hand' = {k}

Finish(k) ==
    /\ k \in hand
    /\ work[k].state = "taken"
    /\ Becomes(k, "done", work[k].tries)
    /\ UNCHANGED hand

\* Neither putting a task back nor giving it up is an attempt.
PutBack(k) ==
    /\ k \in hand
    /\ work[k].state = "taken"
    /\ \E state \in {"waiting", "failed"} : Becomes(k, state, work[k].tries)
    /\ hand' = {}

\* A failure is an attempt, and the last one ends the task.  It can come after the
\* task was done: what follows the work may fail, and then it is done again.
Fail(k) ==
    /\ k \in hand
    /\ work[k].state \in {"taken", "done"}
    /\ IF work[k].tries + 1 < MaxAttempts
       THEN Becomes(k, "waiting", work[k].tries + 1)
       ELSE Becomes(k, "failed", work[k].tries)
    /\ hand' = {}

\* The worker leaves a task that is done; a dead one leaves any.
Leave ==
    /\ hand' = {}
    /\ UNCHANGED work

Next ==
    \/ \E k \in Keys : Submit(k) \/ Take(k) \/ Finish(k) \/ PutBack(k) \/ Fail(k)
    \/ Leave

Spec == Init /\ [][Next]_workVars
=============================================================================
