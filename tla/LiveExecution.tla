---------------------------- MODULE LiveExecution ----------------------------
(***************************************************************************)
(* One symbol traded live at its signal prices: the orchestrator's cycle   *)
(* (services/trading_orchestrator.py), the handlers of its queued tasks    *)
(* (execution/position_manager.py), the reconciler, and the exchange,      *)
(* which fills orders and moves its price at any moment in between.        *)
(*                                                                         *)
(* One-way mode, queue on, entry_style "signal_price".  The queue is the   *)
(* one of ExecutionQueue seen from its callers (a row per task, an attempt *)
(* cap); the lifecycle of a signal is the one of SignalLifecycle, its      *)
(* terminal statuses merged and its targets reduced to the last.           *)
(***************************************************************************)
EXTENDS TradeManagement, FiniteSets, FiniteSetsExt

CONSTANTS
    Signals,        \* ids, in the order of insertion
    PlanOf,         \* the plan of each signal
    Prices,         \* mark prices, in ticks
    MaxAttempts,    \* the literal 10 of _process_execution_queue
    Faulty,         \* the stages whose calls may fail, see Stages
    MaxFaults,      \* bound: calls to the exchange or the database that fail
    MaxCrashes      \* bound: deaths of the process

\* The handlers' stages and the cycle's.
Stages ==
    {"query", "place", "record", "fill", "protect", "cancelExits", "closeMarket",
     "cancelPending", "cancelAll", "closeAll", "closeRow"}
    \cup {"startup", "queue", "refresh", "tick", "events", "reconcile", "ensure", "signals"}

TradePlan == [side : Sides, entry : Int, stop : Int, target : Int, size : Nat \ {0}]

ASSUME LiveAssumption ==
    /\ Signals \subseteq Nat \ {0}
    /\ IsFiniteSet(Signals)
    /\ DOMAIN PlanOf = Signals
    /\ \A s \in Signals : PlanOf[s] \in TradePlan
    /\ Prices \subseteq Int
    /\ MaxAttempts \in Nat \ {0}
    /\ Faulty \subseteq Stages
    /\ MaxFaults \in Nat
    /\ MaxCrashes \in Nat

VARIABLES
    signal,     \* table signals: the status of each
    task,       \* table execution_queue: the status of each task
    tries,      \* its attempts
    pending,    \* pending[s]: execution:pending_entry:<s> names the entry order
    row,        \* the OPEN row of exchange_positions
    events,     \* closing events the tick returned, not yet enqueued
    handled,    \* tasks the worker has taken in this cycle
    pc,         \* where the orchestrator is, and with which signal
    order,      \* exchange: the entry order of each signal
    position,   \* exchange: the net position, negative for a short
    entryPrice, \* exchange: its average entry price
    stops,      \* exchange: the sides that a reduce-only stop on the book protects
    price,      \* exchange: the mark price
    faults, crashes

queueVars == <<task, tries>>
dbVars == <<signal, queueVars, pending, row>>
exchangeVars == <<order, position, entryPrice, stops, price>>
loopVars == <<events, handled, pc>>
boundVars == <<faults, crashes>>
liveVars == <<dbVars, exchangeVars, loopVars, boundVars>>

-----------------------------------------------------------------------------
SignalStatus == {"none", "PENDING_ENTRY", "ACTIVE", "CLOSED"}

\* PENDING and RETRY are "waiting": both are fetched once due.
TaskStatus == {"none", "waiting", "running", "done", "failed"}

Tasks == {"open", "close"} \X Signals

\* OPEN_SIGNAL_STATUSES
IsOpen(s) == signal[s] \in {"PENDING_ENTRY", "ACTIVE"}

\* source 0: source_signal_id IS NULL
NoRow == [source |-> 0, side |-> "none", size |-> 0, price |-> 0]

Resting(s) == order[s].is \in {"STOP", "LIMIT"}

PositionSide == IF position > 0 THEN "LONG" ELSE IF position < 0 THEN "SHORT" ELSE "none"

Size == Abs(position)

Signed(side, size) == IF side = "LONG" THEN size ELSE -size

At(stage) == pc.at = stage

GoTo(stage) == pc' = [at |-> stage, of |-> 0]

Proceed(stage, s) == pc' = [at |-> stage, of |-> s]

Fault == pc.at \in Faulty /\ faults < MaxFaults /\ faults' = faults + 1

NoFault == UNCHANGED faults

-----------------------------------------------------------------------------
(* The queue, as its callers see it.                                       *)

Enqueued(tasks) ==
    /\ task' = [t \in Tasks |-> IF t \in tasks /\ task[t] \in {"none", "failed"}
                                THEN "waiting" ELSE task[t]]
    /\ tries' = [t \in Tasks |-> IF t \in tasks /\ task[t] = "failed" THEN 0 ELSE tries[t]]

Running(t, stage) ==
    /\ task' = [task EXCEPT ![t] = "running"]
    /\ Proceed(stage, t[2])
    /\ UNCHANGED tries

\* mark_done
Done(t) ==
    /\ task' = [task EXCEPT ![t] = "done"]
    /\ GoTo("queue")
    /\ UNCHANGED tries

\* mark_defer, for awaiting_entry_fill
Deferred(t) ==
    /\ task' = [task EXCEPT ![t] = "waiting"]
    /\ GoTo("queue")
    /\ UNCHANGED tries

\* Mutant of Failed: the attempts are counted and never compared.
FailedUncapped(t) ==
    /\ task' = [task EXCEPT ![t] = "waiting"]
    /\ tries' = [tries EXCEPT ![t] = @ + 1]
    /\ GoTo("queue")

\* The handler answered ok = False or raised.
Failed(t) ==
    /\ GoTo("queue")
    /\ IF tries[t] + 1 >= MaxAttempts
       THEN task' = [task EXCEPT ![t] = "failed"] /\ UNCHANGED tries
       ELSE /\ task' = [task EXCEPT ![t] = "waiting"]
            /\ tries' = [tries EXCEPT ![t] = @ + 1]

-----------------------------------------------------------------------------
(* OPEN_FROM_SIGNAL: open_from_signal.  Each action ends at a call to the  *)
(* exchange or at a commit.                                                *)

EntryDecision(s) ==
    LiveEntryDecision("signal_price", PlanOf[s].side, PlanOf[s].entry, PlanOf[s].stop,
                      PlanOf[s].stop, price)

\* Up to the first write: an open row or a limit of the portfolio skips the
\* task, a position without a row fails it, a price that is past the entry or
\* the stop closes the signal and ends it.
StartOpen(s) ==
    LET t == <<"open", s>> IN
    /\ \/ /\ Done(t)                    \* already open, or the portfolio is full
          /\ UNCHANGED signal
          /\ NoFault
       \/ /\ Failed(t)                  \* no equity, no margin call, no mark price
          /\ UNCHANGED signal
          /\ Fault
       \/ /\ row = NoRow
          /\ position # 0
          /\ Failed(t)
          /\ UNCHANGED signal
          /\ NoFault
       \/ /\ row = NoRow
          /\ position = 0
          /\ ~Actionable(EntryDecision(s))
          /\ signal' = [signal EXCEPT ![s] = IF IsOpen(s) THEN "CLOSED" ELSE @]
          /\ Done(t)
          /\ NoFault
       \/ /\ row = NoRow
          /\ position = 0
          /\ Actionable(EntryDecision(s))
          /\ Running(t, IF pending[s] THEN "query" ELSE "place")
          /\ UNCHANGED signal
          /\ NoFault
    /\ UNCHANGED <<pending, row, exchangeVars>>

\* query_order for the order the pending key names.
QueryEntry(s) ==
    LET t == <<"open", s>> IN
    /\ At("query")
    /\ pc.of = s
    /\ \/ Failed(t) /\ Fault /\ UNCHANGED pending
       \/ Resting(s) /\ Deferred(t) /\ NoFault /\ UNCHANGED pending
       \/ /\ ~Resting(s)
          /\ pending' = [pending EXCEPT ![s] = FALSE]
          /\ Proceed(IF order[s].is = "FILLED" THEN "fill" ELSE "place", s)
          /\ NoFault
          /\ UNCHANGED queueVars
    /\ UNCHANGED <<signal, row, events, handled, exchangeVars, crashes>>

\* _signal_price_entry_kind, at the price of this moment
Placed(s) ==
    LET kind == IF price # PlanOf[s].entry /\ EntryCrossed(PlanOf[s].side, price, PlanOf[s].entry)
                THEN "LIMIT" ELSE "STOP"
    IN order' = [order EXCEPT ![s] = [is |-> kind, at |-> 0]]

\* The order is placed under the client id of the signal.  The exchange refuses
\* a second one while the first rests; _entry_duplicate_response takes that for
\* a fill when there is a position of that side.
PlaceEntry(s) ==
    LET t == <<"open", s>> IN
    /\ At("place")
    /\ pc.of = s
    /\ \/ /\ ~Resting(s)
          /\ Placed(s)
          /\ Proceed("record", s)
          /\ NoFault
          /\ UNCHANGED queueVars
       \/ /\ ~Resting(s)                \* placed, and the answer is lost
          /\ Placed(s)
          /\ Failed(t)
          /\ Fault
       \/ /\ Failed(t)
          /\ Fault
          /\ UNCHANGED order
       \/ /\ Resting(s)
          /\ PositionSide # PlanOf[s].side
          /\ Failed(t)
          /\ NoFault
          /\ UNCHANGED order
       \/ /\ Resting(s)
          /\ PositionSide = PlanOf[s].side
          /\ Proceed("fill", s)
          /\ NoFault
          /\ UNCHANGED <<order, queueVars>>
    /\ UNCHANGED <<signal, pending, row, events, handled, position, entryPrice, stops, price,
                   crashes>>

\* Mutant of RecordEntry: the order is placed and its key is not written.
RecordEntryNowhere(s) ==
    /\ At("record")
    /\ pc.of = s
    /\ Deferred(<<"open", s>>)
    /\ NoFault
    /\ UNCHANGED <<signal, pending, row, events, handled, exchangeVars, crashes>>

RecordEntry(s) ==
    /\ At("record")
    /\ pc.of = s
    /\ \/ /\ pending' = [pending EXCEPT ![s] = TRUE]
          /\ Deferred(<<"open", s>>)
          /\ NoFault
       \/ /\ Failed(<<"open", s>>)
          /\ Fault
          /\ UNCHANGED pending
    /\ UNCHANGED <<signal, row, events, handled, exchangeVars, crashes>>

\* create_position_from_signal
FillEntry(s) ==
    /\ At("fill")
    /\ pc.of = s
    /\ row' = [source |-> s, side |-> PlanOf[s].side, size |-> PlanOf[s].size,
               price |-> IF order[s].is = "FILLED" THEN order[s].at ELSE entryPrice]
    /\ Proceed("protect", s)
    /\ UNCHANGED <<signal, queueVars, pending, events, handled, exchangeVars, boundVars>>

\* The stop, unless one is on the book.  The exchange takes a reduce-only order
\* only against a position it reduces.
ProtectEntry(s) ==
    LET side == PlanOf[s].side
        t == <<"open", s>> IN
    /\ At("protect")
    /\ pc.of = s
    /\ \/ /\ side \in stops \cup {PositionSide}
          /\ stops' = stops \cup {side}
          /\ pending' = [pending EXCEPT ![s] = FALSE]
          /\ signal' = [signal EXCEPT ![s] = IF @ = "PENDING_ENTRY" THEN "ACTIVE" ELSE @]
          /\ Done(t)
          /\ NoFault
       \/ /\ \/ side \notin stops \cup {PositionSide} /\ NoFault
             \/ Fault
          /\ Failed(t)
          /\ UNCHANGED <<stops, pending, signal>>
    /\ UNCHANGED <<row, events, handled, order, position, entryPrice, price, crashes>>

-----------------------------------------------------------------------------
(* CLOSE_FOR_SIGNAL: close_for_signal and close_symbol_cleanup.            *)

\* Mutant of CloseStage: the pending key is looked at before the row.
CloseStagePendingFirst(s) ==
    CASE pending[s] -> "cancelPending"
      [] ~pending[s] /\ row.source = s -> "cancelExits"
      [] ~pending[s] /\ row.source = 0 /\ row # NoRow -> "cancelAll"
      [] OTHER -> "done"

\* The signal's own row, else its resting entry, else a recovered row.
CloseStage(s) ==
    CASE row.source = s -> "cancelExits"
      [] row.source # s /\ pending[s] -> "cancelPending"
      [] row.source = 0 /\ ~pending[s] /\ row # NoRow -> "cancelAll"
      [] OTHER -> "done"

StartClose(s) ==
    LET t == <<"close", s>> IN
    /\ IF CloseStage(s) = "done" THEN Done(t) ELSE Running(t, CloseStage(s))
    /\ UNCHANGED <<signal, pending, row, exchangeVars, faults>>

\* cancel_order for the pending entry; an order that no longer rests is unknown
\* to the exchange, and that is an error like any other.
CancelPending(s) ==
    LET t == <<"close", s>>
        canceled == order' = [order EXCEPT ![s] = [is |-> "CANCELED", at |-> 0]] IN
    /\ At("cancelPending")
    /\ pc.of = s
    /\ \/ /\ Resting(s)
          /\ canceled
          /\ pending' = [pending EXCEPT ![s] = FALSE]
          /\ Done(t)
          /\ NoFault
       \/ /\ \/ ~Resting(s) /\ NoFault /\ UNCHANGED order
             \/ Fault /\ UNCHANGED order
             \/ Resting(s) /\ Fault /\ canceled
          /\ Failed(t)
          /\ UNCHANGED pending
    /\ UNCHANGED <<signal, row, events, handled, position, entryPrice, stops, price, crashes>>

\* The orders of the row, errors ignored.
CancelExits(s) ==
    /\ At("cancelExits")
    /\ pc.of = s
    /\ \/ stops' = stops \ {row.side} /\ NoFault
       \/ UNCHANGED stops /\ Fault
    /\ Proceed("closeMarket", s)
    /\ UNCHANGED <<dbVars, events, handled, order, position, entryPrice, price, crashes>>

\* cancel_all_orders, errors ignored.
CancelAll(s) ==
    /\ At("cancelAll")
    /\ pc.of = s
    /\ \/ /\ stops' = {}
          /\ order' = [r \in Signals |-> IF Resting(r) THEN [is |-> "CANCELED", at |-> 0]
                                         ELSE order[r]]
          /\ NoFault
       \/ UNCHANGED <<stops, order>> /\ Fault
    /\ Proceed("closeAll", s)
    /\ UNCHANGED <<dbVars, events, handled, position, entryPrice, price, crashes>>

\* The exchange drops the reduce-only orders of a flat symbol, or keeps them.
BookAfter(after) == IF after = 0 THEN {stops, {}} ELSE {stops}

\* Mutant of ReduceBy: the position is not re-read, the order is one unit short.
ReduceByLess(n) ==
    /\ position' = position - Signed(PositionSide, n - 1)
    /\ stops' \in BookAfter(position')

\* place_market_reduce_only
ReduceBy(n) ==
    /\ position' = position - Signed(PositionSide, n)
    /\ stops' \in BookAfter(position')

\* The row's side is closed by the smaller of the row's and the exchange's size;
\* against a position of the other side the order is refused.
CloseMarket(s) ==
    LET closes == \/ position = 0 /\ UNCHANGED <<position, stops>>
                  \/ /\ PositionSide = row.side
                     /\ ReduceBy(IF row.size < Size THEN row.size ELSE Size)
    IN
    /\ At("closeMarket")
    /\ pc.of = s
    /\ \/ closes /\ Proceed("closeRow", s) /\ NoFault /\ UNCHANGED queueVars
       \/ closes /\ Failed(<<"close", s>>) /\ Fault
       \/ /\ \/ PositionSide # row.side /\ position # 0 /\ NoFault
             \/ Fault
          /\ Failed(<<"close", s>>)
          /\ UNCHANGED <<position, stops>>
    /\ UNCHANGED <<signal, pending, row, events, handled, order, entryPrice, price, crashes>>

CloseAll(s) ==
    LET closes == IF position = 0 THEN UNCHANGED <<position, stops>> ELSE ReduceBy(Size) IN
    /\ At("closeAll")
    /\ pc.of = s
    /\ \/ closes /\ Proceed("closeRow", s) /\ NoFault /\ UNCHANGED queueVars
       \/ closes /\ Failed(<<"close", s>>) /\ Fault
       \/ Failed(<<"close", s>>) /\ Fault /\ UNCHANGED <<position, stops>>
    /\ UNCHANGED <<signal, pending, row, events, handled, order, entryPrice, price, crashes>>

CloseRow(s) ==
    /\ At("closeRow")
    /\ pc.of = s
    /\ \/ row' = NoRow /\ Done(<<"close", s>>) /\ NoFault
       \/ UNCHANGED row /\ Failed(<<"close", s>>) /\ Fault
    /\ UNCHANGED <<signal, pending, events, handled, exchangeVars, crashes>>

-----------------------------------------------------------------------------
(* The cycle: worker, refresh, tick, reconcilers.                          *)

\* A batch is in the order of the rows' ids: a CLOSE is younger than its OPEN.
StartTask(t) ==
    /\ At("queue")
    /\ task[t] = "waiting"
    /\ t \notin handled
    /\ <<"close", t[2]>> \notin handled
    /\ handled' = handled \cup {t}
    /\ IF t[1] = "open" THEN StartOpen(t[2]) ELSE StartClose(t[2])
    /\ UNCHANGED <<events, crashes>>

\* The rest of the queue is in backoff, or beyond the batch.
QueueEnds ==
    /\ At("queue")
    /\ handled' = {}
    /\ GoTo("refresh") \/ GoTo("tick")
    /\ UNCHANGED <<dbVars, events, exchangeVars, boundVars>>

\* sync_runtime inserts plans whose entry is still ahead, and every open signal
\* is handed to the queue again; at startup the signals are reconciled next.
Refresh ==
    /\ pc.at \in {"startup", "refresh"}
    /\ \E new \in SUBSET {s \in Signals : signal[s] = "none" /\ Actionable(EntryDecision(s))} :
        /\ \A s \in new : \A r \in Signals : r < s => signal[r] # "none" \/ r \in new
        /\ signal' = [s \in Signals |-> IF s \in new THEN "PENDING_ENTRY" ELSE signal[s]]
        /\ \/ Enqueued({<<"open", s>> : s \in {r \in Signals : IsOpen(r)} \cup new}) /\ NoFault
           \/ UNCHANGED queueVars /\ Fault
    /\ IF At("startup") THEN GoTo("signals") ELSE GoTo("tick")
    /\ UNCHANGED <<pending, row, events, handled, exchangeVars, crashes>>

PastStop(s) == StopCrossed(PlanOf[s].side, price, PlanOf[s].stop)

PastTarget(s) == TargetCrossed(PlanOf[s].side, price, PlanOf[s].target)

\* track_price_update.  A pending signal waits for its fill or its stop; an
\* active one may be closed for its bars, its structure or its volatility too.
Tick ==
    LET closing == {s \in Signals : IsOpen(s) /\ PastStop(s)}
                     \cup {s \in Signals : signal[s] = "ACTIVE" /\ PastTarget(s)}
        active == {s \in Signals : signal[s] = "ACTIVE"} IN
    /\ At("tick")
    /\ \E others \in SUBSET active :
          events' = closing \cup others
    /\ signal' = [s \in Signals |-> IF s \in events' THEN "CLOSED" ELSE signal[s]]
    /\ GoTo("events")
    /\ UNCHANGED <<queueVars, pending, row, handled, exchangeVars, boundVars>>

\* One closing event becomes a task, or is lost with the error that stops it.
EnqueueClose ==
    /\ At("events")
    /\ \E s \in events :
        /\ \A r \in events : s <= r
        /\ events' = events \ {s}
        /\ \/ Enqueued({<<"close", s>>}) /\ NoFault
           \/ UNCHANGED queueVars /\ Fault
    /\ UNCHANGED <<signal, pending, row, handled, pc, exchangeVars, crashes>>

EventsEnd ==
    /\ At("events")
    /\ events = {}
    /\ GoTo("reconcile")
    /\ UNCHANGED <<dbVars, events, handled, exchangeVars, boundVars>>

\* Mutant of ReconciledRow: rows are closed, never recovered.
ReconciledRowCloseOnly == IF position = 0 THEN NoRow ELSE row

ReconciledRow ==
    CASE position = 0 -> NoRow
      [] position # 0 /\ row = NoRow ->
            [source |-> 0, side |-> PositionSide, size |-> Size, price |-> entryPrice]
      [] OTHER -> row

\* reconcile_symbol up to ensure_protection; a stop whose quantity is not the
\* position's is cancelled, to be placed anew.
Reconcile ==
    /\ At("reconcile")
    /\ \/ /\ row' = ReconciledRow
          /\ stops' \in {stops, stops \ {row.side}}
          /\ position = 0 => UNCHANGED stops
          /\ GoTo(IF row' = NoRow THEN "signals" ELSE "ensure")
          /\ NoFault
       \/ UNCHANGED <<row, stops>> /\ GoTo("signals") /\ Fault
    /\ UNCHANGED <<signal, queueVars, pending, events, handled, order, position, entryPrice,
                   price, crashes>>

\* _backfill_open_targets_from_active_signals: the oldest open signal of its side
Linked ==
    LET candidates == {s \in Signals : IsOpen(s) /\ PlanOf[s].side = row.side} IN
    IF row.source = 0 /\ candidates # {}
    THEN [row EXCEPT !.source = Min(candidates)] ELSE row

\* ensure_protection
Ensure ==
    /\ At("ensure")
    /\ row' = Linked
    /\ \/ stops' = stops \cup ({row.side} \cap {PositionSide}) /\ NoFault
       \/ UNCHANGED stops /\ Fault
    /\ GoTo("signals")
    /\ UNCHANGED <<signal, queueVars, pending, events, handled, order, position, entryPrice,
                   price, crashes>>

\* _reconcile_live_signal_state: a linked row with another price is the fill; an
\* active signal without a row is closed once its grace has passed.
ReconcileSignals ==
    /\ At("signals")
    /\ \E expired \in SUBSET {s \in Signals : signal[s] = "ACTIVE" /\ row.source # s} :
          signal' = [s \in Signals |->
                        IF s \in expired THEN "CLOSED"
                        ELSE IF row.source = s /\ IsOpen(s) /\ row.price # PlanOf[s].entry
                        THEN "ACTIVE" ELSE signal[s]]
    /\ GoTo("queue")
    /\ UNCHANGED <<queueVars, pending, row, events, handled, exchangeVars, boundVars>>

\* An exception outside the worker: run_orchestrator starts the cycle anew.
CycleFails ==
    /\ pc.at \in {"refresh", "tick", "events"}
    /\ Fault
    /\ events' = {}
    /\ GoTo("queue")
    /\ UNCHANGED <<dbVars, handled, exchangeVars, crashes>>

Crash ==
    /\ crashes < MaxCrashes
    /\ crashes' = crashes + 1
    /\ events' = {}
    /\ handled' = {}
    /\ GoTo("startup")
    /\ UNCHANGED <<dbVars, exchangeVars, faults>>

-----------------------------------------------------------------------------
(* The exchange.                                                           *)

PriceMoves ==
    /\ price' \in Prices \ {price}
    /\ UNCHANGED <<dbVars, loopVars, order, position, entryPrice, stops, boundVars>>

\* A stop entry fills at the market once triggered, a limit one at its price.
CanFill(s) ==
    LET plan == PlanOf[s] IN
    \/ order[s].is = "STOP" /\ EntryCrossed(plan.side, price, plan.entry)
    \/ order[s].is = "LIMIT" /\ NoWorse(plan.side, plan.entry, price)

AveragePrice(added, at) ==
    CASE position * added < 0 /\ Abs(added) < Size -> entryPrice
      [] position * added > 0 -> (Size * entryPrice + Abs(added) * at) \div (Size + Abs(added))
      [] OTHER -> at

OrderFills(s) ==
    LET added == Signed(PlanOf[s].side, PlanOf[s].size)
        at == IF order[s].is = "LIMIT" THEN PlanOf[s].entry ELSE price IN
    /\ CanFill(s)
    /\ order' = [order EXCEPT ![s] = [is |-> "FILLED", at |-> at]]
    /\ position' = position + added
    /\ entryPrice' = IF position' = 0 THEN 0 ELSE AveragePrice(added, at)
    /\ stops' \in BookAfter(position')
    /\ UNCHANGED <<dbVars, loopVars, price, boundVars>>

\* A take-profit fills part of the position, the stop or the last target all.
ExitFills ==
    /\ PositionSide \in stops
    /\ \E n \in 1..Size : ReduceBy(n)
    /\ UNCHANGED <<dbVars, loopVars, order, entryPrice, price, boundVars>>

-----------------------------------------------------------------------------
LiveInit ==
    /\ signal = [s \in Signals |-> "none"]
    /\ task = [t \in Tasks |-> "none"]
    /\ tries = [t \in Tasks |-> 0]
    /\ pending = [s \in Signals |-> FALSE]
    /\ row = NoRow
    /\ events = {}
    /\ handled = {}
    /\ pc = [at |-> "startup", of |-> 0]
    /\ order = [s \in Signals |-> [is |-> "none", at |-> 0]]
    /\ position = 0
    /\ entryPrice = 0
    /\ stops = {}
    /\ price \in Prices
    /\ faults = 0
    /\ crashes = 0

HandlerStep(s) ==
    \/ QueryEntry(s)
    \/ PlaceEntry(s)
    \/ RecordEntry(s)
    \/ FillEntry(s)
    \/ ProtectEntry(s)
    \/ CancelPending(s)
    \/ CancelExits(s)
    \/ CloseMarket(s)
    \/ CancelAll(s)
    \/ CloseAll(s)
    \/ CloseRow(s)

CycleStep ==
    \/ QueueEnds
    \/ Refresh
    \/ Tick
    \/ EnqueueClose
    \/ EventsEnd
    \/ Reconcile
    \/ Ensure
    \/ ReconcileSignals
    \/ CycleFails

ExchangeStep ==
    \/ PriceMoves
    \/ \E s \in Signals : OrderFills(s)
    \/ ExitFills

LiveNext ==
    \/ \E t \in Tasks : StartTask(t)
    \/ \E s \in Signals : HandlerStep(s)
    \/ CycleStep
    \/ ExchangeStep
    \/ Crash

LiveSpec == LiveInit /\ [][LiveNext]_liveVars

\* The loop keeps cycling, a handler keeps going, and a task that is ready cycle
\* after cycle is among the fetched of one of them.  The exchange owes nothing.
LiveFairness ==
    /\ WF_liveVars(CycleStep)
    /\ WF_liveVars(\E s \in Signals : HandlerStep(s))
    /\ \A t \in Tasks : SF_liveVars(StartTask(t))

FairLiveSpec == LiveSpec /\ LiveFairness

-----------------------------------------------------------------------------
(* Properties.                                                             *)

LiveTypeOK ==
    /\ signal \in [Signals -> SignalStatus]
    /\ task \in [Tasks -> TaskStatus]
    /\ tries \in [Tasks -> 0..MaxAttempts - 1]
    /\ pending \in [Signals -> BOOLEAN]
    /\ row.source \in Signals \cup {0}
    /\ row.side \in Sides \cup {"none"}
    /\ row.size \in Nat
    /\ events \subseteq Signals
    /\ handled \subseteq Tasks
    /\ pc \in [at : Stages, of : Signals \cup {0}]
    /\ \A s \in Signals : order[s].is \in {"none", "STOP", "LIMIT", "FILLED", "CANCELED"}
    /\ position \in Int
    /\ stops \subseteq Sides
    /\ faults \in 0..MaxFaults
    /\ crashes \in 0..MaxCrashes

SizesOf(side) ==
    SumFunctionOnSet([s \in Signals |-> PlanOf[s].size], {s \in Signals : PlanOf[s].side = side})

\* No signal is in the market twice, whatever the worker polls, fails and tries
\* again, wherever the process dies and however positions are recovered
\* (open_from_signal, its pending key, exchange_position_without_db_run_reconcile).
\* It needs the entry's own placing and recording not to fail.
NoDoubleEntry ==
    position # 0 => Size <= SizesOf(PositionSide)

\* The books never forget a position: a row is only closed while the exchange is
\* flat (reconcile_symbol, close_for_signal, close_symbol_cleanup).  Only the resting
\* entry of another signal can fill between an exit and the closing of its row.
RowOutlivesPosition ==
    [][row # NoRow /\ row' = NoRow =>
          position = 0 \/ \E s \in Signals \ {pc.of} : order[s].is = "FILLED"]_liveVars

\* However it came about, a position gets a stop of its side or ends
\* (reconcile_symbol: "recover DB from exchange position; ensure SL on book").
EventuallyProtected ==
    position # 0 ~> (position = 0 \/ PositionSide \in stops)

Stranded(t) == task[t] = "running" /\ pc.of = 0

\* An exit that has its attempts before it and finds the signal's row ends with
\* that row closed, unless the process dies in the middle of it.
LinkedExposureClosed ==
    \A s \in Signals :
        (task[<<"close", s>>] = "waiting" /\ tries[<<"close", s>>] = 0 /\ row.source = s)
            ~> (row.source # s \/ Stranded(<<"close", s>>))

\* docs/PORTFOLIO_EXECUTION.md: Binance, DB, Sheet and TG share the same entry;
\* a signal whose row is in the market is pending no longer.
FillActivates ==
    \A s \in Signals :
        row.source = s /\ signal[s] = "PENDING_ENTRY"
            ~> (row.source # s \/ signal[s] # "PENDING_ENTRY")

\* docs/POSITION_MGMT_TESTNET_CHECKLIST.md: once the exit is done, the signal's
\* open orders are cancelled and its row is closed.
ExitLeavesNothing ==
    \A s \in Signals :
        task[<<"close", s>>] = "done" => ~Resting(s) /\ row.source # s
=============================================================================
