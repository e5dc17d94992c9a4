--------------------------- MODULE SignalLifecycle ---------------------------
(***************************************************************************)
(* The signals table (storage/wave_repository.py, class WaveRepository):   *)
(* how an analysis becomes a trade plan, how each polled price moves the   *)
(* plan through its lifecycle, and the gate that admits one plan at a time *)
(* for a slot, that is a symbol and timeframe.                             *)
(*                                                                         *)
(* The slots are the timeframes of one symbol.  A row's id is its index.   *)
(* Each action is one SQLite transaction.  Time is the flag "overdue" of a *)
(* row: as many bars as its time stop allows have elapsed since its entry. *)
(***************************************************************************)
EXTENDS TradeManagement, FiniteSets

CONSTANTS
    Slots,          \* timeframes of the symbol
    TimeStopSlots,  \* the ones TIME_STOP_BARS gives a limit
    Analyses,       \* what an analysis may propose: sequences of scenarios
    Prices,         \* prices a tick or an analysis may carry
    Fills,          \* prices the exchange may fill an entry at
    Modes,          \* entry modes to consider, see EntryModes
    Gates,          \* values of SIGNAL_GATE_TERMINAL_EXIT to consider
    EdgeMode,       \* EDGE_COLLECTION_MODE
    MaxSignals      \* bound: rows ever inserted

EntryModes == {"entry_only", "pending", "signal_price"}

\* Entry and stop are on the right sides of each other unless the scenario is
\* rejected; every target lies beyond the entry (_sanitize_scenarios).
Scenario ==
    [bias : Bias, confirmation : Int, stop_loss : Int, invalidation : Int,
     targets : Seq(Int)]

ASSUME SignalAssumption ==
    /\ TimeStopSlots \subseteq Slots
    /\ Analyses \subseteq Seq(Scenario)
    /\ \A a \in Analyses : \A m \in DOMAIN a : \A n \in DOMAIN a[m].targets :
          TargetCrossed(SideOf(a[m].bias), a[m].targets[n], a[m].confirmation)
    /\ Prices \subseteq Int
    /\ Fills \subseteq Int
    /\ Modes \subseteq EntryModes
    /\ Gates \subseteq BOOLEAN
    /\ EdgeMode \in BOOLEAN
    /\ MaxSignals \in Nat

VARIABLES
    signals,    \* table signals
    runtime,    \* the scenarios of each slot's last analysis
    mode,       \* BINANCE_* and SIGNALS_ENTRY_ONLY: fixed for the process
    gate        \* SIGNAL_GATE_TERMINAL_EXIT: fixed for the process

signalVars == <<signals, runtime, mode, gate>>

-----------------------------------------------------------------------------
OpenStatus == {"PENDING_ENTRY", "ACTIVE", "PARTIAL_TP1", "PARTIAL_TP2"}

TerminalStatus == {"TP3_HIT", "STOPPED", "INVALIDATED", "REPLACED"}

\* close_reason, "none" as long as there is none
Reasons ==
    {"none", "TAKE_PROFIT_3", "STOP_LOSS", "OPPOSITE_STRUCTURE", "VOLATILITY_EXIT",
     "TIME_STOP", "STOP_LOSS_BEFORE_ENTRY", "OVEREXTENDED_ENTRY", "NOT_ACTIONABLE",
     "NO_EXCHANGE_POSITION", "REPLACED_BY_NEW_SIGNAL"}

Plan ==
    [slot : Slots, bias : Bias, entry : Int, stop : Int, invalidation : Int,
     targets : Seq(Int)]

\* stop is live_stop_loss, the managed stop or the plan's; fill is
\* entry_triggered_price, or the planned entry as long as there is none.
Signal ==
    [plan : Plan, status : OpenStatus \cup TerminalStatus, reason : Reasons,
     stop : Int, fill : Int, entered : BOOLEAN, overdue : BOOLEAN,
     hits : SUBSET (1..3)]

SignalIds == 1..Len(signals)

IsOpen(row) == row.status \in OpenStatus

Side(row) == SideOf(row.plan.bias)

RowsIn(slot) == {i \in SignalIds : signals[i].plan.slot = slot}

OpenIn(slot) == {i \in RowsIn(slot) : IsOpen(signals[i])}

NewSignal(plan, price) ==
    [plan |-> plan,
     status |-> IF mode = "entry_only" THEN "ACTIVE" ELSE "PENDING_ENTRY",
     reason |-> "none",
     stop |-> plan.stop,
     fill |-> IF mode = "entry_only" THEN price ELSE plan.entry,
     entered |-> mode = "entry_only",
     overdue |-> FALSE,
     hits |-> {}]

Closed(row, status, reason) == [row EXCEPT !.status = status, !.reason = reason]

-----------------------------------------------------------------------------
(* From an analysis to a plan.                                             *)

EntryStyle == IF mode = "signal_price" THEN "signal_price" ELSE "market"

\* A market-style plan may still wait for its confirmation level.
Selectable(s, price) ==
    LET decision == LiveEntryDecision(EntryStyle, SideOf(s.bias), s.confirmation,
                                      s.stop_loss, s.invalidation, price)
    IN Actionable(decision) \/ (decision = "not_confirmed" /\ EntryStyle = "market")

\* The Fibonacci fallback at 1, 1.272 and 1.618 R.
FallbackTargets(side, entry, risk) ==
    LET direction == IF side = "LONG" THEN 1 ELSE -1
    IN <<entry + direction * risk,
         entry + direction * ((risk * 1272) \div 1000),
         entry + direction * ((risk * 1618) \div 1000)>>

\* Mutant of SnapshotTargets: the targets are taken as proposed.
SnapshotTargetsAsProposed(s) == SubSeq(s.targets, 1, IF Len(s.targets) < 3 THEN Len(s.targets) ELSE 3)

\* Targets whose first is nearer than half the risk are replaced.
SnapshotTargets(s) ==
    LET risk == Abs(s.confirmation - s.stop_loss)
    IN IF s.targets # <<>> /\ 2 * Abs(s.targets[1] - s.confirmation) < risk
       THEN FallbackTargets(SideOf(s.bias), s.confirmation, risk)
       ELSE SubSeq(s.targets, 1, IF Len(s.targets) < 3 THEN Len(s.targets) ELSE 3)

SnapshotOf(slot, s) ==
    [slot |-> slot, bias |-> s.bias, entry |-> s.confirmation,
     stop |-> s.stop_loss, invalidation |-> s.invalidation,
     targets |-> SnapshotTargets(s)]

StopIsBehindEntry(s) == ~StopCrossed(SideOf(s.bias), s.confirmation, s.stop_loss)

\* build_signal_snapshot: the first selectable scenario, if its geometry holds.
SnapshotsFrom(slot, scenarios, price) ==
    {SnapshotOf(slot, scenarios[n]) : n \in
        {m \in DOMAIN scenarios :
            /\ Selectable(scenarios[m], price)
            /\ \A k \in DOMAIN scenarios : Selectable(scenarios[k], price) => m <= k
            /\ StopIsBehindEntry(scenarios[m])}}

\* The row the gate looks at: the slot's latest that was not replaced.
LatestIn(slot) ==
    {i \in RowsIn(slot) :
        /\ signals[i].status # "REPLACED"
        /\ \A j \in RowsIn(slot) : signals[j].status # "REPLACED" => j <= i}

\* Mutant of GateBlocks: only a stopped plan blocks.
GateForgetsOpenPlans(plan) ==
    gate /\ \E i \in LatestIn(plan.slot) :
               signals[i].status = "STOPPED" /\ signals[i].plan.bias = plan.bias

\* Mutant of GateBlocks: a plan stopped before its entry does not block.
GateForgetsMissedEntries(plan) ==
    gate /\ \E i \in LatestIn(plan.slot) :
        \/ IsOpen(signals[i])
        \/ signals[i].status = "STOPPED" /\ signals[i].plan.bias = plan.bias

\* _signal_gate_blocks_new
GateBlocks(plan) ==
    gate /\ \E i \in LatestIn(plan.slot) :
        \/ IsOpen(signals[i])
        \/ /\ \/ signals[i].status = "STOPPED"
              \/ /\ signals[i].status = "INVALIDATED"
                 /\ signals[i].reason = "STOP_LOSS_BEFORE_ENTRY"
           /\ signals[i].plan.bias = plan.bias

\* Mutant of WithPendingReplaced: the plan's predecessor is left waiting.
PendingKept(plan) == signals

\* Mutant of WithPendingReplaced: live plans are replaced as well.
WithOpenReplaced(plan) ==
    [i \in SignalIds |->
        IF signals[i].plan.slot = plan.slot /\ IsOpen(signals[i])
        THEN Closed(signals[i], "REPLACED", "REPLACED_BY_NEW_SIGNAL")
        ELSE signals[i]]

\* _replace_pending_signals
WithPendingReplaced(plan) ==
    [i \in SignalIds |->
        IF signals[i].plan.slot = plan.slot /\ signals[i].status = "PENDING_ENTRY"
        THEN Closed(signals[i], "REPLACED", "REPLACED_BY_NEW_SIGNAL")
        ELSE signals[i]]

\* Same signal_hash: the row that exists is refreshed, whatever its status.
Known(plan) == \E i \in SignalIds : signals[i].plan = plan

Insert(plan, price) ==
    IF \/ Known(plan)
       \/ mode = "entry_only" /\ ~EntryCrossed(SideOf(plan.bias), price, plan.entry)
       \/ GateBlocks(plan)
    THEN UNCHANGED signals
    ELSE /\ Len(signals) < MaxSignals
         /\ signals' = Append(WithPendingReplaced(plan), NewSignal(plan, price))

\* _load_runtime and sync_analysis: a new analysis of a slot.
SyncAnalysis(slot, scenarios, price) ==
    /\ runtime' = [runtime EXCEPT ![slot] = scenarios]
    /\ IF SnapshotsFrom(slot, scenarios, price) = {}
       THEN UNCHANGED signals
       ELSE \E plan \in SnapshotsFrom(slot, scenarios, price) : Insert(plan, price)
    /\ UNCHANGED <<mode, gate>>

-----------------------------------------------------------------------------
(* One polled price against one row.  A pass is the row as the transaction *)
(* has written it, the entry price the code still holds in its variable    *)
(* row (read before the entry was triggered), and the events returned.     *)

Pass(row, seen, fired) == [row |-> row, seen |-> seen, fired |-> fired]

TargetHit(row, n, price) ==
    /\ n \in DOMAIN row.plan.targets
    /\ n \notin row.hits
    /\ TargetCrossed(Side(row), price, row.plan.targets[n])

TargetLabel == <<"TP1", "TP2">>

PartialStatus == <<"PARTIAL_TP1", "PARTIAL_TP2">>

TargetEvent == <<"TP1_HIT", "TP2_HIT">>

\* Mutant of StopAfterTarget: the new level replaces the stop, tighter or not.
StopAtLevel(row, n, seen) == IF n = 1 THEN seen ELSE row.plan.targets[1]

StopAfterTarget(row, n, seen) ==
    ManagedStopAfterTarget(Side(row), row.stop, seen, row.plan.targets[1], TargetLabel[n])

\* TP1 and TP2: the status, the hit and the moved stop, then the row is re-read.
AfterTarget(x, n, price) ==
    IF TargetHit(x.row, n, price)
    THEN LET hit == [x.row EXCEPT !.status = PartialStatus[n],
                                  !.hits = @ \cup {n},
                                  !.stop = StopAfterTarget(x.row, n, x.seen)]
         IN Pass(hit, hit.fill, Append(x.fired, TargetEvent[n]))
    ELSE x

OppositeConfirmed(row, price) ==
    \E n \in DOMAIN runtime[row.plan.slot] :
        LET s == runtime[row.plan.slot][n] IN
        /\ s.bias = OppositeBias(Side(row))
        /\ ~InvalidationCrossed(SideOf(s.bias), price, s.invalidation)
        /\ EntryCrossed(SideOf(s.bias), price, s.confirmation)

\* The exits of a live plan, in the order they are tried.
ExitEvent(x, price, spiking) ==
    CASE TargetHit(x.row, 3, price) -> "TP3_HIT"
      [] ~TargetHit(x.row, 3, price)
         /\ StopCrossed(Side(x.row), price, x.row.stop) -> "STOP_LOSS_HIT"
      [] OTHER ->
           IF EdgeMode THEN "none"
           ELSE IF OppositeConfirmed(x.row, price) THEN "OPPOSITE_STRUCTURE_HIT"
           ELSE IF x.row.plan.slot \in spiking /\ ~NoWorse(Side(x.row), price, x.seen)
                THEN "VOLATILITY_EXIT_HIT"
           ELSE IF x.row.overdue /\ 1 \notin x.row.hits THEN "TIME_STOP_HIT"
           ELSE "none"

ClosingEvents ==
    {"TP3_HIT", "STOP_LOSS_HIT", "OPPOSITE_STRUCTURE_HIT", "VOLATILITY_EXIT_HIT",
     "TIME_STOP_HIT", "STOP_LOSS_BEFORE_ENTRY", "ENTRY_SKIPPED"}

\* Mutant of ClosedStatus: the event of signal_events taken for the status.
ClosedAsEvent(event) ==
    CASE event = "TP3_HIT" -> "SIGNAL_CLOSED"
      [] event \in {"STOP_LOSS_BEFORE_ENTRY", "ENTRY_SKIPPED"} -> "INVALIDATED"
      [] OTHER -> "STOPPED"

\* What each closing event writes to the row.
ClosedStatus(event) ==
    CASE event = "TP3_HIT" -> "TP3_HIT"
      [] event \in {"STOP_LOSS_BEFORE_ENTRY", "ENTRY_SKIPPED"} -> "INVALIDATED"
      [] OTHER -> "STOPPED"

CloseReason(event) ==
    CASE event = "TP3_HIT" -> "TAKE_PROFIT_3"
      [] event = "STOP_LOSS_HIT" -> "STOP_LOSS"
      [] event = "OPPOSITE_STRUCTURE_HIT" -> "OPPOSITE_STRUCTURE"
      [] event = "VOLATILITY_EXIT_HIT" -> "VOLATILITY_EXIT"
      [] event = "TIME_STOP_HIT" -> "TIME_STOP"
      [] event = "STOP_LOSS_BEFORE_ENTRY" -> "STOP_LOSS_BEFORE_ENTRY"
      [] OTHER -> "OVEREXTENDED_ENTRY"

ClosedBy(x, event) ==
    Pass(Closed([x.row EXCEPT !.hits = IF event = "TP3_HIT" THEN @ \cup {3} ELSE @],
                ClosedStatus(event), CloseReason(event)),
         x.seen, Append(x.fired, event))

AfterExit(x, price, spiking) ==
    LET event == ExitEvent(x, price, spiking)
    IN IF event = "none" THEN x ELSE ClosedBy(x, event)

Managed(x, price, spiking) ==
    AfterExit(AfterTarget(AfterTarget(x, 1, price), 2, price), price, spiking)

MaxTrackedStretchPercent == 35  \* the literal 0.35 of track_price_update

\* Mutant of Entered: entry_triggered_at is not stamped.
EnteredUnstamped(row, price) == [row EXCEPT !.status = "ACTIVE", !.fill = price]

Entered(row, price) ==
    [row EXCEPT !.status = "ACTIVE", !.fill = price, !.entered = TRUE]

TrackedPending(row, price, spiking) ==
    LET x == Pass(row, row.fill, <<>>) IN
    IF StopCrossed(Side(row), price, row.plan.stop)
    THEN ClosedBy(x, "STOP_LOSS_BEFORE_ENTRY")
    ELSE IF mode = "signal_price" \/ ~EntryCrossed(Side(row), price, row.plan.entry)
    THEN x
    ELSE IF Overextended(Side(row), row.plan.entry, price, row.plan.stop,
                         MaxTrackedStretchPercent)
    THEN ClosedBy(x, "ENTRY_SKIPPED")
    ELSE Managed(Pass(Entered(row, price), row.fill, <<"ENTRY_TRIGGERED">>),
                 price, spiking)

Tracked(row, price, spiking) ==
    CASE row.status = "PENDING_ENTRY" -> TrackedPending(row, price, spiking)
      [] row.status \in OpenStatus \ {"PENDING_ENTRY"} ->
             Managed(Pass(row, row.fill, <<>>), price, spiking)
      [] OTHER -> Pass(row, row.fill, <<>>)

\* The events track_price_update returns for a row.
EventsOf(i, price, spiking) ==
    LET fired == Tracked(signals[i], price, spiking).fired
    IN {[id |-> i, event |-> fired[n]] : n \in DOMAIN fired}

\* track_price_update: every open row, one transaction.  When SQLite fails it is
\* rolled back, and no row has changed.
TrackPrice(price, spiking) ==
    /\ signals' = [i \in SignalIds |-> Tracked(signals[i], price, spiking).row]
    /\ UNCHANGED <<runtime, mode, gate>>

-----------------------------------------------------------------------------
(* What the orchestrator and the position manager write to a row.          *)

\* mark_signal_entry_filled_from_exchange
ExchangeFill(i, price) ==
    /\ IsOpen(signals[i])
    /\ signals' = [signals EXCEPT ![i].status = IF @ = "PENDING_ENTRY" THEN "ACTIVE" ELSE @,
                                  ![i].fill = price,
                                  ![i].entered = TRUE]
    /\ UNCHANGED <<runtime, mode, gate>>

\* update_signal_entry_to_exchange_average: the position manager's fallback for
\* a row that is closed by now.
AlignClosedEntry(i, price) ==
    /\ ~IsOpen(signals[i])
    /\ signals' = [signals EXCEPT ![i].fill = price, ![i].entered = TRUE]
    /\ UNCHANGED <<runtime, mode, gate>>

CloseReasons == {"NO_EXCHANGE_POSITION", "STOP_LOSS_BEFORE_ENTRY", "NOT_ACTIONABLE"}

\* Mutant of CloseOpen: the status is not looked at.
CloseAny(i, reason) ==
    /\ reason = "NO_EXCHANGE_POSITION" => signals[i].entered
    /\ signals' = [signals EXCEPT ![i] = Closed(@, "INVALIDATED", reason)]
    /\ UNCHANGED <<runtime, mode, gate>>

\* close_open_signal with the reason of _reconcile_live_signal_state (an entry
\* without a position) or of open_from_signal (not actionable any more).
CloseOpen(i, reason) ==
    /\ IsOpen(signals[i])
    /\ reason = "NO_EXCHANGE_POSITION" => signals[i].entered
    /\ signals' = [signals EXCEPT ![i] = Closed(@, "INVALIDATED", reason)]
    /\ UNCHANGED <<runtime, mode, gate>>

\* The bars of the time stop have elapsed since the entry.
BarsElapse(i) ==
    /\ signals[i].plan.slot \in TimeStopSlots
    /\ signals[i].entered
    /\ ~signals[i].overdue
    /\ IsOpen(signals[i])
    /\ signals' = [signals EXCEPT ![i].overdue = TRUE]
    /\ UNCHANGED <<runtime, mode, gate>>

-----------------------------------------------------------------------------
SignalInit ==
    /\ signals = <<>>
    /\ runtime = [slot \in Slots |-> <<>>]
    /\ mode \in Modes
    /\ gate \in Gates

RowStep(i) ==
    \/ \E price \in Fills : ExchangeFill(i, price) \/ AlignClosedEntry(i, price)
    \/ \E reason \in CloseReasons : CloseOpen(i, reason)
    \/ BarsElapse(i)

SignalNext ==
    \/ \E slot \in Slots, scenarios \in Analyses, price \in Prices :
          SyncAnalysis(slot, scenarios, price)
    \/ \E price \in Prices, spiking \in SUBSET Slots :
          TrackPrice(price, spiking)
    \/ \E i \in SignalIds : RowStep(i)

SignalSpec == SignalInit /\ [][SignalNext]_signalVars

-----------------------------------------------------------------------------
(* Properties.                                                             *)

SignalTypeOK ==
    /\ signals \in Seq(Signal)
    /\ Len(signals) <= MaxSignals
    /\ runtime \in [Slots -> Analyses \cup {<<>>}]
    /\ mode \in Modes
    /\ gate \in Gates

\* A slot has one open plan at a time when the gate is on, and one pending plan
\* whatever the gate: no tick, fill or analysis ever lets a second one in
\* (_signal_gate_blocks_new, _replace_pending_signals).
OnePlanPerSlot ==
    \A slot \in Slots : \A i, j \in OpenIn(slot) :
        gate \/ (signals[i].status = "PENDING_ENTRY" /\ signals[j].status = "PENDING_ENTRY")
            => i = j

\* With the gate on, the plan that follows a stopped one in its slot has the
\* other bias: "so we don't immediately re-enter the same thesis that just lost".
NoSameThesisReentry ==
    gate => \A slot \in Slots : \A i, j \in RowsIn(slot) :
        /\ i < j
        /\ \A k \in RowsIn(slot) : k <= i \/ j <= k
        /\ \/ signals[i].status = "STOPPED"
           \/ /\ signals[i].status = "INVALIDATED"
              /\ signals[i].reason = "STOP_LOSS_BEFORE_ENTRY"
        => signals[i].plan.bias # signals[j].plan.bias

\* Targets, stops and time stops belong to plans that were entered, and the
\* status names a target that was hit.
StatusMatchesHits ==
    \A i \in SignalIds : LET row == signals[i] IN
        /\ row.hits # {} \/ row.overdue \/ row.status \in {"ACTIVE", "STOPPED"} => row.entered
        /\ row.status = "PARTIAL_TP1" => 1 \in row.hits
        /\ row.status = "PARTIAL_TP2" => 2 \in row.hits
        /\ row.status = "TP3_HIT" <=> 3 \in row.hits
        /\ row.status \in {"PENDING_ENTRY", "ACTIVE", "REPLACED"} => row.hits = {}

\* A closed plan keeps its status and reason: an analysis of the same hash, a
\* late fill or the reconciler never reopens or relabels it.
TerminalIsFinal ==
    [][\A i \in SignalIds : ~IsOpen(signals[i]) =>
          /\ signals'[i].status = signals[i].status
          /\ signals'[i].reason = signals[i].reason]_signalVars

\* The stop of a plan only ever moves in its holder's favour.
StopNeverLoosens ==
    [][\A i \in SignalIds :
          NoWorse(Side(signals[i]), signals'[i].stop, signals[i].stop)]_signalVars

\* The transaction that records TP1 leaves the stop at the fill or better, even
\* when the entry was triggered by the same price, late and above plan: half an
\* R to the first target, but at most 0.35 R of stretch.
BreakevenAtTP1 ==
    [][\A i \in SignalIds :
          1 \notin signals[i].hits /\ 1 \in signals'[i].hits =>
              NoWorse(Side(signals[i]), signals'[i].stop, signals'[i].fill)]_signalVars

\* The documented lifecycle, as a refinement.
Lifecycle == INSTANCE SignalPlan WITH status <- [i \in SignalIds |-> signals[i].status]

LifecycleSpec == Lifecycle!Spec
=============================================================================
