------------------------------ MODULE ExitLadder ------------------------------
(***************************************************************************)
(* The exits of one long position: its stop, its ladder of three targets,  *)
(* and what reconcile_symbol and ensure_protection make of them while the  *)
(* market fills some (execution/position_manager.py and reconciler.py).    *)
(*                                                                         *)
(* LiveExecution knows of a stop only that it is there.  Here are the      *)
(* prices, and the split of the position over the targets.  One-way mode;  *)
(* sizes are lots, prices ticks; a handler is one step, for LiveExecution  *)
(* has its calls one by one.                                               *)
(***************************************************************************)
EXTENDS Integers, FiniteSets, Functions, FiniteSetsExt

CONSTANTS
    Marks,          \* mark prices
    EntryAt,        \* the planned entry, where the entry order fills
    PlanStop,       \* signals.stop_loss
    PlanTargets,    \* signals.tp1 .. tp3
    EmergencyStop,  \* RECOVERY_EMERGENCY_SL_PCT below the entry
    Weights,        \* BINANCE_TP1_SIZE_PCT .. TP3_SIZE_PCT
    Lots,           \* the size of the entry
    Strays,         \* exits of an earlier trade that the exchange may still hold
    MaxLadderFaults \* bound: calls that fail

Levels == 1..3

ASSUME LadderAssumption ==
    /\ Marks \subseteq Nat \ {0}
    /\ PlanTargets \in [Levels -> Nat \ {0}]
    /\ Weights \in [Levels -> Nat]
    /\ \E k \in Levels : Weights[k] > 0
    /\ Lots \in Nat \ {0}
    /\ {EntryAt, PlanStop, EmergencyStop} \subseteq Nat
    /\ Strays \subseteq [kind : 0..3, at : Nat \ {0}, lots : 0..Lots]
    /\ \A o \in Strays : o.kind = 0 => o.lots = 0
    /\ MaxLadderFaults \in Nat

VARIABLES
    mark,       \* exchange: the mark price
    held,       \* exchange: the position
    exits,      \* exchange: the reduce-only orders on the book
    leg,        \* the OPEN row of exchange_positions
    plan,       \* table signals: its entry rests, it is open, over, or its CLOSE is done
    hits,       \* the targets whose hit the tick has written
    sold,       \* what each target of the plan has sold
    ahead,      \* a reconciliation came between the fill of a target and its record
    restored,   \* the last step reconciled a linked row, and no call failed
    ladderFaults

ladderVars == <<mark, held, exits, leg, plan, hits, sold, ahead, restored, ladderFaults>>

NoLeg == [linked |-> FALSE, stop |-> 0, targets |-> [k \in Levels |-> 0]]

\* A TAKE_PROFIT_MARKET of TPk has kind k and a size; a STOP_MARKET has kind 0 and
\* closePosition instead of a size, so that it always covers what is held.
Stop(at) == [kind |-> 0, at |-> at, lots |-> 0]

Stops(book) == {o \in book : o.kind = 0}

\* The exchange refuses a trigger that the price has already passed.
Placeable(o) == IF o.kind = 0 THEN mark > o.at ELSE mark < o.at

Triggered(o) == ~Placeable(o)

-----------------------------------------------------------------------------
(* The split of a position over its targets.                               *)

Weight(levels) == SumFunctionOnSet(Weights, levels)

\* Each level its weight, rounded down to the lot; the last one what is left.
Split(lots, levels) ==
    LET down == [k \in levels |-> (lots * Weights[k]) \div Weight(levels)]
        last == Max(levels) IN
    [k \in levels |->
        IF k # last THEN down[k] ELSE lots - SumFunctionOnSet(down, levels \ {last})]

Priced(row) == {k \in Levels : row.targets[k] # 0 /\ Weights[k] > 0}

\* Mutant of OpenLevels: a level is out once hit, the nearer ones are not.
OpenLevelsAll(row) == Priced(row)

\* A hit recorded for a target counts for the nearer ones.
OpenLevels(row) ==
    {k \in Priced(row) : row.linked => \A j \in hits : k > j}

\* _expected_tp_levels_for_row
Expected(row, lots) == {k \in OpenLevels(row) : Split(lots, OpenLevels(row))[k] > 0}

-----------------------------------------------------------------------------
(* ensure_protection, on a row, a position and a book.                     *)

\* _backfill_open_targets_from_active_signals: what the row lacks
Backfilled(row) ==
    IF plan = "open"
    THEN [linked |-> TRUE, stop |-> row.stop,
          targets |-> [k \in Levels |-> IF row.targets[k] = 0 THEN PlanTargets[k]
                                        ELSE row.targets[k]]]
    ELSE row

\* Mutant of Tidied: any stop will do.
TidiedTargets(row, book) ==
    {o \in book : o.kind = 0 \/ o.at \in {row.targets[k] : k \in Expected(row, held)}}

\* _cleanup_stray_protective_orders_from_book
Tidied(row, book) ==
    IF ~row.linked THEN book
    ELSE {o \in book : \/ o.kind = 0 /\ o.at = row.stop
                       \/ o.kind # 0 /\ o.at \in {row.targets[k] : k \in Expected(row, held)}}

\* The stop that is placed: none if any stop is on the book.
StopFor(row, book) == {o \in {Stop(row.stop)} : Stops(book) = {} /\ Placeable(o)}

\* _ensure_take_profits_for_row: the levels with no order of their label or price
TargetsFor(row, book) ==
    LET split == Split(held, Expected(row, held))
        missing == {k \in Expected(row, held) :
                       \A o \in book : o.kind # k /\ (o.kind # 0 => o.at # row.targets[k])}
    IN {o \in {[kind |-> k, at |-> row.targets[k], lots |-> split[k]] : k \in missing} :
           Placeable(o)}

\* The calls of ensure_protection that can fail, each without an effect; the
\* others are made all the same.
Calls == {"tidy", "stop", "targets"}

Ensured(row, book, failing) ==
    LET tidy == IF "tidy" \in failing THEN book ELSE Tidied(row, book)
        stopped == IF "stop" \in failing THEN tidy ELSE tidy \cup StopFor(row, tidy)
    IN IF "targets" \in failing THEN stopped ELSE stopped \cup TargetsFor(row, tidy)

\* What the book says of a price of the row, if anything
OnBook(kind, book, none) ==
    LET found == {o.at : o \in {p \in book : p.kind = kind}}
    IN IF found = {} THEN {none} ELSE found

OnBookTargets(book) ==
    {f \in [Levels -> {0} \cup {o.at : o \in book}] :
        \A k \in Levels : f[k] \in OnBook(k, book, 0)}

\* The row reconcile_symbol makes of a position without one
Recovered(book) ==
    {[linked |-> FALSE, stop |-> s, targets |-> t] :
        s \in OnBook(0, book, EmergencyStop), t \in OnBookTargets(book)}

-----------------------------------------------------------------------------
Touch(k) == mark >= PlanTargets[k]

Quiet == restored' = FALSE

Fails(failing) ==
    /\ failing \in {{}} \cup {{c} : c \in Calls}
    /\ ladderFaults + Cardinality(failing) <= MaxLadderFaults
    /\ ladderFaults' = ladderFaults + Cardinality(failing)

LadderInit ==
    /\ mark = EntryAt
    /\ held = 0
    /\ exits \in SUBSET Strays
    /\ leg = NoLeg
    /\ plan = "resting"
    /\ hits = {}
    /\ sold = [k \in Levels |-> 0]
    /\ ahead = FALSE
    /\ restored = FALSE
    /\ ladderFaults = 0

\* The entry order fills, and nothing of the program sees it.
EntryFills ==
    /\ plan = "resting"
    /\ plan' = "open"
    /\ held' = Lots
    /\ Quiet
    /\ UNCHANGED <<mark, exits, leg, hits, sold, ahead, ladderFaults>>

\* The order fills under the eyes of open_from_signal, which writes the row with the
\* stop of the signal and places the exits; after a failed stop it returns.
EntryFillSeen ==
    LET row == [linked |-> TRUE, stop |-> PlanStop, targets |-> PlanTargets]
        ladder == {k \in Levels : Weights[k] > 0 /\ Split(Lots, Priced(row))[k] > 0}
        targets == {[kind |-> k, at |-> PlanTargets[k], lots |-> Split(Lots, Priced(row))[k]] :
                       k \in ladder} IN
    /\ plan = "resting"
    /\ plan' = "open"
    /\ held' = Lots
    /\ leg' = row
    /\ \E failing \in SUBSET Calls :
        /\ Fails(failing)
        /\ exits' = exits \cup (IF "stop" \in failing THEN {} ELSE StopFor(row, exits))
                          \cup (IF failing \cap {"stop", "targets"} # {} THEN {} ELSE targets)
    /\ Quiet
    /\ UNCHANGED <<mark, hits, sold, ahead>>

\* The orders of a flat symbol may go or stay.
BookOf(lots, book) == IF lots = 0 THEN {book, {}} ELSE {book}

\* An order whose trigger the price has reached.
ExitFires ==
    \E o \in exits :
        LET n == IF o.kind = 0 \/ o.lots > held THEN held ELSE o.lots IN
        /\ held > 0
        /\ Triggered(o)
        /\ held' = held - n
        /\ exits' \in BookOf(held', exits \ {o})
        /\ sold' = [k \in Levels |-> IF o.kind = k /\ o.at = PlanTargets[k] THEN sold[k] + n
                                     ELSE sold[k]]
        /\ Quiet
        /\ UNCHANGED <<mark, leg, plan, hits, ahead, ladderFaults>>

\* The price moves on once the exchange has done what it triggered.
MarkMoves ==
    /\ plan # "resting"
    /\ held > 0
    /\ \A o \in exits : ~Triggered(o)
    /\ mark' \in Marks \ {mark}
    /\ Quiet
    /\ UNCHANGED <<held, exits, leg, plan, hits, sold, ahead, ladderFaults>>

\* The stop the signal is followed with, see SignalLifecycle.
SignalStop ==
    CASE hits = {} -> PlanStop
      [] hits # {} /\ Max(hits) = 1 -> EntryAt
      [] OTHER -> PlanTargets[1]

\* track_price_update at a polled price; time, volatility or an opposite structure may
\* end the plan as well
TickSees ==
    /\ plan = "open"
    /\ hits' = hits \cup {k \in Levels : Touch(k)}
    /\ plan' \in IF 3 \in hits' \/ mark <= SignalStop' THEN {"over"} ELSE {plan, "over"}
    /\ hits' # hits \/ plan' # plan
    /\ Quiet
    /\ UNCHANGED <<mark, held, exits, leg, sold, ahead, ladderFaults>>

\* close_for_signal, when its CLOSE is handled: the orders of the row, then what is
\* held.  Without a linked row it tries to cancel the entry order that it believes to
\* rest, fails, and in the end gives up.
CloseHandled ==
    /\ plan = "over"
    /\ plan' = "closed"
    /\ IF leg.linked
       THEN /\ leg' = NoLeg
            /\ held' = 0
            /\ exits' \in BookOf(0, exits)
       ELSE UNCHANGED <<leg, held, exits>>
    /\ Quiet
    /\ UNCHANGED <<mark, hits, sold, ahead, ladderFaults>>

\* A target has sold and the tick did not see the price there.
FilledUnseen == \E k \in Levels : sold[k] > 0 /\ \A j \in hits : k > j

\* reconcile_symbol
ReconcileLeg ==
    /\ plan # "resting"
    /\ held > 0 \/ leg # NoLeg
    /\ IF held = 0
       THEN /\ leg' = NoLeg
            /\ Quiet
            /\ UNCHANGED <<exits, ahead, ladderFaults>>
       ELSE \E row \in IF leg = NoLeg THEN Recovered(exits) ELSE {leg}, failing \in SUBSET Calls :
            /\ leg' = Backfilled(row)
            /\ Fails(failing)
            /\ exits' = Ensured(leg', exits, failing)
            /\ restored' = (failing = {} /\ leg'.linked)
            /\ ahead' = (ahead \/ FilledUnseen)
    /\ UNCHANGED <<mark, held, plan, hits, sold>>

LadderNext ==
    \/ EntryFills
    \/ EntryFillSeen
    \/ ExitFires
    \/ MarkMoves
    \/ TickSees
    \/ CloseHandled
    \/ ReconcileLeg

LadderSpec == LadderInit /\ [][LadderNext]_ladderVars

-----------------------------------------------------------------------------
(* Properties.                                                             *)

\* The state of the position, its book, its row and its plan.
LadderTypeOK ==
    /\ mark \in Marks \cup {EntryAt}
    /\ held \in 0..Lots
    /\ \A o \in exits : o.kind \in 0..3 /\ o.lots \in 0..Lots
    /\ leg.linked \in BOOLEAN /\ leg.stop \in Nat /\ leg.targets \in [Levels -> Nat]
    /\ plan \in {"resting", "open", "over", "closed"}
    /\ hits \subseteq Levels
    /\ sold \in [Levels -> 0..Lots]
    /\ ahead \in BOOLEAN /\ restored \in BOOLEAN
    /\ ladderFaults \in 0..MaxLadderFaults

\* What a reconciliation without a failed call leaves behind, whatever the market,
\* an earlier trade and earlier failures left on the book: one stop, at the price of
\* the row, unless the price is past it; and a target exactly at each level that is
\* not recorded as hit, is still ahead and gets a lot of what is held.
ReconcileRestores ==
    restored =>
        /\ Stops(exits) = {o \in {Stop(leg.stop)} : Placeable(o) \/ o \in exits}
        /\ \A o \in exits \ Stops(exits) :
              \E k \in Levels : o.at = leg.targets[k] /\ \A j \in hits : k > j
        /\ \A k \in Expected(leg, held) :
              mark < leg.targets[k] =>
                  Cardinality({o \in exits : o.kind # 0 /\ o.at = leg.targets[k]}) = 1

\* When a target is reached, no more of the entry has been sold than the shares of
\* the targets up to it, whichever of them could be placed, in whatever order the
\* exchange and the tick saw the price; unless a reconciliation came between the fill
\* of a target and its record (then its order is placed again), or a call failed.
TargetsSellTheirShare ==
    LET upTo(f, k) == SumFunctionOnSet(f, 1..k)
        shares == Split(Lots, {j \in Levels : Weights[j] > 0}) IN
    ahead \/ ladderFaults > 0 \/ \A k \in Levels : upTo(sold, k) <= upTo(shares, k)

\* docs/POSITION_MGMT_TESTNET_CHECKLIST.md, "Emergency SL": it is for a position
\* without a stop price "in DB/exchange".  An open signal has one.
EmergencyOnlyWithoutPlan ==
    restored /\ plan = "open" => leg.stop # EmergencyStop
=============================================================================
