--------------------------- MODULE TradeManagement ---------------------------
(***************************************************************************)
(* The price rules of a trade (analysis/trade_management.py and the        *)
(* crossing helpers of storage/wave_repository.py), as operators.  Prices  *)
(* are integer ticks; a ratio to the risk R = |entry - stop| is compared   *)
(* by cross-multiplication.                                                *)
(***************************************************************************)
EXTENDS Integers, Sequences

Sides == {"LONG", "SHORT"}

Bias == {"BULLISH", "BEARISH"}

\* _signal_side
SideOf(bias) == IF bias = "BULLISH" THEN "LONG" ELSE "SHORT"

OppositeBias(side) == IF side = "LONG" THEN "BEARISH" ELSE "BULLISH"

Abs(x) == IF x < 0 THEN -x ELSE x

\* a is at least as favourable a price as b to the holder of the side.
NoWorse(side, a, b) == IF side = "LONG" THEN a >= b ELSE a <= b

EntryCrossed(side, price, entry) == NoWorse(side, price, entry)

TargetCrossed(side, price, target) == NoWorse(side, price, target)

StopCrossed(side, price, stop) == NoWorse(side, stop, price)

InvalidationCrossed(side, price, invalidation) ==
    NoWorse(side, invalidation, price) /\ price # invalidation

\* How far past the plan the entry would be, in ticks; 0 before the plan.
Stretch(side, entry, price) ==
    IF NoWorse(side, price, entry) THEN Abs(price - entry) ELSE 0

\* entry_stretch_r(...) > percent / 100: never for a plan without risk.
Overextended(side, entry, price, stop, percent) ==
    /\ entry # stop
    /\ 100 * Stretch(side, entry, price) > percent * Abs(entry - stop)

MaxEntryStretchPercent == 50    \* MAX_ENTRY_STRETCH_R

\* evaluate_live_entry_actionability, its reason: "waiting_confirmation" and
\* "confirmed" are the actionable ones.
LiveEntryDecision(style, side, entry, stop, invalidation, price) ==
    CASE InvalidationCrossed(side, price, invalidation) -> "invalidation_crossed"
      [] ~InvalidationCrossed(side, price, invalidation)
         /\ StopCrossed(side, price, stop) -> "stop_crossed"
      [] OTHER ->
           IF style = "signal_price"
           THEN IF EntryCrossed(side, price, entry)
                THEN "already_crossed_for_signal_price" ELSE "waiting_confirmation"
           ELSE IF ~EntryCrossed(side, price, entry) THEN "not_confirmed"
                ELSE IF Overextended(side, entry, price, stop, MaxEntryStretchPercent)
                     THEN "overextended_entry" ELSE "confirmed"

Actionable(decision) == decision \in {"waiting_confirmation", "confirmed"}

\* max for a LONG, min for a SHORT.
Tighter(side, a, b) == IF NoWorse(side, a, b) THEN a ELSE b

\* managed_stop_after_target: TP1 moves the stop to the entry, TP2 to TP1.
ManagedStopAfterTarget(side, stop, entry, tp1, label) ==
    CASE label = "TP1" -> Tighter(side, stop, entry)
      [] label = "TP2" -> Tighter(side, stop, tp1)
      [] OTHER -> stop
=============================================================================
