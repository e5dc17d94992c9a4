--------------------------- MODULE TradeSimulation ---------------------------
(***************************************************************************)
(* One trade replayed over the bars that follow its analysis, by the two   *)
(* simulators of the backtests: simulate_trade_lifecycle                   *)
(* (analysis/portfolio_backtest.py), which takes the trade off at three    *)
(* targets and trails its stop, and simulate_trade_from_setup              *)
(* (analysis/trade_backtest.py), which plays for one target.  Both trigger *)
(* and enter by the same code.  Fees and slippage are left out; sizes are  *)
(* in tenths of the position, so that a P&L is in tenths of a tick.        *)
(***************************************************************************)
EXTENDS TradeManagement

CONSTANTS
    BarPrices,      \* the prices a bar is made of
    Setups,         \* the setups simulated: side, entry, stop, targets
    TimeLimit,      \* TIME_STOP_BARS of the timeframe
    MaxBars         \* bound: bars of a trade after the entry bar

ASSUME SimulationAssumption ==
    /\ BarPrices \subseteq Int
    /\ \A s \in Setups :
          /\ s.side \in Sides
          /\ {s.entry, s.stop} \subseteq Int
          /\ s.targets \in Seq(Int)
          /\ Len(s.targets) \in 1..3
    /\ TimeLimit \in Nat
    /\ MaxBars \in Nat

VARIABLES
    setup,
    phase,      \* of the trade: "waiting", "triggered", "open", "over"
    fake,       \* the bar that closed through the entry looks fake
    age,        \* bars since the entry bar
    life,       \* simulate_trade_lifecycle
    single,     \* simulate_trade_from_setup, playing for TP1
    tied        \* history: a bar touched the stop and TP1 while both were open

simVars == <<setup, phase, fake, age, life, single, tied>>

-----------------------------------------------------------------------------
Bars == {b \in [open : BarPrices, high : BarPrices, low : BarPrices, close : BarPrices] :
            /\ b.low <= b.open /\ b.open <= b.high
            /\ b.low <= b.close /\ b.close <= b.high}

Side == setup.side

Target(i) == setup.targets[i]

\* The best and the worst price of a bar for the side
Best(bar) == IF Side = "LONG" THEN bar.high ELSE bar.low
Worst(bar) == IF Side = "LONG" THEN bar.low ELSE bar.high

BarHitsTarget(bar, target) == TargetCrossed(Side, Best(bar), target)

BarHitsStop(bar, stop) == StopCrossed(Side, Worst(bar), stop)

\* _net_pnl_per_unit without fees
Gain(fill, price) == IF Side = "LONG" THEN price - fill ELSE fill - price

\* tp_allocations: what is left once the first n targets are taken
SizeLeft(n) == CASE n = 0 -> 10 [] n = 1 -> 6 [] n = 2 -> 3 [] OTHER -> 0

TargetSize(i) == SizeLeft(i - 1) - SizeLeft(i)

\* trigger_candle_looks_fake
LooksFake(bar) ==
    LET range == bar.high - bar.low
        top == IF bar.open > bar.close THEN bar.open ELSE bar.close
        bottom == IF bar.open > bar.close THEN bar.close ELSE bar.open
        wick == IF Side = "LONG" THEN bar.high - top ELSE bottom - bar.low
    IN  /\ range > 0
        /\ 100 * wick >= 45 * range
        /\ 100 * (top - bottom) <= 35 * range

\* volatility_spike_against_position; wide: the range is 2.2 ATR or more
SpikesAgainst(bar, wide, fill) == wide /\ ~NoWorse(Side, bar.close, fill)

-----------------------------------------------------------------------------
(* The lifecycle: fill is effective_entry, hits the targets taken, stop    *)
(* the trailed one, pnl the P&L so far, exitAge the age at the last fill,  *)
(* firstHit the age at TP1.                                                *)
FreshLife(fill) == [at |-> "open", fill |-> fill, hits |-> 0, stop |-> setup.stop, pnl |-> 0,
                    outcome |-> "NONE", exitAge |-> -1, firstHit |-> -1]

Exited(l, outcome, price, bar) ==
    [l EXCEPT !.at = "done", !.outcome = outcome, !.exitAge = bar,
              !.pnl = @ + SizeLeft(l.hits) * Gain(l.fill, price)]

\* What the i-th target brings if it is among those from the trade's next to the n-th
Taking(l, i, n) ==
    IF i \in l.hits + 1..n THEN TargetSize(i) * Gain(l.fill, Target(i)) ELSE 0

\* A fill of every target up to the n-th
TakeTargets(l, n, bar) ==
    [l EXCEPT !.hits = n, !.exitAge = bar,
              !.firstHit = IF l.hits = 0 THEN bar ELSE @,
              !.pnl = @ + Taking(l, 1, n) + Taking(l, 2, n) + Taking(l, 3, n)]

\* Mutant of Trailed: the stop stays where it was.
TrailedNever(l, n) == l.stop

\* managed_stop_after_target, for each target just taken
Trailed(l, n) ==
    LET first == IF l.hits < 1 /\ n >= 1
                 THEN ManagedStopAfterTarget(Side, l.stop, l.fill, Target(1), "TP1") ELSE l.stop
    IN  IF l.hits < 2 /\ n >= 2
        THEN ManagedStopAfterTarget(Side, first, l.fill, Target(1), "TP2") ELSE first

\* TP3_HIT unless it lost money
AllTaken(l) ==
    [l EXCEPT !.at = "done", !.outcome = IF l.pnl <= 0 THEN "STOP_LOSS" ELSE "TP3_HIT"]

StoppedOut(l, bar) ==
    Exited(l, IF l.hits > 0 THEN "PARTIAL_STOPPED" ELSE "STOP_LOSS", l.stop, bar)

\* The bar touches the stop and the next target: the one nearer to the open
\* comes first, the stop if they are as near; the rest leaves at the stop.
LifeTie(l, bar, n) ==
    IF Abs(bar.open - Target(l.hits + 1)) < Abs(bar.open - l.stop)
    THEN LET hit == TakeTargets(l, l.hits + 1, n)
         IN  IF SizeLeft(hit.hits) = 0 THEN AllTaken(hit) ELSE StoppedOut(hit, n)
    ELSE StoppedOut(l, n)

\* How many targets are taken once this bar has been through them in turn
TargetsReached(l, bar) ==
    CHOOSE n \in l.hits..Len(setup.targets) :
        /\ \A i \in l.hits + 1..n : BarHitsTarget(bar, Target(i))
        /\ n < Len(setup.targets) => ~BarHitsTarget(bar, Target(n + 1))

\* A bar that does not touch the stop
LifeRuns(l, bar, wide, n) ==
    LET reached == TargetsReached(l, bar)
        hit == IF reached = l.hits THEN l
               ELSE [TakeTargets(l, reached, n) EXCEPT !.stop = Trailed(l, reached)]
    IN  IF SizeLeft(reached) = 0 THEN AllTaken(hit)
        ELSE IF reached = 0 /\ n >= TimeLimit THEN Exited(hit, "TIME_STOP", bar.close, n)
        ELSE IF SpikesAgainst(bar, wide, l.fill) THEN Exited(hit, "PROTECTIVE_EXIT", bar.close, n)
        ELSE hit

LifeBar(l, bar, wide, n) ==
    IF l.at = "done" THEN l
    ELSE IF ~BarHitsStop(bar, l.stop) THEN LifeRuns(l, bar, wide, n)
    ELSE IF l.hits < Len(setup.targets) /\ BarHitsTarget(bar, Target(l.hits + 1))
         THEN LifeTie(l, bar, n)
    ELSE StoppedOut(l, n)

\* The data ends: what is left of a trade that took a target counts for nothing.
LifeEnds(l) ==
    IF l.at = "done" THEN l
    ELSE [l EXCEPT !.at = "done", !.outcome = IF l.hits > 0 THEN "PARTIAL_STOPPED" ELSE "OPEN"]

-----------------------------------------------------------------------------
FreshSingle(fill) ==
    [at |-> "open", fill |-> fill, pnl |-> 0, outcome |-> "NONE", exitAge |-> -1]

SingleExit(s, outcome, price, n) ==
    [s EXCEPT !.at = "done", !.pnl = Gain(s.fill, price), !.outcome = outcome, !.exitAge = n]

\* Mutant of SingleTimeIsUp: one bar later.
SingleTimeIsUpLate(n) == n > TimeLimit

SingleTimeIsUp(n) == n >= TimeLimit

SingleBar(s, bar, wide, n) ==
    IF s.at = "done" THEN s
    ELSE IF BarHitsStop(bar, setup.stop) THEN SingleExit(s, "STOP_LOSS", setup.stop, n)
    ELSE IF BarHitsTarget(bar, Target(1)) THEN SingleExit(s, "TP1", Target(1), n)
    ELSE IF SingleTimeIsUp(n) THEN SingleExit(s, "TIME_STOP", bar.close, n)
    ELSE IF SpikesAgainst(bar, wide, s.fill) THEN SingleExit(s, "PROTECTIVE_EXIT", bar.close, n)
    ELSE s

SingleEnds(s) == IF s.at = "done" THEN s ELSE [s EXCEPT !.at = "done", !.outcome = "OPEN"]

-----------------------------------------------------------------------------
\* A bar closes through the entry.
Triggers(bar) ==
    /\ phase = "waiting"
    /\ EntryCrossed(Side, bar.close, setup.entry)
    /\ phase' = "triggered"
    /\ fake' = LooksFake(bar)
    /\ UNCHANGED <<setup, age, life, single, tied>>

\* evaluate_entry_guardrails, and a trade without risk
Refusal(open) ==
    IF fake THEN "FAKEOUT_TRIGGER"
    ELSE IF Overextended(Side, setup.entry, open, setup.stop, MaxEntryStretchPercent)
         THEN "OVEREXTENDED_ENTRY"
    ELSE IF open = setup.stop THEN "INVALID"
    ELSE "NONE"

\* The next bar opens and a guard refuses the entry.
EntryRefused(bar) ==
    /\ phase = "triggered"
    /\ Refusal(bar.open) # "NONE"
    /\ phase' = "over"
    /\ life' = [life EXCEPT !.at = "done", !.outcome = Refusal(bar.open)]
    /\ single' = [single EXCEPT !.at = "done", !.outcome = Refusal(bar.open)]
    /\ UNCHANGED <<setup, fake, age, tied>>

\* Mutant of GapsThrough: only the later bars look at the stop.
GapsThroughNever(open) == FALSE

\* stop_gap_hit
GapsThrough(open) == StopCrossed(Side, open, setup.stop)

\* The next bar opens and the trade is entered at its open.  A gap through the
\* stop ends both trades at once, a gap through the target the single one.
Enters(bar, wide) ==
    LET l == FreshLife(bar.open)
        s == FreshSingle(bar.open)
    IN  /\ phase = "triggered"
        /\ Refusal(bar.open) = "NONE"
        /\ phase' = "open"
        /\ IF GapsThrough(bar.open)
           THEN /\ life' = Exited(l, "STOP_LOSS", bar.open, 0)
                /\ single' = SingleExit(s, "STOP_LOSS", bar.open, 0)
                /\ UNCHANGED tied
           ELSE /\ life' = LifeBar(l, bar, wide, 0)
                /\ single' = IF TargetCrossed(Side, bar.open, Target(1))
                             THEN SingleExit(s, "TP1", bar.open, 0)
                             ELSE SingleBar(s, bar, wide, 0)
                /\ tied' = (BarHitsStop(bar, setup.stop) /\ BarHitsTarget(bar, Target(1)))
        /\ age' = 0
        /\ UNCHANGED <<setup, fake>>

\* One more bar of an open trade
Runs(bar, wide) ==
    /\ phase = "open"
    /\ life.at = "open" \/ single.at = "open"
    /\ age < MaxBars
    /\ age' = age + 1
    /\ life' = LifeBar(life, bar, wide, age + 1)
    /\ single' = SingleBar(single, bar, wide, age + 1)
    /\ tied' = (\/ tied
                \/ single.at = "open" /\ BarHitsStop(bar, setup.stop)
                   /\ BarHitsTarget(bar, Target(1)))
    /\ UNCHANGED <<setup, phase, fake>>

\* The data ends: a trade that has not been entered by then never triggered.
DataEnds ==
    /\ phase # "over"
    /\ phase' = "over"
    /\ life' = IF phase = "open" THEN LifeEnds(life)
               ELSE [life EXCEPT !.at = "done", !.outcome = "NO_TRIGGER"]
    /\ single' = IF phase = "open" THEN SingleEnds(single)
                 ELSE [single EXCEPT !.at = "done", !.outcome = "NO_TRIGGER"]
    /\ UNCHANGED <<setup, fake, age, tied>>

-----------------------------------------------------------------------------
SimInit ==
    /\ setup \in Setups
    /\ phase = "waiting"
    /\ fake = FALSE
    /\ age = 0
    /\ life = FreshLife(setup.entry)
    /\ single = FreshSingle(setup.entry)
    /\ tied = FALSE

SimNext ==
    \/ \E bar \in Bars : Triggers(bar) \/ EntryRefused(bar)
    \/ \E bar \in Bars, wide \in BOOLEAN : Enters(bar, wide) \/ Runs(bar, wide)
    \/ DataEnds

SimSpec == SimInit /\ [][SimNext]_simVars

-----------------------------------------------------------------------------
Entered == phase \in {"open", "over"} /\ life.exitAge >= 0

Risk == Abs(life.fill - setup.stop)

(* What a trade can lose shrinks as it goes: a stop costs at most what was *)
(* risked at the fill (the cap at three times the risk is never needed     *)
(* where prices trade without fees) and never gains before a target, and   *)
(* once a bar has closed with TP1 taken, no later bar turns the trade into *)
(* a loss, unless a target it took was behind the fill from the start.     *)
LossOnlyShrinks ==
    /\ life.outcome = "STOP_LOSS" /\ life.hits = 0 => life.pnl <= 0
    /\ life.pnl >= -10 * Risk
    /\ (/\ life.at = "done" /\ life.hits > 0 /\ life.exitAge > life.firstHit
        /\ \A i \in 1..life.hits : NoWorse(Side, Target(i), life.fill)) => life.pnl >= 0

(* The two simulators tell the same story of the same bars up to TP1,      *)
(* unless one bar touched the stop and TP1, which they read differently on *)
(* purpose, or the trade was entered past TP1.                             *)
SimulatorsAgree ==
    life.at = "done" /\ single.at = "done" /\ Entered /\ ~tied
        /\ ~TargetCrossed(Side, life.fill, Target(1))
    => IF life.hits > 0 THEN single.outcome = "TP1" /\ single.exitAge = life.firstHit
       ELSE /\ single.outcome = life.outcome
            /\ single.exitAge = life.exitAge
            /\ 10 * single.pnl = life.pnl
=============================================================================
