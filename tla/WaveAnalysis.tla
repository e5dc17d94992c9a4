---------------------------- MODULE WaveAnalysis ----------------------------
(***************************************************************************)
(* The analysis engine (build_dataframe_analysis of src/core/engine.py)    *)
(* over a growing chart.  The chart is the list of pivots detect_pivots    *)
(* has found, highs and lows that need not alternate and two of which may  *)
(* share a bar.  An analysis reads it with the price, the ATR and the      *)
(* indicator signals of the moment, counts the waves and plans scenarios;  *)
(* the results of past trades then decide which of them may be traded.     *)
(***************************************************************************)
EXTENDS Scenarios

CONSTANTS
    StartPrice,     \* of the first pivot, in cents
    LegLengths,     \* bound: how far apart two pivots are, in cents
    BarGaps,        \* bound: and in bars
    MaxPivots,      \* bound: pivots of a chart, an odd one counting for three
    Drifts,         \* bound: how far the price has come back from the last pivot
    Atr,            \* the average true range, in cents
    IndicatorSignals, \* bound: the indicator signals of the two directions
    Histories       \* bound: results of past trades

ASSUME AnalysisAssumption ==
    /\ StartPrice \in Nat \ {0}
    /\ LegLengths \subseteq Nat \ {0}
    /\ BarGaps \subseteq Nat \ {0}
    /\ MaxPivots \in Nat
    /\ Drifts \subseteq Int
    /\ Atr \in Nat
    /\ IndicatorSignals \subseteq [Directions -> SignalSets]
    /\ Histories \subseteq [own : [Directions -> Edges], pattern : [Directions -> Edges],
                            pair : Edges]

VARIABLES
    chart,      \* the pivots, oldest first
    report,     \* the last analysis
    history,    \* the edges its scenarios were held against
    execution   \* execution_scenarios

analysisVars == <<chart, report, history, execution>>

-----------------------------------------------------------------------------
NoReport == [found |-> FALSE]

NoHistory == [own |-> [d \in Directions |-> NoEdge],
              pattern |-> [d \in Directions |-> NoEdge], pair |-> NoEdge]

Pivot(type, price, bar) == [type |-> type, price |-> price, bar |-> bar]

OtherType(type) == IF type = "H" THEN "L" ELSE "H"

\* A high that is not above the low before it, or a low not below the high
Crosses(later, earlier) ==
    later.type # earlier.type /\ (later.price > earlier.price <=> later.type = "L")

\* Pivots of the type of the one before, on its bar or across it
OddPivots(pivots) ==
    {i \in 2..Len(pivots) : \/ pivots[i].type = pivots[i - 1].type
                            \/ pivots[i].bar = pivots[i - 1].bar
                            \/ Crosses(pivots[i], pivots[i - 1])}

\* build_dataframe_analysis up to the scenarios, one step on the results of those
\* before it
Analysis(pivots, price, signals) ==
    LET Reported(counts, wave, position, levels, projection, zones) ==
            [found |-> TRUE, price |-> price, count |-> counts[1], wave |-> wave,
             bias |-> SummaryBias(counts), position |-> position, levels |-> levels,
             projection |-> projection, zones |-> zones,
             scenarios |-> Merged(PlanScenarios(position, levels, projection, zones),
                                  wave, price)]
        Projected(counts, wave, position, levels) ==
            Reported(counts, wave, position, levels,
                     Projection(position, levels, pivots, Atr), Zones(pivots))
        Positioned(counts, wave, position) ==
            Projected(counts, wave, position,
                      PlanLevels(position, LevelsAround(KeyLevels(counts[1].type, counts[1].w),
                                                        pivots, wave, price, Atr)))
        Labelled(counts, wave) ==
            IF counts = <<>> THEN NoReport
            ELSE Positioned(counts, wave, Position(counts[1], wave))
    IN  Labelled(CountsInPlay(WaveCounts(pivots, signals), price), InProgressWave(pivots))

-----------------------------------------------------------------------------
\* A candle confirms a pivot.  A high is mostly above the low before it, but a market
\* that gaps or an outside bar can leave it below.
NewPivot ==
    \E length \in LegLengths, gap \in BarGaps \cup {0}, same \in BOOLEAN, up \in BOOLEAN :
      LET last == Last(chart)
          type == IF same THEN last.type ELSE OtherType(last.type)
      IN  \* A bar that has both names its high first.
          /\ gap = 0 => last.type = "H" /\ ~same /\ ~up
          /\ chart' = Append(chart, Pivot(type, last.price + (IF up THEN length ELSE -length),
                                          last.bar + gap))
          /\ Len(chart') + 2 * Cardinality(OddPivots(chart')) <= MaxPivots
          /\ report' = NoReport
          /\ history' = NoHistory
          /\ execution' = <<>>

\* The engine runs on the chart as it is.
Analyse ==
    \E drift \in Drifts, signals \in IndicatorSignals :
      LET last == Last(chart)
          price == IF last.type = "H" THEN last.price - drift ELSE last.price + drift
      IN  /\ report = NoReport
          /\ Len(chart) >= 3
          /\ report' = Analysis(chart, price, signals)
          /\ report'.found
          /\ UNCHANGED <<chart, history, execution>>

\* The scenarios are held against the results of past trades.
Prioritise ==
    \E past \in Histories :
      LET scenarios == report.scenarios
      IN  /\ report.found
          /\ history = NoHistory
          /\ history' = past
          /\ execution' =
                 Prioritized([i \in DOMAIN scenarios |-> scenarios[i]],
                             report.projection.expected, report.zones,
                             [i \in DOMAIN scenarios |-> past.own[scenarios[i].bias]],
                             [i \in DOMAIN scenarios |-> past.pattern[scenarios[i].bias]],
                             past.pair)
          /\ UNCHANGED <<chart, report>>

AnalysisInit ==
    /\ \E type \in {"H", "L"} : chart = <<Pivot(type, StartPrice, 0)>>
    /\ report = NoReport
    /\ history = NoHistory
    /\ execution = <<>>

AnalysisNext == NewPivot \/ Analyse \/ Prioritise

AnalysisSpec == AnalysisInit /\ [][AnalysisNext]_analysisVars

-----------------------------------------------------------------------------
(* Whatever the chart and the price, every scenario the analysis hands on  *)
(* can be traded: its stop is on the losing side of its entry and all of   *)
(* its targets are on the winning side.  Levels are rebuilt, aligned to    *)
(* another bias and moved into zones on the way to it (_sanitize_scenarios *)
(* promises it; early entries do not pass through that).                   *)
ScenariosTradeable ==
    report.found =>
        \A i \in DOMAIN report.scenarios :
            LET s == report.scenarios[i] IN
                /\ Further(s.bias, s.entry, s.stop)
                /\ s.targets # <<>>
                /\ \A t \in DOMAIN s.targets : Further(s.bias, s.targets[t], s.entry)

(* The two sides of a plan do not overlap: no price is past the entry of   *)
(* its bullish scenario and past that of its bearish one, although each    *)
(* entry is moved into a Fibonacci zone of its own.  (An early entry that  *)
(* is merged in later can be past the other side's.)                       *)
EntriesApart ==
    report.found =>
        \A i, j \in DOMAIN report.scenarios :
            LET up == report.scenarios[i]
                down == report.scenarios[j]
            IN  /\ up.bias = "bullish" /\ down.bias = "bearish"
                /\ "InProgress Wave" \notin {up.name, down.name}
                => down.entry <= up.entry

(* The summary is built from the counts the primary pattern was taken      *)
(* from, so that its bias always matches the direction of that pattern     *)
(* (the comment of build_dataframe_analysis), although the summary may     *)
(* prefer the second count to the first.                                   *)
SummaryAgrees ==
    report.found /\ report.bias # "none" => report.bias = report.count.direction

(* A scenario that has lost in three trades or more is not executed        *)
(* whatever its pattern or its symbol has earned, not even where nothing   *)
(* else is left to trade.                                                  *)
NoLoserExecuted ==
    \A i \in DOMAIN execution :
        LET edge == history.own[report.scenarios[execution[i]].bias]
        IN  ~(edge.n >= 3 /\ edge.r <= -80)

(* The direction an early entry is taken in is that of the wave being      *)
(* built (the docstring of current_wave_direction): away from the pivot    *)
(* the wave starts at, down from a high and up from a low.                 *)
BuiltWaveLeavesItsStart ==
    report.found /\ report.wave # NoWave =>
        (report.wave.building = "bearish" <=> Last(report.wave.pivots).type = "H")
=============================================================================
