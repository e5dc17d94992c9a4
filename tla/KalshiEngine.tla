---------------------------- MODULE KalshiEngine ----------------------------
(***************************************************************************)
(* The analysis behind a 15-minute prediction: run_ew_15m_analysis and     *)
(* _select_actionable_scenario of services/kalshi_predictor.py.            *)
(*                                                                         *)
(* kalshi_engine/ is a copy of the analysis that shares no code with it,   *)
(* so that neither can alter the other's results.  At this commit the two  *)
(* are the same but for their imports, and E stands for both.  Each step   *)
(* of the copy is an operator here: a change to one of the two engines is  *)
(* a change of this module or of the other's.                              *)
(***************************************************************************)
EXTENDS Integers, Sequences

LOCAL E == INSTANCE Scenarios

-----------------------------------------------------------------------------
(* Patterns: the points of a window and the rules they are validated by    *)
Swings(pivots) == E!Swings(pivots)
FitsAbc(w) == E!FitsAbc(w)
FitsFlat(w) == E!FitsFlat(w)
FitsExpandedFlat(w) == E!FitsExpandedFlat(w)
FitsRunningFlat(w) == E!FitsRunningFlat(w)
FitsWxy(w) == E!FitsWxy(w)
FitsEndingDiagonal(w) == E!Contracting(w)
FitsLeadingDiagonal(w) == E!FitsLeadingDiagonal(w)
FitsContractingTriangle(w) == E!FitsContractingTriangle(w)
FitsExpandingTriangle(w) == E!FitsExpandingTriangle(w)
FitsBarrierTriangle(w) == E!FitsAscendingBarrier(w) \/ E!FitsDescendingBarrier(w)
FitsImpulse(w) == E!ImpulseHolds(w)
PatternValid(type, w) == E!PatternValid(type, w)

-----------------------------------------------------------------------------
(* Counts, their scores and the order they are preferred in                *)
Detected(pivots) == E!Detected(pivots)
WaveConfidence(type, w) == E!WaveConfidence(type, w)
IndicatorAdjustment(signals) == E!IndicatorAdjustment(signals)
IndicatorMultiplier(signals) == E!IndicatorMultiplier(signals)
SignalSets == E!SignalSets
WaveCounts(pivots, signals) == E!WaveCounts(pivots, signals)

-----------------------------------------------------------------------------
(* The wave that is being built                                            *)
PartialRules(w) == E!PartialRules(w)
ImpulseTargets(w) == E!ImpulseTargets(w)
TimeBonus(w) == E!TimeBonus(w)
PartialImpulse(w) == E!PartialImpulse(w)
CorrectiveTargets(w) == E!CorrectiveTargets(w)
PartialCorrective(w) == E!PartialCorrective(w)
FullImpulse(w) == E!FullImpulse(w)
WaveABegins(w) == E!WaveABegins(w)
WaveBBegins(w) == E!WaveBBegins(w)
SpreadCounts(pivots, direction, n, last) == E!SpreadCounts(pivots, direction, n, last)
WidestSpread(pivots, direction, n, last) == E!WidestSpread(pivots, direction, n, last)
SpreadWaveA(pivots, direction, last) == E!SpreadWaveA(pivots, direction, last)
SpreadWaveB(pivots, direction) == E!SpreadWaveB(pivots, direction)
FindSpread(pivots, direction) == E!FindSpread(pivots, direction)
InProgressWave(pivots) == E!InProgressWave(pivots)

-----------------------------------------------------------------------------
(* Levels, projection and scenarios                                        *)
KeyLevels(type, w) == E!KeyLevels(type, w)
AlignedTo(bias, k) == E!AlignedTo(bias, k)
PlanLevels(position, k) ==
    IF position.structure \in E!Correctives THEN AlignedTo(position.bias, k) ELSE k
CountsInPlay(counts, price) == E!CountsInPlay(counts, price)
LevelsAround(k, pivots, wave, price, atr) == E!LevelsAround(k, pivots, wave, price, atr)
Position(count, wave) == E!Position(count, wave)
Zones(pivots) == E!Zones(pivots)
TighterStop(bias, structural, entry, pivots, atr) == E!TighterStop(bias, structural, entry, pivots, atr)
DirectedTargets(bias, entry, targets, stop, k) == E!DirectedTargets(bias, entry, targets, stop, k)
CorrectiveProjection(bias, k, pivots, atr) == E!CorrectiveProjection(bias, k, pivots, atr)
TrendProjection(bias, k, pivots, atr) == E!TrendProjection(bias, k, pivots, atr)
Projection(position, k, pivots, atr) == E!Projection(position, k, pivots, atr)
CorrectiveScenarios(bias, k, projection, zones) == E!CorrectiveScenarios(bias, k, projection, zones)
TrendScenarios(bias, building, k, projection, zones) ==
    E!TrendScenarios(bias, building, k, projection, zones)
BreakoutScenarios(k, zones) == E!BreakoutScenarios(k, zones)
PlanScenarios(position, k, projection, zones) == E!PlanScenarios(position, k, projection, zones)
EarlyScenarios(wave, price) == E!EarlyScenarios(wave, price)
Merged(scenarios, wave, price) == E!Merged(scenarios, wave, price)
ScenarioScore(s, expected, zones, edge, pattern, pair) ==
    E!Score(s, expected, zones, edge, pattern, pair)
Prioritized(scenarios, expected, zones, edges, patterns, pair) ==
    E!Prioritized(scenarios, expected, zones, edges, patterns, pair)
NoEdge == E!NoEdge

-----------------------------------------------------------------------------
\* The scenarios of a report: those that past results let through, or else all
\* of them.  None of its trades are on this timeframe, so that there are no results.
Shown(scenarios, projection, zones) ==
    LET none == [i \in DOMAIN scenarios |-> NoEdge]
        Of(chosen) == IF chosen = <<>> THEN scenarios
                      ELSE [n \in DOMAIN chosen |-> scenarios[chosen[n]]]
    IN  Of(Prioritized(scenarios, projection.expected, zones, none, none, NoEdge))

\* run_ew_15m_analysis: the report's scenarios, or none where there is no count
EwScenarios(pivots, price, signals, atr) ==
    LET Planned(wave, position, levels, projection, zones) ==
            Shown(Merged(PlanScenarios(position, levels, projection, zones), wave, price),
                  projection, zones)
        Projected(wave, position, levels) ==
            Planned(wave, position, levels, Projection(position, levels, pivots, atr),
                    Zones(pivots))
        Positioned(count, wave, position) ==
            Projected(wave, position,
                      PlanLevels(position, LevelsAround(KeyLevels(count.type, count.w),
                                                        pivots, wave, price, atr)))
        Labelled(counts, wave) ==
            IF counts = <<>> THEN <<>>
            ELSE Positioned(counts[1], wave, Position(counts[1], wave))
    IN  Labelled(CountsInPlay(WaveCounts(pivots, signals), price), InProgressWave(pivots))

\* _select_actionable_scenario, and what make_prediction locks of it: of none, the
\* empty set.  Every scenario has a direction and a confirmation.
Actionable(scenarios) ==
    IF scenarios = <<>> THEN {}
    ELSE {[bias |-> E!Either(scenarios[1].bias, "BULLISH", "BEARISH"),
           confirmation |-> scenarios[1].entry]}
=============================================================================
