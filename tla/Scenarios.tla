------------------------------ MODULE Scenarios ------------------------------
(***************************************************************************)
(* The scenarios of a count (src/scenarios/scenario_engine.py): what may   *)
(* be traded, at which entry, with which stop and targets, and which of    *)
(* them past results let through (prioritize_scenarios, with the edges of  *)
(* src/storage/experience_store.py).  A scenario is [name, bias, entry,    *)
(* stop, invalidation, targets]; entry is its confirmation.                *)
(***************************************************************************)
EXTENDS WaveLevels, Confluence

Scenario(name, bias, entry, stop, invalidation, targets) ==
    [name |-> name, bias |-> bias, entry |-> entry, stop |-> stop,
     invalidation |-> invalidation, targets |-> targets]

Gap(scenario) == Length(scenario.entry - scenario.stop)

\* _filter_targets
WinningTargets(bias, entry, targets) ==
    Picked(targets, {i \in DOMAIN targets : Further(bias, targets[i], entry)})

\* Targets at multiples of the risk, in thousandths
RiskTargets(bias, entry, stop, multiples) ==
    [i \in DOMAIN multiples |->
        entry + Either(bias, 1, -1) * Times(multiples[i], Length(entry - stop))]

\* _build_alternate_targets
AlternateTargets(bias, entry, stop) ==
    IF entry = stop THEN <<>> ELSE RiskTargets(bias, entry, stop, <<1000, 1272, 1618>>)

\* _aligned_targets_or_fallback
AlignedTargets(bias, entry, stop, targets) ==
    LET winning == WinningTargets(bias, entry, targets)
    IN  IF winning # <<>> THEN winning ELSE AlternateTargets(bias, entry, stop)

\* _build_targets
Distinct(targets) ==
    Picked(targets, {i \in DOMAIN targets : i = 1 \/ targets[i] # targets[i - 1]})

\* Mutant of LosingStop: a stop on the wrong side is left there.
AnyStop(bias, entry, stop, k) == stop

\* _ensure_sl_direction
LosingStop(bias, entry, stop, k) ==
    LET level == Either(bias, k.support, k.resistance)
    IN  IF Further(bias, entry, stop) THEN stop
        ELSE IF level # NoPrice /\ Further(bias, entry, level)
        THEN Times(Either(bias, 995, 1005), level)
        ELSE Times(Either(bias, 970, 1030), entry)

\* _fill_missing_targets
Filled(bias, entry, stop, targets) ==
    IF entry = stop THEN targets
    ELSE [i \in 1..3 |-> IF i <= Len(targets) THEN targets[i]
                         ELSE RiskTargets(bias, entry, stop, <<1000, 2000, 3000>>)[i]]

\* _sanitize_scenarios, of one scenario
Sanitized(s, k) ==
    LET stop == LosingStop(s.bias, s.entry, s.stop, k)
        winning == WinningTargets(s.bias, s.entry, s.targets)
    IN  [s EXCEPT !.stop = stop,
                  !.targets = IF winning = <<>> THEN <<>>
                              ELSE Filled(s.bias, s.entry, stop, winning)]

AllSanitized(scenarios, k) ==
    LET all == [i \in DOMAIN scenarios |-> Sanitized(scenarios[i], k)]
    IN  Picked(all, {i \in DOMAIN all : all[i].targets # <<>>})

-----------------------------------------------------------------------------
MainName(bias) == Either(bias, "Main Bullish", "Main Bearish")

\* generate_scenarios of a correction: on in its bias, or against it if the last
\* leg does not hold
CorrectiveScenarios(bias, k, projection, zones) ==
    LET entry == Refined(projection.confirmation, zones)
        against == Opposite(bias)
        last == IF k.c # NoPrice THEN k.c ELSE Either(bias, k.support, k.resistance)
        other == Refined(last, zones)
    IN  << Scenario(MainName(bias), bias, entry, projection.stop, projection.invalidation,
                    AlignedTargets(bias, entry, projection.stop, Distinct(projection.targets))),
           Scenario(Either(bias, "Alternate Bearish", "Alternate Bullish"), against, other,
                    projection.confirmation, projection.confirmation,
                    AlternateTargets(against, other, projection.confirmation)) >>

\* generate_scenarios of a trend: on with it while a wave is being built, and the
\* correction after it
TrendScenarios(bias, building, k, projection, zones) ==
    LET entry == Refined(projection.confirmation, zones)
        against == Opposite(bias)
        stop == LosingStop(against, entry, projection.stop, k)
        targets == Distinct(projection.targets)
        onward == Scenario(MainName(bias), bias, entry, projection.stop,
                           projection.invalidation,
                           AlignedTargets(bias, entry, projection.stop, targets))
        back == Scenario(Either(bias, "Main Corrective Pullback", "Main Corrective Rebound"),
                         against, entry, stop, projection.invalidation,
                         AlignedTargets(against, entry, stop, targets))
    IN  (IF building THEN <<onward>> ELSE <<>>)
        \o (IF back.targets # <<>> THEN <<back>> ELSE <<>>)

\* generate_scenarios of a triangle: out of it on either side
BreakoutScenarios(k, zones) ==
    LET range == k.resistance - k.support
        Out(level, sign) == [i \in 1..3 |-> level + sign * Times(<<1000, 1618, 2618>>[i], range)]
    IN  << Scenario("Bullish Breakout", "bullish", Refined(k.resistance, zones), k.support,
                    k.support, Out(k.resistance, 1)),
           Scenario("Bearish Breakdown", "bearish", Refined(k.support, zones), k.resistance,
                    k.resistance, Out(k.support, -1)) >>

\* generate_scenarios.  A position that is neutral is that of a triangle.
PlanScenarios(position, k, projection, zones) ==
    AllSanitized(
        CASE position.structure \in Triangles -> BreakoutScenarios(k, zones)
          [] position.structure \in Correctives ->
                 CorrectiveScenarios(position.bias, k, projection, zones)
          [] OTHER -> TrendScenarios(position.bias, position.building, k, projection, zones),
        k)

-----------------------------------------------------------------------------
\* _sorted_unique_levels, in the order of the bias
InOrder(bias, prices) == Ordered(prices, LAMBDA x, y : Further(bias, y, x))

\* _select_inprogress_stop: the nearest level behind the entry
NearestStop(bias, entry, levels) ==
    LET behind == {x \in levels : Further(bias, entry, x)}
    IN  IF behind = {} THEN Times(Either(bias, 970, 1030), entry) ELSE Foremost(bias, behind)

\* generate_inprogress_scenarios: an early entry into the wave that is being built
EarlyScenarios(wave, price) ==
    LET bias == wave.building
        targets == {wave.targets[i] : i \in DOMAIN wave.targets}
        ahead == {x \in targets \cup {wave.start} : Further(bias, x, price)}
        entry == Rearmost(bias, ahead)
        stop == NearestStop(bias, entry, targets \cup {price, wave.start, wave.invalidation})
        onward == InOrder(bias, {t \in targets : Further(bias, t, entry)})
        invalidation == IF Further(bias, entry, wave.invalidation) THEN wave.invalidation
                        ELSE stop
    IN  IF targets = {} \/ ahead = {} THEN <<>>
        ELSE << Scenario("InProgress Wave", bias, entry, stop, invalidation,
                         IF onward # <<>> THEN onward
                         ELSE AlternateTargets(bias, entry, stop)) >>

\* build_dataframe_analysis: an early entry is added where its bias is a new one.
Merged(scenarios, wave, price) ==
    LET early == IF wave = NoWave \/ wave.confidence < 450 THEN <<>>
                 ELSE EarlyScenarios(wave, price)
        biases == {scenarios[i].bias : i \in DOMAIN scenarios}
    IN  scenarios \o Picked(early, {i \in DOMAIN early : early[i].bias \notin biases})

-----------------------------------------------------------------------------
(* What past trades say of a scenario, of its pattern and of its symbol    *)
(* and timeframe: [n, r, win], the trades, their mean R and their share of *)
(* wins in thousandths; n is 0 where there is no record.                   *)
\* Trades, mean R and wins of what was tried
Edges == [n : Nat, r : Int, win : Int]

NoEdge == [n |-> 0, r |-> 0, win |-> 0]

Winning(edge) == edge.n >= 2 /\ edge.r >= 120 /\ edge.win >= 500

Losing(edge) == edge.n >= 3 /\ edge.r <= -350 /\ edge.win <= 340

BadlyLosing(edge) == edge.n >= 3 /\ edge.r <= -600 /\ edge.win <= 200

\* _edge_is_positive_candidate
Positive(edge, samples, r) == edge.n >= samples /\ (edge.r >= r \/ Winning(edge))

\* _edge_is_prunable_negative
Prunable(edge, samples) == edge.n >= samples /\ (edge.r <= -80 \/ Losing(edge) \/ BadlyLosing(edge))

\* _pair_edge_is_positive and, on the four-hour timeframe, _pair_edge_is_prunable
PairPositive(edge) == edge.n >= 8 /\ (edge.r >= 30 \/ edge.win >= 540)

PairPrunable(edge) == edge.n >= 50 /\ edge.r <= -20 /\ edge.win <= 460

\* _scenario_expected_rr
ExpectedReward(s) ==
    LET Part(i) == IF i <= Len(s.targets)
                   THEN <<4, 3, 3>>[i] * Length(s.targets[i] - s.entry) ELSE 0
    IN  IF Gap(s) = 0 THEN 0
        ELSE Min({3000, (100 * (Part(1) + Part(2) + Part(3))) \div Gap(s)})

\* _scenario_micro_risk_penalty
MicroRisk(s) ==
    CASE 1000 * Gap(s) < s.entry -> -1250
      [] 1000 * Gap(s) < 3 * s.entry -> -650
      [] 1000 * Gap(s) < 6 * s.entry -> -250
      [] OTHER -> 0

\* _experience_edge_score, scaled
EdgeScore(edge, scale) ==
    LET weight == Max({350, 125 * Min({edge.n, 8})})
        score == (((900 * edge.r + 1200 * (edge.win - 500)) \div 1000) * weight) \div 1000
                 + Points(Winning(edge), 700) - Points(Losing(edge), 500)
                 - Points(BadlyLosing(edge), 900)
    IN  IF edge.n = 0 THEN 0 ELSE (score * scale) \div 1000

\* _scenario_primary_preference_score
Preference(name) ==
    CASE name \in {"Main Bullish", "Main Bearish", "Main Corrective Pullback",
                   "Main Corrective Rebound"} -> 350
      [] name \in {"Alternate Bullish", "Alternate Bearish"} -> -100
      [] OTHER -> 0

\* The score of a scenario, in thousandths; zones are those of
\* Confluence.tla
Score(s, expected, zones, edge, pattern, pair) ==
    (35 * ExpectedReward(s)) \div 100
    + Points(expected = s.bias, 350)
    + ZoneScore(s.entry, zones) \div 2
    + EdgeScore(edge, 1000) + EdgeScore(pattern, 450) + EdgeScore(pair, 700)
    + Preference(s.name) + MicroRisk(s)

\* Mutant of HasHistory: four trades of a scenario are asked for.
HasHistoryLate(edge, pattern, pair) == edge.n >= 4 \/ pattern.n >= 4 \/ pair.n >= 12

\* _edge_has_history of one of the three
HasHistory(edge, pattern, pair) == edge.n >= 3 \/ pattern.n >= 4 \/ pair.n >= 12

\* prioritize_scenarios: edges and patterns are functions of the scenarios' indices.
\* First those of which past results speak well; else those of which they do not
\* speak ill; else none if there are past results, and all that do not lose badly
\* if there are not.
Prioritized(scenarios, expected, zones, edges, patterns, pair) ==
    LET all == DOMAIN scenarios
        score == [i \in all |-> Score(scenarios[i], expected, zones, edges[i], patterns[i], pair)]
        severe == {i \in all : BadlyLosing(edges[i]) /\ ExpectedReward(scenarios[i]) < 1200}
        good == {i \in all : Positive(edges[i], 2, 20)}
        goodPattern == {i \in all : Positive(patterns[i], 4, 50)}
        bad == {i \in all : Prunable(edges[i], 3)}
        badPattern == {i \in all : Prunable(patterns[i], 5)}
        positive == good \cup (goodPattern \ bad)
                    \cup (IF PairPositive(pair) THEN all \ (bad \cup badPattern) ELSE {})
        neutral == (all \ (bad \cup badPattern))
                   \ (IF PairPrunable(pair) THEN all \ (good \cup goodPattern) ELSE {})
        known == {i \in all : HasHistory(edges[i], patterns[i], pair)}
        Before(i, j) ==
            LET Key(x) == << IF x \in severe THEN 0 ELSE 1, score[x],
                             ExpectedReward(scenarios[x]), -x >>
            IN  \E n \in 1..4 : Key(i)[n] > Key(j)[n] /\ \A m \in 1..n - 1 : Key(i)[m] = Key(j)[m]
        chosen == IF positive \ severe # {} THEN positive \ severe
                  ELSE IF neutral \ severe # {} THEN neutral \ severe
                  ELSE IF known # {} THEN {}
                  ELSE IF all \ severe # {} THEN all \ severe
                  ELSE {i \in all : \A j \in all : i = j \/ Before(i, j)}
    IN  Ordered(chosen, Before)
=============================================================================
