----------------------------- MODULE WaveLevels -----------------------------
(***************************************************************************)
(* From the chosen count to the levels of a plan: key_levels,              *)
(* wave_position, fibonacci_engine and future_projection of src/analysis,  *)
(* and the part of build_dataframe_analysis (src/core/engine.py) that      *)
(* chooses the count and rebuilds levels the price has left.  Every level  *)
(* is set but the end and the B and C levels of rebuilt ones, which are    *)
(* NoPrice (None); the code takes 0 and None for the same.                 *)
(***************************************************************************)
EXTENDS WaveScores, InProgressWaves

NoPrice == 0

Correctives == {"ABC_CORRECTION", "CORRECTION", "WXY"} \cup Flats

\* A level by its bias: the first if it is bullish
Either(bias, up, down) == IF bias = "bullish" THEN up ELSE down

\* Is price x further on than y in the direction?
Further(bias, x, y) == IF bias = "bullish" THEN x > y ELSE x < y

\* The one of a set that is furthest back for the bias, and furthest on
Rearmost(bias, prices) == Either(bias, Min(prices), Max(prices))
Foremost(bias, prices) == Either(bias, Max(prices), Min(prices))

-----------------------------------------------------------------------------
\* _make_corrective_key_levels
CorrectiveLevels(bias, start, b, c) ==
    [support |-> Min({b, c}), resistance |-> Max({b, c}),
     invalidation |-> Rearmost(bias, {b, c}), confirmation |-> Foremost(bias, {b, c}),
     start |-> start, end |-> c, b |-> b, c |-> c]

\* Mutant of AlignedTo: the two levels are swapped.
AlignedToSwapped(bias, k) ==
    LET anchors == {k.support, k.resistance, k.b, k.c} \ {NoPrice}
    IN  [k EXCEPT !.support = Min(anchors), !.resistance = Max(anchors),
                  !.invalidation = Foremost(bias, anchors),
                  !.confirmation = Rearmost(bias, anchors)]

\* align_corrective_key_levels_to_bias
AlignedTo(bias, k) ==
    LET anchors == {k.support, k.resistance, k.b, k.c} \ {NoPrice}
    IN  [k EXCEPT !.support = Min(anchors), !.resistance = Max(anchors),
                  !.invalidation = Rearmost(bias, anchors),
                  !.confirmation = Foremost(bias, anchors)]

\* The levels a position is planned on: a correction's are those of its bias.
PlanLevels(position, k) ==
    IF position.structure \in Correctives THEN AlignedTo(position.bias, k) ELSE k

\* extract_pattern_key_levels
KeyLevels(type, w) ==
    LET bias == DirectionOf(w)
        prices == {w[i].price : i \in DOMAIN w}
        Levels(support, resistance, invalidation, confirmation) ==
            [support |-> support, resistance |-> resistance, invalidation |-> invalidation,
             confirmation |-> confirmation, start |-> w[1].price, end |-> Last(w).price,
             b |-> NoPrice, c |-> NoPrice]
    IN  CASE type = "IMPULSE" ->
                 Levels(Min({w[5].price, w[6].price}), Max({w[5].price, w[6].price}),
                        w[1].price, w[6].price)
          [] type \in Triangles -> Levels(Min(prices), Max(prices), Min(prices), Max(prices))
          [] type \in Diagonals ->
                 Levels(Min(prices), Max(prices), w[1].price, Foremost(bias, prices))
          [] OTHER -> CorrectiveLevels(bias, w[1].price, w[2].price, w[3].price)

-----------------------------------------------------------------------------
\* _price_in_pattern_zone; a triangle keeps its points under a name it ignores.
InZone(count, price) ==
    LET prices == {count.w[i].price : i \in DOMAIN count.w}
        margin == Max(prices) - Min(prices)
    IN  \/ count.type \in Triangles
        \/ /\ 10 * Min(prices) - margin <= 10 * price
           /\ 10 * price <= 10 * Max(prices) + margin

\* The counts primary_report and the summary are taken from
CountsInPlay(counts, price) ==
    LET near == Picked(counts, {i \in DOMAIN counts : InZone(counts[i], price)})
    IN  IF near = <<>> THEN counts ELSE near

\* The price has left the levels of the count.
LevelsLeft(k, price) ==
    \/ k.support > k.resistance
    \/ 100 * k.support > 102 * price
    \/ 100 * k.resistance < 98 * price

\* Support and resistance from the wave in progress: its start, and the next of its
\* targets on the other side of the price or else its invalidation
WaveBracket(wave, price) ==
    LET targets == {wave.targets[i] : i \in DOMAIN wave.targets}
        above == {t \in targets : 1000 * t > 1005 * price}
        below == {t \in targets : 1000 * t < 995 * price}
    IN  IF wave.direction = "bearish"
        THEN <<wave.start, IF above = {} THEN wave.invalidation ELSE Min(above)>>
        ELSE <<IF below = {} THEN wave.invalidation ELSE Max(below), wave.start>>

\* Support and resistance from the pivots around the price; support is what there is
\* where no pivot is below.
PivotBracket(pivots, price, atr, support) ==
    LET prices == {pivots[i].price : i \in DOMAIN pivots}
        below == {p \in prices : 1000 * p < 999 * price}
        above == {p \in prices : 1000 * p > 1001 * price}
    IN  << IF below # {} THEN Max(below)
           ELSE IF support # NoPrice THEN support ELSE Min(prices),
           IF above # {} THEN Min(above) ELSE price + atr >>

\* The bracket of the price: <<NoPrice, NoPrice>> stands for None.
Bracket(pivots, wave, price, atr) ==
    LET first == IF wave = NoWave THEN <<NoPrice, NoPrice>> ELSE WaveBracket(wave, price)
    IN  IF first[1] = NoPrice \/ first[2] <= price
        THEN PivotBracket(pivots, price, atr, first[1]) ELSE first

\* The key levels of the plan, rebuilt around the price where it has left them
LevelsAround(k, pivots, wave, price, atr) ==
    LET bracket == Bracket(pivots, wave, price, atr)
    IN  IF LevelsLeft(k, price) /\ bracket[1] < price /\ price < bracket[2]
        THEN [support |-> bracket[1], resistance |-> bracket[2],
              invalidation |-> IF wave = NoWave THEN bracket[1] ELSE wave.invalidation,
              confirmation |-> bracket[2], start |-> bracket[1],
              end |-> NoPrice, b |-> NoPrice, c |-> NoPrice]
        ELSE k

-----------------------------------------------------------------------------
\* detect_wave_position: the wave in progress decides the bias, the count the
\* structure unless it is a plain impulse.
Position(count, wave) ==
    IF wave = NoWave
    THEN [structure |-> count.type, bias |-> count.direction, building |-> FALSE]
    ELSE [structure |-> IF count.type = "IMPULSE" THEN wave.structure ELSE count.type,
          bias |-> wave.direction, building |-> TRUE]

-----------------------------------------------------------------------------
\* The bound of _compute_tighter_sl: never looser than the structural stop
NoLooser(bias, stop, structural) == Foremost(bias, {stop, structural})

\* _compute_tighter_sl: behind the nearest swing on the losing side of the entry
TighterStop(bias, structural, entry, pivots, atr) ==
    LET type == Either(bias, "L", "H")
        behind == {pivots[i].price : i \in {j \in DOMAIN pivots :
                       pivots[j].type = type /\ Further(bias, entry, pivots[j].price)}}
        buffer == Times(300, atr)
        swing == Either(bias, Max(behind) - buffer, Min(behind) + buffer)
    IN  IF behind = {} THEN structural ELSE NoLooser(bias, swing, structural)

\* _directional_target_triplet
DirectedTargets(bias, entry, targets, stop, k) ==
    LET ahead == {i \in DOMAIN targets : Further(bias, targets[i], entry)}
        Nearer(i, j) == \/ Further(bias, targets[j], targets[i])
                        \/ targets[i] = targets[j] /\ i < j
        order == Ordered(ahead, Nearer)
        step == Max({Length(entry - stop), Length(k.resistance - k.support) \div 2,
                     entry \div 100})
    IN  IF ahead # {} THEN [n \in DOMAIN order |-> targets[order[n]]]
        ELSE [i \in 1..3 |->
                 entry + Either(bias, 1, -1) * Times(<<618, 1000, 1272>>[i], step)]

\* project_next_wave of a correction: extensions of its last leg
CorrectiveProjection(bias, k, pivots, atr) ==
    LET move == k.confirmation - k.end
        stop == TighterStop(bias, k.invalidation, k.confirmation, pivots, atr)
        extensions == [i \in 1..3 |-> k.confirmation + Times(<<618, 1000, 1272>>[i], move)]
    IN  [expected |-> bias, confirmation |-> k.confirmation, invalidation |-> k.invalidation,
         stop |-> stop, targets |-> DirectedTargets(bias, k.confirmation, extensions, stop, k)]

\* project_next_wave of a trend: retracements of it
TrendProjection(bias, k, pivots, atr) ==
    [expected |-> Opposite(bias), confirmation |-> k.confirmation,
     invalidation |-> k.invalidation,
     stop |-> TighterStop(bias, k.invalidation, k.confirmation, pivots, atr),
     targets |-> [i \in 1..3 |-> k.end - Times(<<382, 618, 786>>[i], k.end - k.start)]]

\* project_next_wave
Projection(position, k, pivots, atr) ==
    CASE position.structure \in Triangles ->
             [expected |-> "neutral", confirmation |-> k.confirmation,
              invalidation |-> k.invalidation, stop |-> NoPrice,
              targets |-> <<k.resistance, k.support>>]
      [] position.structure \in Correctives ->
             CorrectiveProjection(position.bias, k, pivots, atr)
      [] OTHER -> TrendProjection(position.bias, k, pivots, atr)
=============================================================================
