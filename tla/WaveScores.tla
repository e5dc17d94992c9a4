----------------------------- MODULE WaveScores -----------------------------
(***************************************************************************)
(* How the patterns of a chart become ranked wave counts and a decision:   *)
(* multi_count_engine, wave_confidence, wave_probability, pattern_labeler  *)
(* and wave_decision_engine of src/analysis.  Scores, confidences and      *)
(* probabilities are in thousandths, as the code rounds them; which way a  *)
(* value halfway between two of them is rounded is left to the machine's   *)
(* arithmetic there and is up here.                                        *)
(***************************************************************************)
EXTENDS WavePatterns

\* The indicator signals of a direction, read off the candles (src/analysis/
\* indicator_filter.py); a direction is validated only on volatility or volume.
SignalSets ==
    {s \in [validated : BOOLEAN, rsi : BOOLEAN, macd : BOOLEAN, spike : BOOLEAN,
            divergence : BOOLEAN, turning : BOOLEAN, atr : BOOLEAN, longTerm : BOOLEAN] :
        s.validated => s.atr \/ s.spike}

Half(x) == (x + 500) \div 1000

Points(condition, n) == IF condition THEN n ELSE 0

Capped(low, x, high) == IF x < low THEN low ELSE IF x > high THEN high ELSE x

-----------------------------------------------------------------------------
\* score_fib_ratio: how near part / whole is to one of the targets
FibScore(part, whole, targets, tolerance) ==
    LET miss == Min({Length(1000 * part - t * whole) : t \in targets})
    IN  CASE 2 * miss <= tolerance * whole -> 1000
          [] miss <= tolerance * whole -> 800
          [] miss <= 2 * tolerance * whole -> 600
          [] OTHER -> 100

\* score_impulse_fibonacci
ImpulseFibScore(w) ==
    LET wave == Legs(w)
        total == FibScore(wave[2], wave[1], {500, 618, 786}, 180)
                 + FibScore(wave[4], wave[3], {236, 382, 500}, 180)
                 + FibScore(wave[3], wave[1], {1000, 1618, 2000, 2618}, 220)
                 + FibScore(wave[5], wave[1], {618, 1000, 1618}, 220)
        Extended(base) == IF Wave3Extended(w) THEN Min({1000, base + 50}) ELSE base
        Truncated(base) == IF Wave5Truncated(w) THEN Max({0, base - 50}) ELSE base
    IN  Truncated(Extended((total + 2) \div 4))

FibQuality(type, w) ==
    LET Ratio(targets, tolerance) == FibScore(Legs(w)[2], Legs(w)[1], targets, tolerance)
    IN  CASE type = "IMPULSE" -> ImpulseFibScore(w)
          [] type = "ABC_CORRECTION" -> Ratio({382, 500, 618, 786}, 150)
          [] type = "FLAT" -> FibScore(Height(w)[3] - Height(w)[1], Legs(w)[1],
                                       {500, 618, 786, 1000}, 180)
          [] type = "EXPANDED_FLAT" -> Ratio({1000, 1236, 1618}, 220)
          [] type = "RUNNING_FLAT" -> Ratio({382, 500, 618, 786}, 180)
          [] type = "WXY" -> Ratio({500, 618, 786, 1000}, 180)
          [] type = "EXPANDING_TRIANGLE" -> 600
          [] type = "ENDING_DIAGONAL" -> 700
          [] type = "LEADING_DIAGONAL" -> 680
          [] OTHER -> 650

\* score_diagonal_quality
DiagonalQuality(w) ==
    Min({1000, (IF Overlaps(w) THEN 820 ELSE 600)
               + Points(/\ Lengths(w)[3] > 0
                        /\ Between(500, Lengths(w)[3], Lengths(w)[1], 1050), 50)
               + Points(Contracting(w), 50)})

\* score_triangle_quality of a pattern that has its slopes
TriangleQuality(type) ==
    CASE type = "CONTRACTING_TRIANGLE" -> 800
      [] type = "EXPANDING_TRIANGLE" -> 750
      [] OTHER -> 820

\* score_structure_quality
StructureQuality(type) ==
    CASE type = "IMPULSE" -> 1000
      [] type = "ABC_CORRECTION" -> 620
      [] type = "EXPANDED_FLAT" -> 580
      [] type = "RUNNING_FLAT" -> 560
      [] type = "FLAT" -> 540
      [] type = "WXY" -> 550

Quality(type, w) ==
    CASE type \in Triangles -> TriangleQuality(type)
      [] type \in Diagonals -> DiagonalQuality(w)
      [] OTHER -> StructureQuality(type)

\* score_momentum_from_lengths: the last leg against the mean of all
LegMomentum(w) ==
    LET n == Len(Legs(w))
        total == SumFunctionOnSet(Lengths(w), 1..n)
        latest == n * Lengths(w)[n]
    IN  CASE 10 * latest >= 13 * total -> 850
          [] latest >= total -> 700
          [] 10 * latest >= 7 * total -> 550
          [] OTHER -> 400

Momentum(type, w) ==
    CASE type = "EXPANDING_TRIANGLE" -> 520
      [] type \in Triangles -> 550
      [] type = "ENDING_DIAGONAL" -> 620
      [] type = "LEADING_DIAGONAL" -> 600
      [] OTHER -> LegMomentum(w)

\* compute_wave_confidence of a valid pattern
WaveConfidence(type, w) ==
    Half(350 * 1000 + 300 * FibQuality(type, w) + 200 * Quality(type, w)
         + 150 * Momentum(type, w))

\* _indicator_adjustment_with_context
IndicatorAdjustment(s) ==
    (IF s.validated THEN 40 + Points(s.rsi, 20) ELSE -40)
    + Points(s.macd, 15) + Points(s.spike, 10) + Points(s.divergence, 10)
    + Points(s.turning, 10) + Points(s.longTerm, 10)

-----------------------------------------------------------------------------
\* _indicator_multiplier
IndicatorMultiplier(s) ==
    LET extra == Cardinality({i \in 1..6 :
                    <<s.atr, s.rsi, s.macd, s.spike \/ s.divergence, s.turning,
                      s.longTerm>>[i]})
    IN  IF s.validated THEN Min({1180, 1080 + 20 * extra}) ELSE Max({880, 940 + 10 * extra})

\* _pattern_bonus
PatternBonus(type) ==
    CASE type = "IMPULSE" -> 5
      [] type \in {"ABC_CORRECTION", "EXPANDED_FLAT"} -> 4
      [] type \in {"FLAT", "RUNNING_FLAT", "WXY"} \cup Diagonals -> 3
      [] type = "CONTRACTING_TRIANGLE" -> -10
      [] type = "EXPANDING_TRIANGLE" -> -8
      [] OTHER -> -5

\* _score_alternation_bonus: the second and the fourth wave differ in depth.
AlternationBonus(w) ==
    LET Sharp(part, whole) == 1000 * part > 618 * whole
        Shallow(part, whole) == 1000 * part < 382 * whole
        wave == Legs(w)
        sharp2 == Sharp(wave[2], wave[1])    sharp4 == Sharp(wave[4], wave[3])
        flat2 == Shallow(wave[2], wave[1])   flat4 == Shallow(wave[4], wave[3])
    IN  CASE (sharp2 /\ flat4) \/ (flat2 /\ sharp4) -> 20
          [] (sharp2 /\ sharp4) \/ (flat2 /\ flat4) -> -20
          [] OTHER -> 0

\* _structure_bonus
StructureBonus(type, w) ==
    PatternBonus(type) + Points(type \notin Triangles, 10)
    + (IF type = "IMPULSE" THEN AlternationBonus(w) ELSE 0)

-----------------------------------------------------------------------------
\* The patterns generate_wave_counts looks for, in its order
Detected(pivots) ==
    LET swings == Swings(pivots)
        barrier == DetectBarrierTriangle(swings)
    IN  << [type |-> "ABC_CORRECTION", w |-> DetectAbc(pivots)],
           [type |-> "IMPULSE", w |-> DetectImpulse(pivots)],
           [type |-> "FLAT", w |-> DetectFlat(swings)],
           [type |-> "EXPANDED_FLAT", w |-> DetectExpandedFlat(swings)],
           [type |-> "RUNNING_FLAT", w |-> DetectRunningFlat(swings)],
           [type |-> "CONTRACTING_TRIANGLE", w |-> DetectContractingTriangle(swings)],
           [type |-> "EXPANDING_TRIANGLE", w |-> DetectExpandingTriangle(swings)],
           [type |-> IF barrier # <<>> /\ FitsAscendingBarrier(barrier)
                     THEN "ASCENDING_BARRIER_TRIANGLE" ELSE "DESCENDING_BARRIER_TRIANGLE",
            w |-> barrier],
           [type |-> "WXY", w |-> DetectWxy(swings)],
           [type |-> "ENDING_DIAGONAL", w |-> DetectEndingDiagonal(pivots)],
           [type |-> "LEADING_DIAGONAL", w |-> DetectLeadingDiagonal(pivots)] >>

\* The pattern's direction as a trade would take it
CountDirection(type, w) == IF type \in Triangles THEN "neutral" ELSE DirectionOf(w)

\* A valid pattern with its confidence and what it weighs among the others, in
\* millionths; a triangle has no indicator context.
Weighed(type, w, signals) ==
    LET s == signals[DirectionOf(w)]
        plain == type \in Triangles
        Weight(confidence) == Max({0, (confidence + StructureBonus(type, w))
                                      * (IF plain THEN 1000 ELSE IndicatorMultiplier(s))})
        Count(confidence, weight) ==
            [type |-> type, w |-> w, direction |-> CountDirection(type, w),
             validated |-> ~plain /\ s.validated, confidence |-> confidence,
             weight |-> weight, adjusted |-> Half(weight)]
        CountAt(confidence) == Count(confidence, Weight(confidence))
    IN  CountAt(Capped(0, WaveConfidence(type, w)
                          + (IF plain THEN 0 ELSE IndicatorAdjustment(s)), 1000))

\* normalize_probabilities
ProbabilityOf(count, total) ==
    IF total = 0 THEN 0 ELSE (count.adjusted * 1000000 + total \div 2) \div total

\* compute_similarity_score
Similarity(confidence, probability) == Half(700 * confidence + 300 * probability)

\* Is count x ahead of y?  rank_wave_counts sorts by probability, label_patterns
\* by similarity after it; both sorts are stable.
Ahead(x, y) ==
    LET keys == << <<x.similarity, y.similarity>>, <<x.probability, y.probability>>,
                   <<x.adjusted, y.adjusted>>, <<x.confidence, y.confidence>>,
                   <<y.order, x.order>> >>
    IN  \E i \in DOMAIN keys :
            /\ keys[i][1] > keys[i][2]
            /\ \A j \in 1..i - 1 : keys[j][1] = keys[j][2]

ValidPatterns(pivots) ==
    LET found == Detected(pivots)
    IN  Picked(found, {i \in DOMAIN found :
                          found[i].w # <<>> /\ PatternValid(found[i].type, found[i].w)})

\* rank_wave_counts and label_patterns: the counts with their share of the total
RankedCounts(weighed) ==
    LET total == SumFunctionOnSet([i \in DOMAIN weighed |-> weighed[i].weight], DOMAIN weighed)
        Ranked(i, c, p) ==
            [type |-> c.type, w |-> c.w, direction |-> c.direction,
             validated |-> c.validated, confidence |-> c.confidence,
             adjusted |-> c.adjusted, probability |-> p,
             similarity |-> Similarity(c.confidence, p), order |-> i]
        counts == [i \in DOMAIN weighed |->
                      Ranked(i, weighed[i], ProbabilityOf(weighed[i], total))]
        order == Ordered(DOMAIN weighed, LAMBDA i, j : Ahead(counts[i], counts[j]))
    IN  [n \in DOMAIN order |-> counts[order[n]]]

\* generate_labeled_wave_counts
WaveCounts(pivots, signals) ==
    LET WeighedAll(patterns) ==
            [i \in DOMAIN patterns |-> Weighed(patterns[i].type, patterns[i].w, signals)]
    IN  RankedCounts(WeighedAll(ValidPatterns(pivots)))

-----------------------------------------------------------------------------
ImpulseLike == {"IMPULSE"} \cup Diagonals

\* choose_primary_and_alternate, of two counts or more
PrefersSecond(counts) ==
    LET margin == counts[1].probability - counts[2].probability
    IN  /\ 0 < margin /\ margin < 30
        /\ counts[1].type \notin ImpulseLike
        /\ counts[2].type \in ImpulseLike
        /\ counts[2].validated

ChosenFirst(counts) ==
    IF Len(counts) >= 2 /\ PrefersSecond(counts) THEN 2 ELSE 1

\* PATTERN_AMBIGUITY_THRESHOLDS and _CONFLICT_PAIR_THRESHOLD
RequiredMargin(first, second) ==
    CASE first = "EXPANDED_FLAT" /\ second = "WXY" -> 60
      [] first = "LEADING_DIAGONAL" /\ second \in {"WXY", "RUNNING_FLAT"} -> 30
      [] first \in {"IMPULSE", "ABC_CORRECTION"} -> 30
      [] OTHER -> 20

\* PATTERN_MIN_CONFIDENCE
MinConfidence(type) ==
    CASE type = "IMPULSE" -> 800
      [] type \in {"ABC_CORRECTION", "EXPANDED_FLAT", "RUNNING_FLAT"} -> 780
      [] OTHER -> 0

\* Mutant of Ambiguous: the margin is a distance, whichever count is chosen.
AmbiguousByDistance(counts) ==
    /\ Len(counts) >= 2
    /\ LET first == counts[ChosenFirst(counts)]
           second == counts[3 - ChosenFirst(counts)]
       IN  Length(first.probability - second.probability)
           < RequiredMargin(first.type, second.type)

\* _is_ambiguous: where the second count was preferred, the margin is negative.
Ambiguous(counts) ==
    /\ Len(counts) >= 2
    /\ LET first == counts[ChosenFirst(counts)]
           second == counts[3 - ChosenFirst(counts)]
       IN  first.probability - second.probability < RequiredMargin(first.type, second.type)

\* build_wave_summary: the bias of the primary count if it may be acted on
SummaryBias(counts) ==
    IF Len(counts) = 0 \/ Ambiguous(counts) THEN "none"
    ELSE LET first == counts[ChosenFirst(counts)]
         IN  IF first.direction = "neutral" \/ first.confidence < MinConfidence(first.type)
             THEN "none" ELSE first.direction
=============================================================================
