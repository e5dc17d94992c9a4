---------------------------- MODULE WavePatterns ----------------------------
(***************************************************************************)
(* The wave patterns of an Elliott count and their rules: the detectors of *)
(* src/analysis (wave_detector, the flat, triangle, WXY and diagonal       *)
(* detectors) and rule_validator.  A pivot is [type, price, bar], type "H" *)
(* or "L"; prices are whole cents, to which the code rounds the levels it  *)
(* derives from them, ratios are in thousandths.                           *)
(*                                                                         *)
(* A pattern that starts at a low is "bullish", one that starts at a high  *)
(* "bearish".  The code spells out each pattern twice; here the bearish    *)
(* one is the bullish one on mirrored prices (Height), and what the code   *)
(* does differently for the two is written where it differs.  A detector   *)
(* returns the window of pivots it has found, <<>> for None.               *)
(***************************************************************************)
EXTENDS Integers, Sequences, SequencesExt, FiniteSets, FiniteSetsExt, Functions

Directions == {"bullish", "bearish"}

Opposite(direction) == IF direction = "bullish" THEN "bearish" ELSE "bullish"

Length(x) == IF x < 0 THEN -x ELSE x

\* A multiple of a length, rounded to a cent
Times(ratio, length) == (ratio * length + 500) \div 1000

\* low <= part / whole <= high, in thousandths
Between(low, part, whole, high) == low * whole <= 1000 * part /\ 1000 * part <= high * whole

DirectionOf(window) == IF window[1].type = "L" THEN "bullish" ELSE "bearish"

\* The prices of the points, mirrored where the pattern is bearish
Height(window) ==
    [i \in DOMAIN window |->
        IF window[1].type = "L" THEN window[i].price ELSE -window[i].price]

\* The legs of a window: positive where it goes on in its direction as it should
Legs(window) ==
    LET h == Height(window)
    IN  [i \in 1..Len(window) - 1 |-> IF i % 2 = 1 THEN h[i + 1] - h[i] ELSE h[i] - h[i + 1]]

Alternates(window) == \A i \in 1..Len(window) - 1 : window[i].type # window[i + 1].type

\* n pivots in a row, from the i-th
Run(pivots, i, n) == SubSeq(pivots, i, i + n - 1)

\* The latest n pivots in a row that alternate and fit; <<>> if there are none
Latest(pivots, n, Fits(_)) ==
    LET starts == {i \in 1..Len(pivots) - n + 1 :
                      Alternates(Run(pivots, i, n)) /\ Fits(Run(pivots, i, n))}
    IN  IF starts = {} THEN <<>> ELSE Run(pivots, Max(starts), n)

\* The members of a set in an order
Ordered(S, Before(_, _)) ==
    [n \in 1..Cardinality(S) |->
        CHOOSE x \in S : Cardinality({y \in S : Before(y, x)}) = n - 1]

\* The members of a sequence at some of its indices
Picked(s, indices) ==
    LET order == Ordered(indices, <)
    IN  [n \in DOMAIN order |-> s[order[n]]]

\* build_swings: of pivots of one type in a row the most extreme one, the latest
\* of those that tie.
Swings(pivots) ==
    LET RunOf(i) == {j \in DOMAIN pivots :
                        \A k \in DOMAIN pivots :
                            (i <= k /\ k <= j) \/ (j <= k /\ k <= i)
                            => pivots[k].type = pivots[i].type}
        Surpasses(j, i) == IF pivots[i].type = "H" THEN pivots[j].price > pivots[i].price
                           ELSE pivots[j].price < pivots[i].price
        kept == {i \in DOMAIN pivots :
                    \A j \in RunOf(i) : ~Surpasses(j, i) /\ (j > i => Surpasses(i, j))}
    IN  Picked(pivots, kept)

-----------------------------------------------------------------------------
(* Three points: ABC, the three flats and the double correction W-X-Y.     *)

\* detect_latest_abc: the third point stays on the side of the first.
FitsAbc(w) == LET h == Height(w) IN h[2] > h[1] /\ h[3] > h[1]

DetectAbc(pivots) == Latest(pivots, 3, FitsAbc)

AbcValid(w) ==
    /\ FitsAbc(w)
    /\ Height(w)[3] < Height(w)[2]
    /\ Between(500, Legs(w)[2], Legs(w)[1], 1000)

\* A flat's legs point the right way.
FlatLegs(w) == Legs(w)[1] > 0 /\ Legs(w)[2] > 0

\* c_vs_a_ratio of a regular flat is measured from the start of A.
FitsFlat(w) ==
    LET h == Height(w) IN
        /\ FlatLegs(w)
        /\ 1000 * Legs(w)[2] >= 900 * Legs(w)[1]
        /\ h[3] >= h[1]
        /\ Between(0, h[3] - h[1], Legs(w)[1], 1050)

DetectFlat(swings) == Latest(swings, 3, FitsFlat)

FlatValid(w) ==
    LET h == Height(w) IN
        /\ h[2] > h[1] /\ h[3] >= h[1]
        /\ Between(900, Legs(w)[2], Legs(w)[1], 1050)
        /\ Between(900, h[3] - h[1], Legs(w)[1], 1050)

FitsExpandedFlat(w) ==
    /\ FlatLegs(w)
    /\ Height(w)[3] < Height(w)[1]
    /\ Legs(w)[2] > Legs(w)[1]

DetectExpandedFlat(swings) == Latest(swings, 3, FitsExpandedFlat)

ExpandedFlatValid(w) == FitsExpandedFlat(w) /\ Height(w)[2] > Height(w)[1]

FitsRunningFlat(w) ==
    /\ FlatLegs(w)
    /\ Height(w)[3] > Height(w)[1]
    /\ Legs(w)[2] < Legs(w)[1]

DetectRunningFlat(swings) == Latest(swings, 3, FitsRunningFlat)

RunningFlatValid(w) == FitsRunningFlat(w) /\ Height(w)[2] > Height(w)[1]

FitsWxy(w) ==
    /\ FlatLegs(w)
    /\ Height(w)[3] > Height(w)[1]
    /\ Between(618, Legs(w)[2], Legs(w)[1], 1000)

DetectWxy(swings) == Latest(swings, 3, FitsWxy)

WxyValid(w) ==
    /\ Height(w)[2] > Height(w)[1] /\ Height(w)[3] > Height(w)[1]
    /\ Between(500, Legs(w)[2], Legs(w)[1], 1100)

-----------------------------------------------------------------------------
(* Five points: diagonals, whose lengths have no sign, and triangles.      *)

Lengths(w) == [i \in 1..Len(w) - 1 |-> Length(w[i + 1].price - w[i].price)]

Contracting(w) == Lengths(w)[1] > Lengths(w)[3] /\ Lengths(w)[2] > Lengths(w)[4]

DetectEndingDiagonal(pivots) == Latest(pivots, 5, Contracting)

FitsLeadingDiagonal(w) == LET h == Height(w) IN h[2] > h[1] /\ h[3] > h[1]

DetectLeadingDiagonal(pivots) == Latest(pivots, 5, FitsLeadingDiagonal)

\* overlap_exists
Overlaps(w) == LET h == Height(w) IN h[4] > h[2] \/ h[5] > h[3]

DiagonalValid(w) == Legs(w)[1] > 0 /\ Legs(w)[3] > 0 /\ Overlaps(w)

\* The prices of the highs or of the lows, in order
PricesOf(type, w) ==
    LET points == SelectSeq(w, LAMBDA p : p.type = type)
    IN  [i \in DOMAIN points |-> points[i].price]

Rising(prices) == \A i \in 1..Len(prices) - 1 : prices[i] < prices[i + 1]

Falling(prices) == \A i \in 1..Len(prices) - 1 : prices[i] > prices[i + 1]

FitsContractingTriangle(w) == Falling(PricesOf("H", w)) /\ Rising(PricesOf("L", w))

DetectContractingTriangle(swings) == Latest(swings, 5, FitsContractingTriangle)

FitsExpandingTriangle(w) ==
    /\ Rising(PricesOf("H", w))
    /\ Falling(PricesOf("L", w))
    /\ Rising(Lengths(w))

DetectExpandingTriangle(swings) == Latest(swings, 5, FitsExpandingTriangle)

\* _slope as the rise between the first and the last point of a type and the
\* bars it took; points on one bar have no slope.
Boundary(type, w) ==
    LET points == SelectSeq(w, LAMBDA p : p.type = type)
        bars == Last(points).bar - Head(points).bar
    IN  IF bars = 0 THEN [rise |-> 0, bars |-> 1]
        ELSE [rise |-> Last(points).price - Head(points).price, bars |-> bars]

\* The slope is three thousandths or more of the average price a bar.
Steepness(line, w) ==
    LET total == w[1].price + w[2].price + w[3].price + w[4].price + w[5].price
        tilt == 5000 * line.rise
        tolerance == 3 * line.bars * total
    IN  CASE tilt > tolerance -> 1 [] tilt < -tolerance -> -1
          [] Length(tilt) < tolerance -> 0 [] OTHER -> 2

FitsAscendingBarrier(w) ==
    /\ Steepness(Boundary("H", w), w) = 0
    /\ Steepness(Boundary("L", w), w) = 1
    /\ Rising(PricesOf("L", w))

FitsDescendingBarrier(w) ==
    /\ Steepness(Boundary("L", w), w) = 0
    /\ Steepness(Boundary("H", w), w) = -1
    /\ Falling(PricesOf("H", w))

DetectBarrierTriangle(swings) ==
    Latest(swings, 5, LAMBDA w : FitsAscendingBarrier(w) \/ FitsDescendingBarrier(w))

\* triangle_subtype decides which boundary has to have a slope.
TriangleValid(type, w) ==
    LET upper == Boundary("H", w).rise
        lower == Boundary("L", w).rise
    IN  CASE type = "CONTRACTING_TRIANGLE" -> upper < 0 /\ lower > 0
          [] type = "EXPANDING_TRIANGLE" -> upper > 0 /\ lower < 0
          [] type = "ASCENDING_BARRIER_TRIANGLE" -> lower > 0
          [] type = "DESCENDING_BARRIER_TRIANGLE" -> upper < 0

-----------------------------------------------------------------------------
(* The impulse: six points.                                                *)

\* The rules of _build_bullish_impulse and _build_bearish_impulse.  A bearish
\* fifth wave need not go beyond the third if it is as long as the first.
ImpulseHolds(w) ==
    LET h == Height(w)
        wave == Legs(w)
    IN  /\ \A i \in 1..5 : wave[i] > 0
        /\ h[4] > h[2]
        /\ h[6] > h[4] \/ (DirectionOf(w) = "bearish" /\ wave[5] >= wave[1])
        /\ h[3] > h[1]
        /\ wave[3] > wave[1] \/ wave[3] > wave[5]
        /\ h[5] > h[2]
        /\ wave[2] < wave[1] /\ wave[4] < wave[3]
        /\ Between(236, wave[2], wave[1], 990)
        /\ Between(236, wave[4], wave[3], 618)
        /\ 1000 * wave[3] >= 618 * wave[1]

DetectImpulse(pivots) == Latest(pivots, 6, ImpulseHolds)

\* validate_impulse_rules asks for more than the detector does.
ImpulseValid(w) ==
    /\ ImpulseHolds(w)
    /\ Legs(w)[3] >= Legs(w)[1] /\ Legs(w)[3] >= Legs(w)[5]

Wave3Extended(w) == 1000 * Legs(w)[3] > 1618 * Legs(w)[1]

Wave5Truncated(w) == Legs(w)[5] < Legs(w)[3] /\ Legs(w)[5] < Legs(w)[1]

-----------------------------------------------------------------------------
Flats == {"FLAT", "EXPANDED_FLAT", "RUNNING_FLAT"}

Triangles == {"CONTRACTING_TRIANGLE", "EXPANDING_TRIANGLE", "ASCENDING_BARRIER_TRIANGLE",
              "DESCENDING_BARRIER_TRIANGLE"}

Diagonals == {"ENDING_DIAGONAL", "LEADING_DIAGONAL"}

\* validate_pattern_rules
PatternValid(type, w) ==
    CASE type = "ABC_CORRECTION" -> AbcValid(w)
      [] type = "IMPULSE" -> ImpulseValid(w)
      [] type = "FLAT" -> FlatValid(w)
      [] type = "EXPANDED_FLAT" -> ExpandedFlatValid(w)
      [] type = "RUNNING_FLAT" -> RunningFlatValid(w)
      [] type = "WXY" -> WxyValid(w)
      [] type \in Triangles -> TriangleValid(type, w)
      [] type = "ENDING_DIAGONAL" -> DiagonalValid(w) /\ Contracting(w)
      [] type = "LEADING_DIAGONAL" -> DiagonalValid(w)
=============================================================================
