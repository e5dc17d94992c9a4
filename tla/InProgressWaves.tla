--------------------------- MODULE InProgressWaves ---------------------------
(***************************************************************************)
(* The Elliott wave that is being built at the last pivot                  *)
(* (src/analysis/inprogress_detector.py).  completed counts the waves that *)
(* have ended: an impulse with 1 to 4 of them, the correction after a full *)
(* one with 5 or 6, or a short correction of its own.  The code has every  *)
(* builder twice, once a direction; they are one here, on mirrored prices. *)
(***************************************************************************)
EXTENDS WavePatterns

SearchWindow == 60      \* search_window, in pivots

MaxSpanBars == 260      \* _NC_MAX_SPAN_BARS

MinWaveBars == 4        \* _MIN_WAVE_BARS

NoWave == [completed |-> -1]

\* Mirrors a height back into a price.
PriceOf(direction, height) == IF direction = "bullish" THEN height ELSE -height

\* current_wave_direction: of the wave being built, not of the structure
BuiltDirection(direction, wave) ==
    CASE wave \in {"A", "C"} -> Opposite(direction)
      [] wave = "B" -> direction
      [] wave = "5" \/ wave = "3" -> direction
      [] OTHER -> Opposite(direction)

Counted(structure, direction, wave, w, invalidation, targets, confidence) ==
    [structure |-> structure, direction |-> direction, wave |-> wave,
     completed |-> Len(w) - 1, pivots |-> w, start |-> Last(w).price,
     invalidation |-> invalidation, targets |-> targets, confidence |-> confidence,
     building |-> BuiltDirection(direction, wave)]

-----------------------------------------------------------------------------
(* A partial impulse of two to five pivots                                 *)

WaveOfCount(n) == CASE n = 2 -> "2" [] n = 3 -> "3" [] n = 4 -> "4" [] OTHER -> "5"

\* Each pivot is beyond the one before of its type.
Climbs(w) ==
    LET h == Height(w)
    IN  h[2] > h[1] /\ \A i \in 3..Len(w) : h[i] > h[i - 2]

\* _validate_bullish_partial and _validate_bearish_partial
PartialRules(w) ==
    LET h == Height(w)
        wave == Legs(w)
    IN  /\ Len(w) >= 3 => h[3] > h[1]
        /\ Len(w) >= 4 => wave[3] > 0 /\ wave[3] >= wave[1]
        /\ Len(w) >= 5 => h[5] > h[2]

\* _bullish_fib_targets and _bearish_fib_targets: of the wave being built
ImpulseTargets(w) ==
    LET n == Len(w)
        h == Height(w)
        wave == Legs(w)
        Level(height) == PriceOf(DirectionOf(w), height)
        Back(ratios) == [i \in DOMAIN ratios |-> Level(h[n] - Times(ratios[i], wave[n - 1]))]
        On(ratios) == [i \in DOMAIN ratios |-> Level(h[n] + Times(ratios[i], wave[1]))]
    IN  CASE n = 2 -> Back(<<382, 500, 618, 786>>)
          [] n = 3 -> On(<<1000, 1618, 2618>>)
          [] n = 4 -> Back(<<236, 382, 500, 618>>)
          [] n = 5 -> << Level(h[5] + wave[1]), Level(h[5] + Times(618, wave[1] + wave[3])),
                         Level(h[5] + Times(1272, wave[1])) >>

\* _bullish_invalidation and _bearish_invalidation
ImpulseInvalidation(w) == IF Len(w) <= 3 THEN w[1].price ELSE w[2].price

\* project_wave_time and score_time_confidence: the wave is timed at the bar it
\* starts on, so that none of it has elapsed; a reference wave that took no bar
\* gives no projection.
TimeBonus(w) ==
    LET reference == IF Len(w) = 4 THEN 3 ELSE 1
    IN  IF w[reference + 1].bar > w[reference].bar THEN 30 ELSE 0

ImpulseConfidence(w) ==
    Min({950, (CASE Len(w) = 2 -> 350 [] Len(w) = 3 -> 450 [] Len(w) = 4 -> 550
                 [] OTHER -> 650) + TimeBonus(w)})

PartialImpulse(w) ==
    Counted("IMPULSE", DirectionOf(w), WaveOfCount(Len(w)), w, ImpulseInvalidation(w),
            ImpulseTargets(w), ImpulseConfidence(w))

-----------------------------------------------------------------------------
(* A correction of two or three pivots.  It starts at a high and goes down *)
(* where it is "bullish": what is expected once it is over.                *)

FitsCorrective(w) ==
    LET h == Height(w)
    IN  h[2] > h[1] /\ (Len(w) = 3 => h[3] < h[2] /\ h[3] > h[1])

CorrectiveTargets(w) ==
    LET n == Len(w)
        h == Height(w)
        a == Legs(w)[1]
        Level(height) == PriceOf(DirectionOf(w), height)
    IN  IF n = 2
        THEN [i \in 1..4 |-> Level(h[2] - Times(<<382, 500, 618, 786>>[i], a))]
        ELSE [i \in 1..3 |-> Level(h[3] + Times(<<1000, 1272, 1618>>[i], a))]

PartialCorrective(w) ==
    Counted("CORRECTION", Opposite(DirectionOf(w)), IF Len(w) = 2 THEN "B" ELSE "C", w,
            w[1].price, CorrectiveTargets(w), 350 + 100 * (Len(w) - 1))

-----------------------------------------------------------------------------
(* The correction after a full impulse of six pivots                       *)

\* _validate_full_bullish_impulse asks for durations and lets the fourth wave
\* overlap the first; _validate_full_bearish_impulse does neither.
FullImpulse(w) ==
    LET h == Height(w)
        wave == Legs(w)
        Bars(i) == w[i + 1].bar - w[i].bar
    IN  /\ Climbs(w)
        /\ wave[3] >= wave[1] \/ wave[3] >= wave[5]
        /\ IF DirectionOf(w) = "bullish"
           THEN /\ \A i \in 1..5 : Bars(i) >= MinWaveBars
                /\ 100 * Bars(5) >= 15 * Bars(4)
           ELSE h[5] > h[2]

\* Six pivots: wave A is about to start.
WaveABegins(w) ==
    Counted("CORRECTION", Opposite(DirectionOf(w)), "A", w, w[6].price, <<>>, 720)

\* Seven pivots: wave A has ended.
WaveBBegins(w) ==
    LET a == Height(w)[6] - Height(w)[7]
    IN  Counted("CORRECTION", Opposite(DirectionOf(w)), "B", w, w[6].price,
                [i \in 1..2 |-> PriceOf(DirectionOf(w),
                                        Height(w)[7] + Times(<<382, 618>>[i], a))], 780)

-----------------------------------------------------------------------------
(* Impulses whose pivots need not follow on each other                     *)

PriceSpan(w) == LET prices == {w[i].price : i \in DOMAIN w} IN Max(prices) - Min(prices)

\* Of the indices of two counts, the searches come to S before T: they take later
\* inner pivots first and older starts first.
ComesFirst(S, T) ==
    LET inner == (S \ {Min(S)}) \cup (T \ {Min(T)})
        differ == {i \in inner : (i \in S \ {Min(S)}) # (i \in T \ {Min(T)})}
    IN  IF differ = {} THEN Min(S) < Min(T) ELSE Max(differ) \in S \ {Min(S)}

\* The counts of n pivots that end at the last one and start in the direction
SpreadCounts(pivots, direction, n, last) ==
    {S \in {T \cup {last} : T \in kSubset(n - 1, 1..last - 1)} :
        LET w == Picked(pivots, S) IN
            /\ DirectionOf(w) = direction
            /\ Alternates(w)
            /\ Climbs(w)
            /\ \A i \in 1..n - 1 : Legs(w)[i] > 0
            /\ pivots[last].bar - w[1].bar <= MaxSpanBars
            /\ IF n = 6 THEN FullImpulse(w) ELSE PartialRules(w)}

\* The one of the counts with the largest span from its start to its extreme
WidestOf(pivots, counts) ==
    LET Span(S) == PriceSpan(Picked(pivots, S))
        Wider(s, t, S, T) == s > t \/ (s = t /\ (S = T \/ ComesFirst(S, T)))
    IN  IF counts = {} THEN <<>>
        ELSE Picked(pivots, CHOOSE S \in counts :
                                \A T \in counts : Wider(Span(S), Span(T), S, T))

WidestSpread(pivots, direction, n, last) ==
    WidestOf(pivots, SpreadCounts(pivots, direction, n, last))

\* _nc_bullish_cw3 and cw4, and their bearish mirrors
SpreadImpulse(pivots, direction, n) ==
    LET Of(w) == IF w = <<>> THEN NoWave ELSE PartialImpulse(w)
    IN  Of(WidestSpread(pivots, direction, n, Len(pivots)))

\* _nc_bullish_cw5 that ends at the last-th pivot
SpreadWaveA(pivots, direction, last) ==
    LET Of(w) == IF w = <<>> THEN NoWave ELSE WaveABegins(w)
    IN  Of(WidestSpread(pivots, direction, 6, last))

\* _nc_bullish_cw6: of the impulses that end before the last pivot and beyond it,
\* not on its bar, the one with the widest span; the latest of those that tie.
SpreadWaveB(pivots, direction) ==
    LET a == Last(pivots)
        ends == {i \in 1..Len(pivots) - 1 :
                    /\ pivots[i].type # a.type
                    /\ PriceOf(direction, pivots[i].price) > PriceOf(direction, a.price)
                    /\ pivots[i].bar # a.bar}
        WidestFull(full) ==
            LET found == {i \in ends : full[i] # <<>>}
                Span(i) == PriceSpan(Append(full[i], a))
                best == CHOOSE i \in found : \A j \in found :
                            Span(i) > Span(j) \/ (Span(i) = Span(j) /\ i >= j)
            IN  IF found = {} THEN NoWave ELSE WaveBBegins(Append(full[best], a))
    IN  WidestFull([i \in ends |-> WidestSpread(pivots, direction, 6, i)])

\* The first of the counts none of which is wider or, as wide, more complete
Widest(counts) ==
    LET found == Picked(counts, {i \in DOMAIN counts : counts[i] # NoWave})
        Wider(c, d) == \/ PriceSpan(c.pivots) > PriceSpan(d.pivots)
                       \/ /\ PriceSpan(c.pivots) = PriceSpan(d.pivots)
                          /\ c.completed > d.completed
        best == {i \in DOMAIN found : \A j \in DOMAIN found : ~Wider(found[j], found[i])}
    IN  IF found = <<>> THEN NoWave ELSE found[Min(best)]

\* _find_nonconsecutive_bullish and _find_nonconsecutive_bearish.  A bar that has
\* both a high and a low may end an impulse at either.
FindSpread(pivots, direction) ==
    LET n == Len(pivots)
        top == IF direction = "bullish" THEN "H" ELSE "L"
        before == {i \in 1..n - 1 : pivots[i].type = top}
        sameBar == before # {} /\ pivots[Max(before)].bar = pivots[n].bar
    IN  IF n < 4 THEN NoWave
        ELSE IF pivots[n].type = top
        THEN Widest(<< SpreadWaveA(pivots, direction, n),
                       SpreadImpulse(pivots, direction, 4) >>)
        ELSE Widest(<< SpreadWaveB(pivots, direction), SpreadImpulse(pivots, direction, 5),
                       IF sameBar THEN SpreadWaveA(pivots, direction, Max(before))
                       ELSE NoWave >>)

-----------------------------------------------------------------------------
\* The impulse of up to five pivots in a row that end at the last one, the longest
TailImpulse(pivots) ==
    LET n == Len(pivots)
        fits == {k \in 2..Min({n, 5}) :
                    LET w == Run(pivots, n - k + 1, k)
                    IN  Alternates(w) /\ Climbs(w) /\ PartialRules(w)}
    IN  IF fits = {} THEN NoWave
        ELSE PartialImpulse(Run(pivots, n - Max(fits) + 1, Max(fits)))

\* The correction of a history of two or three pivots; it need not end at the last.
ShortCorrection(pivots) ==
    LET n == Len(pivots)
        fits == {f \in (1..n - 1) \X {2, 3} :
                    LET w == Run(pivots, f[1], f[2])
                    IN  f[1] + f[2] - 1 <= n /\ Alternates(w) /\ FitsCorrective(w)}
        longest == Max({f[2] : f \in fits})
        latest == Max({f[1] : f \in {g \in fits : g[2] = longest}})
    IN  IF n > 3 \/ fits = {} THEN NoWave
        ELSE PartialCorrective(Run(pivots, latest, longest))

Completer(later, earlier) ==
    IF later.completed > earlier.completed THEN later ELSE earlier

\* detect_inprogress_wave
InProgressWave(all) ==
    LET n == Min({Len(all), SearchWindow})
        pivots == Run(all, Len(all) - n + 1, n)
    IN  IF n < 2 THEN NoWave
        ELSE Completer(ShortCorrection(pivots),
                       Completer(TailImpulse(pivots),
                                 Completer(FindSpread(pivots, "bearish"),
                                           FindSpread(pivots, "bullish"))))
=============================================================================
