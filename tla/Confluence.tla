----------------------------- MODULE Confluence -----------------------------
(***************************************************************************)
(* Where Fibonacci levels of the last swings cluster                       *)
(* (src/analysis/fibonacci_confluence.py).  A zone is [center, low, high,  *)
(* strength]; strengths are in thousandths.                                *)
(***************************************************************************)
EXTENDS WavePatterns

\* build_fib_levels_from_swing, of the swing that ends at the i-th pivot
SwingLevels(pivots, i) ==
    LET move == pivots[i].price - pivots[i - 1].price
        ratios == <<236, 382, 500, 618, 786, 1000, 1272, 1618>>
    IN  IF move = 0 THEN <<>>
        ELSE [r \in DOMAIN ratios |->
                 [source |-> i, price |-> pivots[i].price - Times(ratios[r], move)]]

\* Levels of at least two make a zone; its strength is their number and how many
\* swings they come from.
ZoneOf(levels) ==
    LET prices == {l.price : l \in levels}
        n == Cardinality(levels)
        swings == Cardinality({l.source : l \in levels})
    IN  [center |-> (2 * SumFunctionOnSet([l \in levels |-> l.price], levels) + n) \div (2 * n),
         low |-> Min(prices) - Min(prices) \div 200,
         high |-> Max(prices) + Max(prices) \div 200,
         strength |-> Min({1000, 140 * n + (300 * swings) \div n})]

\* A level takes the free ones within one per cent of it.
Gather(levels, acc, level) ==
    LET near == {l \in levels \ acc.used : 100 * Length(l.price - level.price) <= level.price}
    IN  IF level \in acc.used \/ level.price <= 0 \/ Cardinality(near) < 2 THEN acc
        ELSE [used |-> acc.used \cup near, zones |-> Append(acc.zones, ZoneOf(near))]

\* find_confluence_zones: from the lowest level up
ZonesOf(levels) ==
    LET sorted == Ordered(levels, LAMBDA x, y : x.price < y.price
                                       \/ (x.price = y.price /\ x.source < y.source))
        gathered[n \in 0..Len(sorted)] ==
            IF n = 0 THEN [used |-> {}, zones |-> <<>>]
            ELSE Gather(levels, gathered[n - 1], sorted[n])
    IN  gathered[Len(sorted)].zones

\* The zones of the last four pivots, the strongest first
Zones(pivots) ==
    LET n == Len(pivots)
        levels == UNION {Range(SwingLevels(pivots, i)) : i \in n - 2..n}
        found == ZonesOf(levels)
        order == Ordered(DOMAIN found,
                     LAMBDA i, j : found[i].strength > found[j].strength
                                   \/ (found[i].strength = found[j].strength /\ i < j))
    IN  IF n < 4 THEN <<>> ELSE [i \in DOMAIN order |-> found[order[i]]]

\* The first of the zones that satisfies a condition is the strongest.
FirstZone(zones, Test(_)) == zones[Min({i \in DOMAIN zones : Test(zones[i])})]

SomeZone(zones, Test(_)) == \E i \in DOMAIN zones : Test(zones[i])

\* _refine_entry_with_confluence: the entry moves to a zone within 1.5 per cent.
Refined(entry, zones) ==
    LET Near(z) == 1000 * Length(z.center - entry) <= 15 * entry
    IN  IF SomeZone(zones, Near) /\ FirstZone(zones, Near).strength >= 300
        THEN FirstZone(zones, Near).center ELSE entry

\* score_entry_vs_confluence
ZoneScore(entry, zones) ==
    LET Holds(z) == z.low <= entry /\ entry <= z.high
    IN  CASE SomeZone(zones, Holds) -> FirstZone(zones, Holds).strength
          [] \E i \in DOMAIN zones : 1000 * Length(entry - zones[i].center)
                                     < 20 * zones[i].center -> 300
          [] OTHER -> 0
=============================================================================
