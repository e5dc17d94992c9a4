-------------------------- MODULE Research_proofs ---------------------------
(***************************************************************************)
(* The backtests.  The two simulators of a trade, for any setups and bars: *)
(* a trade loses no more than its risk, and both tell the same story up to *)
(* the first target.  The portfolio backtests, for any windows, rewards    *)
(* and limits: a trade is sized on what was known when it was entered.     *)
(***************************************************************************)
EXTENDS TradeSimulation, PortfolioBacktest, SumTheorems

-----------------------------------------------------------------------------
(* The simulators of a trade                                               *)

\* What a price is worth to the side of the trade: more is better.
Worth(p) == IF Side = "LONG" THEN p ELSE -p

Outcomes ==
    {"NONE", "STOP_LOSS", "TP3_HIT", "TIME_STOP", "PROTECTIVE_EXIT", "PARTIAL_STOPPED", "OPEN",
     "TP1", "NO_TRIGGER", "FAKEOUT_TRIGGER", "OVEREXTENDED_ENTRY", "INVALID"}

Lives == [at : {"open", "done"}, fill : Int, hits : 0..3, stop : Int, pnl : Int,
          outcome : Outcomes, exitAge : Int, firstHit : Int]

Singles == [at : {"open", "done"}, fill : Int, pnl : Int, outcome : Outcomes, exitAge : Int]

TargetCount == Len(setup.targets)

\* No target of a setup lies behind its stop.
TargetsPastStop ==
    \A s \in Setups : \A i \in 1..Len(s.targets) : NoWorse(s.side, s.targets[i], s.stop)

AtStake(l) == Worth(l.fill) - Worth(setup.stop)

\* No target taken was behind the fill.
TargetsAhead(l) == \A i \in 1..l.hits : Worth(Target(i)) >= Worth(l.fill)

\* What the targets taken have brought: never more than their part of the risk lost.
Banked(l) ==
    /\ l.pnl >= -((10 - SizeLeft(l.hits)) * AtStake(l))
    /\ TargetsAhead(l) => l.pnl >= 0

\* A trade that is open after bar n: its stop has not been met, and after a target it
\* is no worse than the fill.
OpenWell(l, n) ==
    l.at = "open" =>
        /\ Worth(l.fill) > Worth(setup.stop) /\ Worth(l.stop) >= Worth(setup.stop)
        /\ l.hits < 3 /\ l.exitAge <= n /\ l.outcome = "NONE"
        /\ l.hits = 0 => l.stop = setup.stop /\ l.pnl = 0 /\ l.firstHit = -1 /\ l.exitAge = -1
        /\ l.hits > 0 => Worth(l.stop) >= Worth(l.fill)
        /\ Banked(l)

DoneWell(l) ==
    l.at = "done" =>
        /\ l.outcome = "STOP_LOSS" /\ l.hits = 0 => l.pnl <= 0
        /\ l.pnl >= -(10 * Abs(AtStake(l)))
        /\ l.hits > 0 /\ l.exitAge > l.firstHit /\ TargetsAhead(l) => l.pnl >= 0

LifeWell(l, n) ==
    /\ l \in Lives /\ l.hits <= TargetCount
    /\ OpenWell(l, n) /\ DoneWell(l)

\* Up to TP1 both are open or ended alike; at TP1 the single one ends.
Agreement(l, s) ==
    \/ /\ l.at = "open" /\ l.hits = 0 /\ l.exitAge = -1 /\ l.pnl = 0
       /\ s.at = "open" /\ s.fill = l.fill /\ s.exitAge = -1 /\ s.pnl = 0
    \/ l.hits > 0 /\ s.at = "done" /\ s.outcome = "TP1" /\ s.exitAge = l.firstHit
    \/ /\ l.at = "done" /\ l.hits = 0 /\ s.at = "done" /\ s.outcome = l.outcome
       /\ s.exitAge = l.exitAge /\ 10 * s.pnl = l.pnl

SimTypes ==
    /\ setup \in Setups /\ age \in Nat /\ tied \in BOOLEAN
    /\ phase \in {"waiting", "triggered", "open", "over"}
    /\ life \in Lives /\ single \in Singles

SimInv ==
    /\ SimTypes
    /\ phase \in {"waiting", "triggered"} =>
          life = FreshLife(setup.entry) /\ single = FreshSingle(setup.entry)
    /\ phase \in {"open", "over"} => LifeWell(life, age)
    /\ ~tied /\ ~TargetCrossed(Side, life.fill, Target(1)) => Agreement(life, single)

-----------------------------------------------------------------------------
LEMMA SetupTypes ==
    ASSUME setup \in Setups
    PROVE  /\ Side \in Sides /\ setup.entry \in Int /\ setup.stop \in Int
           /\ TargetCount \in 1..3
           /\ \A i \in 1..TargetCount : Target(i) \in Int
           /\ TargetsPastStop => \A i \in 1..TargetCount : Worth(Target(i)) >= Worth(setup.stop)
<1>1. /\ Side \in Sides /\ setup.entry \in Int /\ setup.stop \in Int
      /\ TargetCount \in 1..3 /\ setup.targets \in Seq(Int)
  BY SimulationAssumption DEF SimulationAssumption, Side, TargetCount
<1>2. \A i \in 1..TargetCount : Target(i) \in Int
  BY <1>1 DEF Target, TargetCount
<1>3. TargetsPastStop => \A i \in 1..TargetCount : NoWorse(Side, Target(i), setup.stop)
  BY DEF TargetsPastStop, Side, Target, TargetCount
<1> QED
  BY <1>1, <1>2, <1>3 DEF NoWorse, Worth, Sides

LEMMA WorthIsInt == \A a \in Int : Worth(a) \in Int
BY DEF Worth

\* Prices, compared by what they are worth.
LEMMA Prices ==
    ASSUME Side \in Sides
    PROVE  \A a, b \in Int :
              /\ Worth(a) \in Int
              /\ NoWorse(Side, a, b) <=> Worth(a) >= Worth(b)
              /\ Gain(a, b) = Worth(b) - Worth(a) /\ Gain(a, b) \in Int
              /\ Abs(a - b) = Abs(Worth(a) - Worth(b))
              /\ Tighter(Side, a, b) \in {a, b}
              /\ Worth(Tighter(Side, a, b)) >= Worth(a) /\ Worth(Tighter(Side, a, b)) >= Worth(b)
<1>1. CASE Side = "LONG"
  BY <1>1 DEF Worth, NoWorse, Gain, Abs, Tighter
<1>2. CASE Side = "SHORT"
  BY <1>2 DEF Worth, NoWorse, Gain, Abs, Tighter
<1> QED
  BY <1>1, <1>2 DEF Sides

LEMMA BarsInOrder ==
    ASSUME NEW bar \in Bars, Side \in Sides
    PROVE  /\ bar.open \in Int /\ bar.close \in Int /\ Best(bar) \in Int /\ Worst(bar) \in Int
           /\ Worth(Worst(bar)) <= Worth(bar.open) /\ Worth(bar.open) <= Worth(Best(bar))
           /\ Worth(Worst(bar)) <= Worth(bar.close) /\ Worth(bar.close) <= Worth(Best(bar))
<1>1. BarPrices \subseteq Int
  BY SimulationAssumption DEF SimulationAssumption
<1>2. /\ bar.open \in Int /\ bar.high \in Int /\ bar.low \in Int /\ bar.close \in Int
      /\ bar.low <= bar.open /\ bar.open <= bar.high
      /\ bar.low <= bar.close /\ bar.close <= bar.high
  BY <1>1 DEF Bars
<1> QED
  BY <1>2 DEF Best, Worst, Worth, Sides

\* What a bar touches
LEMMA BarTouches ==
    ASSUME NEW bar \in Bars, Side \in Sides, NEW p \in Int
    PROVE  /\ BarHitsStop(bar, p) <=> Worth(p) >= Worth(Worst(bar))
           /\ BarHitsTarget(bar, p) <=> Worth(Best(bar)) >= Worth(p)
BY BarsInOrder, Prices DEF BarHitsStop, BarHitsTarget, StopCrossed, TargetCrossed

LEMMA Sizes ==
    /\ SizeLeft(0) = 10 /\ SizeLeft(1) = 6 /\ SizeLeft(2) = 3 /\ SizeLeft(3) = 0
    /\ TargetSize(1) = 4 /\ TargetSize(2) = 3 /\ TargetSize(3) = 3
BY DEF SizeLeft, TargetSize

LEMMA ReachedTargets ==
    ASSUME setup \in Setups, NEW l \in Lives, l.hits <= TargetCount, NEW bar \in Bars
    PROVE  /\ TargetsReached(l, bar) \in l.hits..TargetCount
           /\ \A i \in l.hits + 1..TargetsReached(l, bar) : BarHitsTarget(bar, Target(i))
           /\ TargetsReached(l, bar) < TargetCount =>
                 ~BarHitsTarget(bar, Target(TargetsReached(l, bar) + 1))
<1> DEFINE last == TargetCount
           Hit(i) == BarHitsTarget(bar, Target(i))
<1>1. last \in 1..3 /\ l.hits \in 0..3 /\ l.hits <= last
  BY SetupTypes DEF Lives
<1>2. \E n \in l.hits..last : (\A i \in l.hits + 1..n : Hit(i)) /\ (n < last => ~Hit(n + 1))
  <2> HIDE DEF Hit, last
  <2>1. CASE l.hits = last
    BY <1>1, <2>1
  <2>2. CASE l.hits < last /\ ~Hit(l.hits + 1)
    BY <1>1, <2>2
  <2>3. CASE l.hits < last /\ Hit(l.hits + 1) /\ l.hits + 1 = last
    <3>1. \A i \in l.hits + 1..last : Hit(i)
      BY <1>1, <2>3
    <3> QED
      BY <1>1, <2>3, <3>1
  <2>4. CASE l.hits + 1 < last /\ Hit(l.hits + 1) /\ ~Hit(l.hits + 2)
    <3>1. \A i \in l.hits + 1..l.hits + 1 : Hit(i)
      BY <1>1, <2>4
    <3> QED
      BY <1>1, <2>4, <3>1
  <2>5. CASE l.hits + 1 < last /\ Hit(l.hits + 1) /\ Hit(l.hits + 2) /\ l.hits + 2 = last
    <3>1. \A i \in l.hits + 1..last : i = l.hits + 1 \/ i = l.hits + 2
      BY <1>1, <2>5
    <3> QED
      BY <1>1, <2>5, <3>1
  <2>6. CASE l.hits + 2 < last /\ Hit(l.hits + 1) /\ Hit(l.hits + 2)
    <3>1. l.hits = 0 /\ last = 3
      BY <1>1, <2>6
    <3>2. Hit(1) /\ Hit(2)
      BY <2>6, <3>1
    <3>3. CASE Hit(3)
      <4>1. \A i \in 0 + 1..3 : Hit(i)
        <5>1. \A i \in 0 + 1..3 : i = 1 \/ i = 2 \/ i = 3
          OBVIOUS
        <5> QED
          BY <3>2, <3>3, <5>1
      <4> QED
        BY <3>1, <4>1
    <3>4. CASE ~Hit(3)
      <4>1. \A i \in 0 + 1..2 : Hit(i)
        <5>1. \A i \in 0 + 1..2 : i = 1 \/ i = 2
          OBVIOUS
        <5> QED
          BY <3>2, <5>1
      <4> QED
        BY <3>1, <3>4, <4>1
    <3> QED
      BY <3>3, <3>4
  <2> QED
    BY <1>1, <2>1, <2>2, <2>3, <2>4, <2>5, <2>6
<1> HIDE DEF Hit, last
<1> DEFINE R == TargetsReached(l, bar)
<1>3. R = CHOOSE n \in l.hits..last : (\A i \in l.hits + 1..n : Hit(i)) /\ (n < last => ~Hit(n + 1))
  BY DEF TargetsReached, Hit, last, TargetCount
<1>4. R \in l.hits..last /\ (\A i \in l.hits + 1..R : Hit(i)) /\ (R < last => ~Hit(R + 1))
  BY <1>2, <1>3
<1> QED
  BY <1>4 DEF Hit, last

-----------------------------------------------------------------------------
(* The steps of the lifecycle                                              *)

\* Targets that are taken bank their part.
LEMMA TakingBanks ==
    ASSUME setup \in Setups, TargetsPastStop, NEW l \in Lives, NEW n0 \in Int, NEW n \in Int,
           l.at = "open", OpenWell(l, n0),
           NEW m \in Nat, l.hits < m, m <= TargetCount
    PROVE  LET h == TakeTargets(l, m, n) IN
           /\ h \in Lives /\ h.at = "open" /\ h.fill = l.fill /\ h.stop = l.stop
           /\ h.hits = m /\ h.exitAge = n /\ h.outcome = l.outcome
           /\ h.firstHit = IF l.hits = 0 THEN n ELSE l.firstHit
           /\ Banked(h)
<1> DEFINE h == TakeTargets(l, m, n)
           more == Taking(l, 1, m) + Taking(l, 2, m) + Taking(l, 3, m)
<1>1. /\ Side \in Sides /\ setup.stop \in Int /\ TargetCount \in 1..3
      /\ \A i \in 1..TargetCount :
            Target(i) \in Int /\ Worth(Target(i)) >= Worth(setup.stop)
  BY SetupTypes
<1>2. l.fill \in Int /\ l.hits \in 0..3 /\ l.pnl \in Int /\ l.firstHit \in Int
  BY DEF Lives
<1>0. TargetCount \in 1..3 /\ l.hits \in 0..3
  BY <1>1, <1>2
<1>3. m \in 1..3 /\ m <= TargetCount /\ l.hits < m
  <2>1. m <= TargetCount /\ l.hits < m /\ m \in Nat
    OBVIOUS
  <2> QED
    BY <1>0, <2>1
<1> DEFINE stake == Worth(l.fill) - Worth(setup.stop)
           g(i) == Worth(Target(i)) - Worth(l.fill)
<1>4. stake \in Int /\ stake > 0 /\ Worth(l.fill) \in Int /\ Worth(setup.stop) \in Int
  BY <1>1, <1>2, WorthIsInt DEF OpenWell
<1>5. ASSUME NEW i \in 1..TargetCount
      PROVE  /\ g(i) \in Int /\ g(i) >= -stake /\ Gain(l.fill, Target(i)) = g(i)
             /\ (g(i) >= 0 <=> Worth(Target(i)) >= Worth(l.fill))
  <2>1. Target(i) \in Int /\ Worth(Target(i)) >= Worth(setup.stop) /\ Worth(Target(i)) \in Int
    BY <1>1, WorthIsInt
  <2>2. Gain(l.fill, Target(i)) = g(i)
    BY <1>1, <1>2, <2>1, Prices
  <2> QED
    BY <1>4, <2>1, <2>2
<1>51. \A i \in 1..m : i \in 1..TargetCount
  BY <1>1, <1>3
<1>52. \A i \in 1..m : /\ g(i) \in Int /\ Gain(l.fill, Target(i)) = g(i)
                        /\ (g(i) >= 0 <=> Worth(Target(i)) >= Worth(l.fill))
  BY <1>5, <1>51
<1>53. \A i \in 1..l.hits : i \in 1..m
  BY <1>2, <1>3
<1>6. ASSUME NEW i \in 1..3
      PROVE  Taking(l, i, m) = IF l.hits < i /\ i <= m THEN TargetSize(i) * g(i) ELSE 0
  <2>1. i \in l.hits + 1..m <=> l.hits < i /\ i <= m
    BY <1>2, <1>3
  <2>2. CASE i \in l.hits + 1..m
    <3>1. i \in 1..m
      BY <1>2, <2>1, <2>2
    <3> QED
      BY <1>52, <2>1, <2>2, <3>1 DEF Taking
  <2>3. CASE i \notin l.hits + 1..m
    BY <2>1, <2>3 DEF Taking
  <2> QED
    BY <2>2, <2>3
<1>7. l.pnl >= -((10 - SizeLeft(l.hits)) * stake) /\ (TargetsAhead(l) => l.pnl >= 0)
  BY DEF OpenWell, Banked, AtStake
<1>8. TargetsAhead(l) <=> \A i \in 1..l.hits : g(i) >= 0
  BY <1>52, <1>53 DEF TargetsAhead
<1> HIDE DEF stake, g
<1>9. /\ more \in Int
      /\ l.pnl + more >= -((10 - SizeLeft(m)) * stake)
      /\ (\A i \in 1..m : g(i) >= 0) => l.pnl + more >= 0
  <2>1. /\ Taking(l, 1, m) = IF l.hits < 1 /\ 1 <= m THEN 4 * g(1) ELSE 0
        /\ Taking(l, 2, m) = IF l.hits < 2 /\ 2 <= m THEN 3 * g(2) ELSE 0
        /\ Taking(l, 3, m) = IF l.hits < 3 /\ 3 <= m THEN 3 * g(3) ELSE 0
    BY <1>6, Sizes
  <2>2. (\A i \in 1..m : g(i) >= 0) => l.pnl >= 0
    BY <1>2, <1>3, <1>7, <1>8
  <2>3. g(1) \in Int /\ g(1) >= -stake
    BY <1>1, <1>5
  <2>4. m = 1 \/ m = 2 \/ m = 3
    BY <1>3
  <2>5. m >= 2 => g(2) \in Int /\ g(2) >= -stake
    BY <1>1, <1>3, <1>5
  <2>6. m = 3 => g(3) \in Int /\ g(3) >= -stake
    BY <1>1, <1>3, <1>5
  <2>7. (\A i \in 1..m : g(i) >= 0) =>
           g(1) >= 0 /\ (m >= 2 => g(2) >= 0) /\ (m = 3 => g(3) >= 0)
    BY <1>3
  <2>8. CASE l.hits = 0 /\ m = 1
    BY <1>2, <1>4, <1>7, <2>1, <2>2, <2>3, <2>7, <2>8, Sizes
  <2>9. CASE l.hits = 0 /\ m = 2
    BY <1>2, <1>4, <1>7, <2>1, <2>2, <2>3, <2>5, <2>7, <2>9, Sizes
  <2>10. CASE l.hits = 0 /\ m = 3
    BY <1>2, <1>4, <1>7, <2>1, <2>2, <2>3, <2>5, <2>6, <2>7, <2>10, Sizes
  <2>11. CASE l.hits = 1 /\ m = 2
    BY <1>2, <1>4, <1>7, <2>1, <2>2, <2>5, <2>7, <2>11, Sizes
  <2>12. CASE l.hits = 1 /\ m = 3
    BY <1>2, <1>4, <1>7, <2>1, <2>2, <2>5, <2>6, <2>7, <2>12, Sizes
  <2>13. CASE l.hits = 2 /\ m = 3
    BY <1>2, <1>4, <1>7, <2>1, <2>2, <2>6, <2>7, <2>13, Sizes
  <2> QED
    BY <1>2, <1>3, <2>4, <2>8, <2>9, <2>10, <2>11, <2>12, <2>13
<1>10. /\ h = [l EXCEPT !.hits = m, !.exitAge = n,
                        !.firstHit = IF l.hits = 0 THEN n ELSE @, !.pnl = @ + more]
  <2>1. l.pnl + Taking(l, 1, m) + Taking(l, 2, m) + Taking(l, 3, m) = l.pnl + more
    <3>1. Taking(l, 1, m) \in Int /\ Taking(l, 2, m) \in Int /\ Taking(l, 3, m) \in Int
      <4>1. \A i \in 1..3 : l.hits < i /\ i <= m => g(i) \in Int
        <5>1. \A i \in 1..3 : i <= m => i \in 1..m
          BY <1>3
        <5> QED
          BY <1>52, <5>1
      <4> QED
        BY <1>6, <4>1, Sizes
    <3> QED
      BY <1>2, <3>1
  <2> QED
    BY <2>1 DEF TakeTargets
<1> HIDE DEF h, more
<1>11. /\ h \in Lives /\ h.at = "open" /\ h.fill = l.fill /\ h.stop = l.stop
       /\ h.hits = m /\ h.exitAge = n /\ h.outcome = l.outcome
       /\ h.firstHit = (IF l.hits = 0 THEN n ELSE l.firstHit)
       /\ h.pnl = l.pnl + more
  <2> DEFINE sum == l.pnl + more
             first == IF l.hits = 0 THEN n ELSE l.firstHit
  <2>1. sum \in Int /\ first \in Int /\ m \in 0..3
    BY <1>2, <1>3, <1>9
  <2>2. h = [l EXCEPT !.hits = m, !.exitAge = n, !.firstHit = first, !.pnl = sum]
    BY <1>10
  <2> HIDE DEF sum, first
  <2>3. /\ h \in Lives /\ h.at = l.at /\ h.fill = l.fill /\ h.stop = l.stop
        /\ h.hits = m /\ h.exitAge = n /\ h.outcome = l.outcome
        /\ h.firstHit = first /\ h.pnl = sum
    BY <2>1, <2>2 DEF Lives
  <2> QED
    BY <2>3 DEF sum, first
<1>12. Banked(h)
  <2>1. TargetsAhead(h) => \A i \in 1..m : g(i) >= 0
    BY <1>11, <1>52 DEF TargetsAhead
  <2>2. AtStake(h) = stake
    BY <1>11 DEF AtStake, stake
  <2> QED
    BY <1>9, <1>11, <2>1, <2>2 DEF Banked
<1> QED
  BY <1>11, <1>12 DEF h

\* The rest leaves at a price that is not behind the stop.
LEMMA ExitedWell ==
    ASSUME setup \in Setups, NEW l \in Lives, NEW n \in Int, NEW n0 \in Int,
           Banked(l), Worth(l.fill) > Worth(setup.stop), l.hits <= TargetCount,
           NEW price \in Int, Worth(price) >= Worth(setup.stop), NEW outcome \in Outcomes,
           outcome = "STOP_LOSS" /\ l.hits = 0 => price = setup.stop /\ l.pnl = 0,
           l.hits > 0 => n <= l.firstHit \/ Worth(price) >= Worth(l.fill)
    PROVE  LifeWell(Exited(l, outcome, price, n), n0) /\ Exited(l, outcome, price, n).at = "done"
<1> DEFINE e == Exited(l, outcome, price, n)
           stake == Worth(l.fill) - Worth(setup.stop)
           g == Worth(price) - Worth(l.fill)
           more == SizeLeft(l.hits) * g
<1>1. Side \in Sides /\ setup.stop \in Int
  BY SetupTypes
<1>2. l.fill \in Int /\ l.hits \in 0..3 /\ l.pnl \in Int /\ l.firstHit \in Int
  BY DEF Lives
<1>3. stake \in Int /\ stake > 0 /\ g \in Int /\ g >= -stake /\ Gain(l.fill, price) = g
      /\ (g >= 0 <=> Worth(price) >= Worth(l.fill))
  <2>1. Worth(l.fill) \in Int /\ Worth(setup.stop) \in Int /\ Worth(price) \in Int
    BY <1>1, <1>2, WorthIsInt
  <2>2. Gain(l.fill, price) = g
    BY <1>1, <1>2, Prices
  <2> QED
    BY <2>1, <2>2
<1>4. l.pnl >= -((10 - SizeLeft(l.hits)) * stake) /\ (TargetsAhead(l) => l.pnl >= 0)
  BY DEF Banked, AtStake
<1>5. price = setup.stop => g = -stake
  BY <1>1, <1>2, WorthIsInt
<1> HIDE DEF stake, g
<1>6. more \in Int /\ l.pnl + more >= -(10 * stake) /\ (g >= 0 => more >= 0)
      /\ (l.hits = 0 => more = 10 * g)
  <2>1. CASE l.hits = 0
    BY <1>2, <1>3, <1>4, <2>1, Sizes
  <2>2. CASE l.hits = 1
    BY <1>2, <1>3, <1>4, <2>2, Sizes
  <2>3. CASE l.hits = 2
    BY <1>2, <1>3, <1>4, <2>3, Sizes
  <2>4. CASE l.hits = 3
    BY <1>2, <1>3, <1>4, <2>4, Sizes
  <2> QED
    BY <1>2, <2>1, <2>2, <2>3, <2>4
<1>7. e = [l EXCEPT !.at = "done", !.outcome = outcome, !.exitAge = n, !.pnl = @ + more]
  BY <1>3 DEF Exited
<1> HIDE DEF e, more
<1>8. /\ e \in Lives /\ e.at = "done" /\ e.fill = l.fill /\ e.hits = l.hits /\ e.outcome = outcome
      /\ e.exitAge = n /\ e.firstHit = l.firstHit /\ e.pnl = l.pnl + more
  <2> DEFINE sum == l.pnl + more
  <2>1. sum \in Int
    BY <1>2, <1>6
  <2>2. e = [l EXCEPT !.at = "done", !.outcome = outcome, !.exitAge = n, !.pnl = sum]
    BY <1>7
  <2> HIDE DEF sum
  <2>3. /\ e \in Lives /\ e.at = "done" /\ e.fill = l.fill /\ e.hits = l.hits /\ e.outcome = outcome
        /\ e.exitAge = n /\ e.firstHit = l.firstHit /\ e.pnl = sum
    BY <2>1, <2>2 DEF Lives
  <2> QED
    BY <2>3 DEF sum
<1>9. AtStake(e) = stake /\ Abs(AtStake(e)) = stake
  BY <1>3, <1>8 DEF AtStake, Abs, stake
<1>10. TargetsAhead(e) <=> TargetsAhead(l)
  BY <1>8 DEF TargetsAhead
<1>11. DoneWell(e)
  <2>1. e.outcome = "STOP_LOSS" /\ e.hits = 0 => e.pnl <= 0
    BY <1>2, <1>3, <1>5, <1>6, <1>8
  <2>2. e.hits > 0 /\ e.exitAge > e.firstHit /\ TargetsAhead(e) => e.pnl >= 0
    BY <1>2, <1>3, <1>4, <1>6, <1>8, <1>10
  <2> QED
    BY <1>6, <1>8, <1>9, <2>1, <2>2 DEF DoneWell
<1> QED
  BY <1>8, <1>11 DEF LifeWell, OpenWell, e

\* The bar takes no target and ends nothing, or the rest of the trade goes on with a
\* trailed stop: what LifeRuns makes of an open trade.
LEMMA LifeRunsWell ==
    ASSUME setup \in Setups, TargetsPastStop, NEW l \in Lives, l.hits <= TargetCount,
           NEW n \in Nat, l.at = "open", OpenWell(l, n - 1), NEW bar \in Bars,
           NEW wide \in BOOLEAN, ~BarHitsStop(bar, l.stop)
    PROVE  /\ LifeWell(LifeRuns(l, bar, wide, n), n)
           /\ LifeRuns(l, bar, wide, n).fill = l.fill
<1> DEFINE reached == TargetsReached(l, bar)
           banked == TakeTargets(l, reached, n)
           hit == IF reached = l.hits THEN l ELSE [banked EXCEPT !.stop = Trailed(l, reached)]
<1>1. /\ Side \in Sides /\ setup.stop \in Int /\ TargetCount \in 1..3
      /\ \A i \in 1..TargetCount : Target(i) \in Int
  BY SetupTypes
<1>2. l.fill \in Int /\ l.stop \in Int /\ l.hits \in 0..3 /\ l.pnl \in Int /\ l.exitAge \in Int
      /\ l.firstHit \in Int /\ l.outcome \in Outcomes
  BY DEF Lives
<1>3. reached \in l.hits..TargetCount
  BY ReachedTargets DEF TargetCount
<1>4. reached \in 0..3 /\ l.hits <= reached /\ reached <= TargetCount
  BY <1>1, <1>2, <1>3
<1>5. /\ Worth(l.fill) > Worth(setup.stop) /\ Worth(l.stop) >= Worth(setup.stop)
      /\ l.hits < 3 /\ l.exitAge <= n - 1 /\ l.outcome = "NONE"
      /\ l.hits = 0 => l.stop = setup.stop /\ l.pnl = 0 /\ l.firstHit = -1 /\ l.exitAge = -1
      /\ l.hits > 0 => Worth(l.stop) >= Worth(l.fill)
      /\ Banked(l)
  BY DEF OpenWell
<1>6. /\ Worth(l.fill) \in Int /\ Worth(l.stop) \in Int /\ Worth(setup.stop) \in Int
      /\ Worth(Worst(bar)) \in Int /\ Worth(bar.close) \in Int /\ bar.close \in Int
      /\ Worth(bar.close) > Worth(l.stop)
  <2>1. bar.close \in Int /\ Worst(bar) \in Int /\ Worth(Worst(bar)) <= Worth(bar.close)
    BY <1>1, BarsInOrder
  <2>2. ~(Worth(l.stop) >= Worth(Worst(bar)))
    BY <1>1, <1>2, BarTouches
  <2> QED
    BY <1>1, <1>2, <2>1, <2>2, WorthIsInt
<1> HIDE DEF reached, hit, banked
\* The trade after the targets of the bar
<1>7. /\ hit \in Lives /\ hit.at = "open" /\ hit.fill = l.fill /\ hit.hits = reached
      /\ hit.exitAge <= n /\ hit.outcome = "NONE" /\ Banked(hit)
      /\ Worth(hit.stop) >= Worth(l.stop)
      /\ reached > 0 => Worth(hit.stop) >= Worth(l.fill)
      /\ reached = 0 => hit.stop = setup.stop /\ hit.pnl = 0 /\ hit.firstHit = -1 /\ hit.exitAge = -1
      /\ reached > 0 => \/ l.hits = 0 /\ hit.firstHit = n
                        \/ l.hits > 0
  <2>1. CASE reached = l.hits
    <3>1. hit = l
      BY <2>1 DEF hit
    <3> QED
      BY <1>2, <1>5, <1>6, <2>1, <3>1
  <2>2. CASE reached # l.hits
    <3>1. reached \in Nat /\ l.hits < reached /\ n - 1 \in Int /\ n \in Int
      BY <1>2, <1>4, <2>2
    <3>2. /\ banked \in Lives /\ banked.at = "open" /\ banked.fill = l.fill /\ banked.stop = l.stop
          /\ banked.hits = reached /\ banked.exitAge = n /\ banked.outcome = l.outcome
          /\ banked.firstHit = IF l.hits = 0 THEN n ELSE l.firstHit
          /\ Banked(banked)
      BY <1>4, <3>1, TakingBanks DEF banked
    <3> DEFINE to == Trailed(l, reached)
    <3>3. to \in Int /\ Worth(to) >= Worth(l.stop) /\ Worth(to) >= Worth(l.fill)
      <4> DEFINE first == IF l.hits < 1 /\ reached >= 1 THEN Tighter(Side, l.stop, l.fill) ELSE l.stop
      <4>1. first \in Int /\ Worth(first) \in Int /\ Worth(first) >= Worth(l.stop)
            /\ Worth(first) >= Worth(l.fill)
        <5>1. CASE l.hits < 1 /\ reached >= 1
          <6>1. first = Tighter(Side, l.stop, l.fill)
            BY <5>1
          <6> QED
            BY <1>1, <1>2, <6>1, Prices, WorthIsInt
        <5>2. CASE ~(l.hits < 1 /\ reached >= 1)
          BY <1>2, <1>4, <1>5, <1>6, <3>1, <5>2
        <5> QED
          BY <5>1, <5>2
      <4>2. to = IF l.hits < 2 /\ reached >= 2 THEN Tighter(Side, first, Target(1)) ELSE first
        BY DEF Trailed, ManagedStopAfterTarget
      <4> HIDE DEF first, to
      <4>3. Target(1) \in Int
        BY <1>1
      <4>4. /\ Tighter(Side, first, Target(1)) \in Int
            /\ Worth(Tighter(Side, first, Target(1))) >= Worth(first)
            /\ Worth(Tighter(Side, first, Target(1))) \in Int
        <5>1. Tighter(Side, first, Target(1)) \in {first, Target(1)}
          BY <1>1, <4>1, <4>3, Prices
        <5> QED
          BY <1>1, <4>1, <4>3, <5>1, Prices, WorthIsInt
      <4> QED
        BY <1>6, <4>1, <4>2, <4>4
    <3> HIDE DEF to
    <3>4. hit = [banked EXCEPT !.stop = to]
      BY <2>2 DEF hit, to
    <3>5. /\ hit \in Lives /\ hit.at = "open" /\ hit.fill = l.fill /\ hit.stop = to
          /\ hit.hits = reached /\ hit.exitAge = n /\ hit.outcome = l.outcome
          /\ hit.firstHit = banked.firstHit /\ hit.pnl = banked.pnl
      BY <3>2, <3>3, <3>4 DEF Lives
    <3>6. Banked(hit)
      BY <3>2, <3>5 DEF Banked, AtStake, TargetsAhead
    <3> QED
      BY <1>2, <1>5, <3>1, <3>2, <3>3, <3>5, <3>6
  <2> QED
    BY <2>1, <2>2
<1>8. LifeRuns(l, bar, wide, n) =
        IF SizeLeft(reached) = 0 THEN AllTaken(hit)
        ELSE IF reached = 0 /\ n >= TimeLimit THEN Exited(hit, "TIME_STOP", bar.close, n)
        ELSE IF SpikesAgainst(bar, wide, l.fill) THEN Exited(hit, "PROTECTIVE_EXIT", bar.close, n)
        ELSE hit
  BY DEF LifeRuns, reached, hit, banked
<1>9. CASE SizeLeft(reached) = 0
  <2>1. reached = 3
    BY <1>4, <1>9, Sizes
  <2> DEFINE o == IF hit.pnl <= 0 THEN "STOP_LOSS" ELSE "TP3_HIT"
             a == [hit EXCEPT !.at = "done", !.outcome = o]
  <2>2. LifeRuns(l, bar, wide, n) = a
    BY <1>8, <1>9 DEF AllTaken
  <2>3. o \in Outcomes
    BY DEF Outcomes
  <2> HIDE DEF o
  <2>4. /\ a \in Lives /\ a.at = "done" /\ a.fill = hit.fill /\ a.hits = hit.hits
        /\ a.pnl = hit.pnl
    BY <1>7, <2>3 DEF Lives
  <2> HIDE DEF a
  <2>5. a.pnl >= -(10 * AtStake(a)) /\ (TargetsAhead(a) => a.pnl >= 0)
    <3>1. AtStake(a) = AtStake(hit) /\ (TargetsAhead(a) <=> TargetsAhead(hit))
      BY <2>4 DEF AtStake, TargetsAhead
    <3>2. hit.pnl >= -((10 - 0) * AtStake(hit)) /\ (TargetsAhead(hit) => hit.pnl >= 0)
      BY <1>7, <2>1, Sizes DEF Banked
    <3> QED
      BY <2>4, <3>1, <3>2
  <2>6. AtStake(a) \in Int /\ AtStake(a) > 0 /\ Abs(AtStake(a)) = AtStake(a)
    BY <1>5, <1>6, <1>7, <2>4 DEF AtStake, Abs
  <2>7. DoneWell(a)
    BY <1>7, <2>1, <2>4, <2>5, <2>6 DEF DoneWell
  <2> QED
    BY <1>1, <1>4, <1>7, <2>2, <2>4, <2>7 DEF LifeWell, OpenWell
<1>10. ASSUME SizeLeft(reached) # 0, NEW o \in {"TIME_STOP", "PROTECTIVE_EXIT"},
              LifeRuns(l, bar, wide, n) = Exited(hit, o, bar.close, n),
              reached > 0 => SpikesAgainst(bar, wide, l.fill)
       PROVE  /\ LifeWell(LifeRuns(l, bar, wide, n), n)
              /\ LifeRuns(l, bar, wide, n).fill = l.fill
  <2>1. l.hits > 0 => ~SpikesAgainst(bar, wide, l.fill)
    <3> SUFFICES ASSUME l.hits > 0 PROVE NoWorse(Side, bar.close, l.fill)
      BY DEF SpikesAgainst
    <3>1. Worth(bar.close) >= Worth(l.fill)
      BY <1>5, <1>6
    <3> QED
      BY <1>1, <1>2, <1>6, <3>1, Prices
  <2>2. hit.hits > 0 => n <= hit.firstHit
    BY <1>2, <1>4, <1>7, <1>10, <2>1
  <2>3. /\ Worth(hit.fill) > Worth(setup.stop) /\ hit.hits <= TargetCount
        /\ Worth(bar.close) >= Worth(setup.stop) /\ n \in Int /\ o \in Outcomes /\ o # "STOP_LOSS"
    BY <1>1, <1>4, <1>5, <1>6, <1>7 DEF Outcomes
  <2>4. LifeWell(Exited(hit, o, bar.close, n), n)
    BY <1>6, <1>7, <2>2, <2>3, ExitedWell
  <2>5. Exited(hit, o, bar.close, n).fill = hit.fill
    BY <1>7 DEF Exited, Lives
  <2> QED
    BY <1>7, <1>10, <2>4, <2>5
<1>11. CASE SizeLeft(reached) # 0 /\ LifeRuns(l, bar, wide, n) = hit
  <2>1. reached < 3
    BY <1>4, <1>11, Sizes
  <2>2. OpenWell(hit, n)
    BY <1>2, <1>4, <1>5, <1>6, <1>7, <2>1, WorthIsInt DEF OpenWell, Lives
  <2>3. DoneWell(hit)
    BY <1>7 DEF DoneWell
  <2> QED
    BY <1>4, <1>7, <1>11, <2>2, <2>3 DEF LifeWell
<1> QED
  BY <1>4, <1>8, <1>9, <1>10, <1>11

\* The bar touches the stop: the rest leaves there, after a target if that came first.
LEMMA LifeStopsWell ==
    ASSUME setup \in Setups, TargetsPastStop, NEW l \in Lives, l.hits <= TargetCount,
           NEW n \in Nat, l.at = "open", OpenWell(l, n - 1), NEW bar \in Bars
    PROVE  /\ LifeWell(StoppedOut(l, n), n) /\ StoppedOut(l, n).fill = l.fill
           /\ l.hits < TargetCount => LifeWell(LifeTie(l, bar, n), n) /\ LifeTie(l, bar, n).fill = l.fill
<1>1. /\ Side \in Sides /\ setup.stop \in Int /\ TargetCount \in 1..3
  BY SetupTypes
<1>2. l.fill \in Int /\ l.stop \in Int /\ l.hits \in 0..3 /\ l.pnl \in Int /\ l.firstHit \in Int
  BY DEF Lives
<1>3. /\ Worth(l.fill) > Worth(setup.stop) /\ Worth(l.stop) >= Worth(setup.stop)
      /\ l.hits < 3 /\ l.outcome = "NONE"
      /\ l.hits = 0 => l.stop = setup.stop /\ l.pnl = 0
      /\ l.hits > 0 => Worth(l.stop) >= Worth(l.fill)
      /\ Banked(l)
  BY DEF OpenWell
<1>4. LifeWell(StoppedOut(l, n), n) /\ StoppedOut(l, n).fill = l.fill
  <2> DEFINE o == IF l.hits > 0 THEN "PARTIAL_STOPPED" ELSE "STOP_LOSS"
  <2>1. StoppedOut(l, n) = Exited(l, o, l.stop, n)
    BY DEF StoppedOut
  <2>2. /\ n \in Int /\ o \in Outcomes
        /\ o = "STOP_LOSS" /\ l.hits = 0 => l.stop = setup.stop /\ l.pnl = 0
        /\ l.hits > 0 => n <= l.firstHit \/ Worth(l.stop) >= Worth(l.fill)
    BY <1>3 DEF Outcomes
  <2> HIDE DEF o
  <2>3. LifeWell(Exited(l, o, l.stop, n), n)
    BY <1>2, <1>3, <2>2, ExitedWell
  <2>4. Exited(l, o, l.stop, n).fill = l.fill
    BY DEF Exited, Lives
  <2> QED
    BY <2>1, <2>3, <2>4
<1>5. ASSUME l.hits < TargetCount
      PROVE  LifeWell(LifeTie(l, bar, n), n) /\ LifeTie(l, bar, n).fill = l.fill
  <2> DEFINE m == l.hits + 1
             h == TakeTargets(l, m, n)
  <2>1. m \in Nat /\ l.hits < m /\ m <= TargetCount /\ n \in Int /\ n - 1 \in Int /\ m \in 1..3
    BY <1>1, <1>2, <1>5
  <2> HIDE DEF m
  <2>2. /\ h \in Lives /\ h.at = "open" /\ h.fill = l.fill /\ h.stop = l.stop
        /\ h.hits = m /\ h.exitAge = n /\ h.outcome = l.outcome
        /\ h.firstHit = (IF l.hits = 0 THEN n ELSE l.firstHit)
        /\ Banked(h)
    BY <2>1, TakingBanks
  <2> HIDE DEF h
  <2>3. LifeTie(l, bar, n) = (IF Abs(bar.open - Target(m)) < Abs(bar.open - l.stop)
                             THEN IF SizeLeft(h.hits) = 0 THEN AllTaken(h) ELSE StoppedOut(h, n)
                             ELSE StoppedOut(l, n))
    BY DEF LifeTie, h, m
  <2>4. LifeWell(StoppedOut(h, n), n) /\ StoppedOut(h, n).fill = l.fill
    <3>1. StoppedOut(h, n) = Exited(h, "PARTIAL_STOPPED", h.stop, n)
      BY <2>1, <2>2 DEF StoppedOut
    <3>2. h.hits > 0 => n <= h.firstHit \/ Worth(h.stop) >= Worth(h.fill)
      BY <1>2, <1>3, <2>1, <2>2
    <3>3. h.stop \in Int /\ Worth(h.stop) >= Worth(setup.stop) /\ Worth(h.fill) > Worth(setup.stop)
          /\ h.hits <= TargetCount /\ "PARTIAL_STOPPED" \in Outcomes
      BY <1>2, <1>3, <2>1, <2>2 DEF Outcomes
    <3>4. LifeWell(Exited(h, "PARTIAL_STOPPED", h.stop, n), n)
      BY <2>1, <2>2, <3>2, <3>3, ExitedWell
    <3>5. Exited(h, "PARTIAL_STOPPED", h.stop, n).fill = h.fill
      BY <2>2 DEF Exited, Lives
    <3> QED
      BY <2>2, <3>1, <3>4, <3>5
  <2>5. ASSUME SizeLeft(h.hits) = 0
        PROVE  LifeWell(AllTaken(h), n) /\ AllTaken(h).fill = l.fill
    <3>1. h.hits = 3 /\ m = 3
      BY <2>1, <2>2, <2>5, Sizes
    <3> DEFINE o == IF h.pnl <= 0 THEN "STOP_LOSS" ELSE "TP3_HIT"
               a == [h EXCEPT !.at = "done", !.outcome = o]
    <3>2. AllTaken(h) = a
      BY DEF AllTaken
    <3>3. o \in Outcomes
      BY DEF Outcomes
    <3> HIDE DEF o
    <3>4. /\ a \in Lives /\ a.at = "done" /\ a.fill = h.fill /\ a.hits = h.hits
          /\ a.pnl = h.pnl
      BY <2>2, <3>3 DEF Lives
    <3> HIDE DEF a
    <3>5. a.pnl >= -(10 * AtStake(a)) /\ (TargetsAhead(a) => a.pnl >= 0)
      <4>1. AtStake(a) = AtStake(h) /\ (TargetsAhead(a) <=> TargetsAhead(h))
        BY <3>4 DEF AtStake, TargetsAhead
      <4>2. h.pnl >= -((10 - 0) * AtStake(h)) /\ (TargetsAhead(h) => h.pnl >= 0)
        BY <2>2, <3>1, Sizes DEF Banked
      <4> QED
        BY <3>4, <4>1, <4>2
    <3>6. AtStake(a) \in Int /\ AtStake(a) > 0 /\ Abs(AtStake(a)) = AtStake(a)
      BY <1>1, <1>2, <1>3, <2>2, <3>4, WorthIsInt DEF AtStake, Abs
    <3>7. DoneWell(a)
      BY <3>1, <3>4, <3>5, <3>6 DEF DoneWell
    <3> QED
      BY <2>1, <2>2, <3>1, <3>2, <3>4, <3>7 DEF LifeWell, OpenWell
  <2> QED
    BY <1>4, <2>3, <2>4, <2>5
<1> QED
  BY <1>4, <1>5

\* One bar of the lifecycle
LEMMA LifeBarWell ==
    ASSUME setup \in Setups, TargetsPastStop, NEW n \in Nat, NEW l, LifeWell(l, n - 1),
           NEW bar \in Bars, NEW wide \in BOOLEAN
    PROVE  LifeWell(LifeBar(l, bar, wide, n), n) /\ LifeBar(l, bar, wide, n).fill = l.fill
<1>1. l \in Lives /\ l.hits <= TargetCount /\ OpenWell(l, n - 1) /\ DoneWell(l)
  BY DEF LifeWell
<1>2. CASE l.at = "done"
  BY <1>1, <1>2 DEF LifeBar, LifeWell, OpenWell
<1>3. CASE l.at = "open" /\ ~BarHitsStop(bar, l.stop)
  BY <1>1, <1>3, LifeRunsWell DEF LifeBar
<1>4. CASE l.at = "open" /\ BarHitsStop(bar, l.stop)
  BY <1>1, <1>4, LifeStopsWell DEF LifeBar, TargetCount
<1> QED
  BY <1>1, <1>2, <1>3, <1>4 DEF Lives

-----------------------------------------------------------------------------
(* The two simulators side by side                                         *)

\* How the trade ends leaves alone what it has taken and when.
LEMMA EndingsKeepHits ==
    ASSUME NEW l \in Lives, NEW o, NEW price, NEW n
    PROVE  /\ Exited(l, o, price, n).hits = l.hits /\ Exited(l, o, price, n).firstHit = l.firstHit
           /\ StoppedOut(l, n).hits = l.hits /\ StoppedOut(l, n).firstHit = l.firstHit
           /\ AllTaken(l).hits = l.hits /\ AllTaken(l).firstHit = l.firstHit
BY DEF Exited, StoppedOut, AllTaken, Lives

\* A bar takes the first target once: it stays taken, and its bar is remembered.
LEMMA FirstHitKept ==
    ASSUME setup \in Setups, TargetsPastStop, NEW n \in Nat, NEW l, LifeWell(l, n - 1),
           NEW bar \in Bars, NEW wide \in BOOLEAN
    PROVE  /\ l.hits > 0 => /\ LifeBar(l, bar, wide, n).hits > 0
                            /\ LifeBar(l, bar, wide, n).firstHit = l.firstHit
           /\ (/\ l.at = "open" /\ l.hits = 0 /\ ~BarHitsStop(bar, l.stop)
               /\ BarHitsTarget(bar, Target(1))) =>
                 /\ LifeBar(l, bar, wide, n).hits > 0
                 /\ LifeBar(l, bar, wide, n).firstHit = n
<1>1. l \in Lives /\ l.hits <= TargetCount /\ OpenWell(l, n - 1)
  BY DEF LifeWell
<1>2. TargetCount \in 1..3 /\ l.hits \in 0..3
  BY <1>1, SetupTypes DEF Lives
<1>3. CASE l.at = "done"
  BY <1>3 DEF LifeBar
<1>4. CASE l.at = "open" /\ ~BarHitsStop(bar, l.stop)
  <2> DEFINE reached == TargetsReached(l, bar)
             banked == TakeTargets(l, reached, n)
             to == Trailed(l, reached)
             hit == IF reached = l.hits THEN l ELSE [banked EXCEPT !.stop = to]
  <2>1. /\ reached \in l.hits..TargetCount
        /\ reached < TargetCount => ~BarHitsTarget(bar, Target(reached + 1))
    BY <1>1, ReachedTargets DEF TargetCount
  <2>2. reached \in 0..3 /\ l.hits <= reached /\ reached <= TargetCount
    BY <1>2, <2>1
  <2>3. LifeBar(l, bar, wide, n) =
          IF SizeLeft(reached) = 0 THEN AllTaken(hit)
          ELSE IF reached = 0 /\ n >= TimeLimit THEN Exited(hit, "TIME_STOP", bar.close, n)
          ELSE IF SpikesAgainst(bar, wide, l.fill) THEN Exited(hit, "PROTECTIVE_EXIT", bar.close, n)
          ELSE hit
    BY <1>4 DEF LifeBar, LifeRuns
  <2> HIDE DEF reached, banked, to
  <2>4. CASE reached = l.hits
    <3>1. hit = l
      BY <2>4
    <3>2. l.hits = 0 => ~BarHitsTarget(bar, Target(1))
      BY <1>2, <2>1, <2>4
    <3> HIDE DEF hit
    <3> QED
      BY <1>1, <2>3, <3>1, <3>2, EndingsKeepHits
  <2>5. CASE reached # l.hits
    <3>1. reached \in Nat /\ l.hits < reached /\ n - 1 \in Int /\ n \in Int
      BY <1>2, <2>2, <2>5
    <3>2. /\ banked \in Lives /\ banked.hits = reached
          /\ banked.firstHit = IF l.hits = 0 THEN n ELSE l.firstHit
      BY <1>1, <1>4, <2>2, <3>1, TakingBanks DEF banked
    <3>3. hit = [banked EXCEPT !.stop = to]
      BY <2>5
    <3> HIDE DEF hit
    <3> DEFINE r == LifeBar(l, bar, wide, n)
    <3>4. hit.hits = reached /\ hit.firstHit = banked.firstHit
      BY <3>2, <3>3 DEF Lives
    <3>5. \A o, price : /\ Exited(hit, o, price, n).hits = hit.hits
                        /\ Exited(hit, o, price, n).firstHit = hit.firstHit
                        /\ AllTaken(hit).hits = hit.hits /\ AllTaken(hit).firstHit = hit.firstHit
      BY <3>2, <3>3 DEF Exited, AllTaken, Lives
    <3>6. r.hits = hit.hits /\ r.firstHit = hit.firstHit
      BY <2>3, <3>5
    <3> HIDE DEF r
    <3>7. r.hits > 0 /\ r.firstHit = IF l.hits = 0 THEN n ELSE l.firstHit
      BY <1>2, <3>1, <3>2, <3>4, <3>6
    <3> QED
      BY <1>2, <3>7 DEF r
  <2> QED
    BY <2>4, <2>5
<1>5. CASE l.at = "open" /\ BarHitsStop(bar, l.stop)
  <2>1. CASE l.hits < TargetCount /\ BarHitsTarget(bar, Target(l.hits + 1))
    <3> DEFINE m == l.hits + 1
               h == TakeTargets(l, m, n)
    <3>1. LifeBar(l, bar, wide, n) =
             IF Abs(bar.open - Target(m)) < Abs(bar.open - l.stop)
             THEN IF SizeLeft(h.hits) = 0 THEN AllTaken(h) ELSE StoppedOut(h, n)
             ELSE StoppedOut(l, n)
      BY <1>5, <2>1 DEF LifeBar, LifeTie, TargetCount
    <3>2. m \in Nat /\ l.hits < m /\ m <= TargetCount /\ n \in Int /\ n - 1 \in Int
      BY <1>2, <2>1
    <3> HIDE DEF m
    <3>3. /\ h \in Lives /\ h.hits = m
          /\ h.firstHit = IF l.hits = 0 THEN n ELSE l.firstHit
      BY <1>1, <1>5, <3>2, TakingBanks
    <3> HIDE DEF h
    <3>4. /\ AllTaken(h).hits = m /\ AllTaken(h).firstHit = h.firstHit
          /\ StoppedOut(h, n).hits = m /\ StoppedOut(h, n).firstHit = h.firstHit
          /\ StoppedOut(l, n).hits = l.hits /\ StoppedOut(l, n).firstHit = l.firstHit
      BY <1>1, <3>3, EndingsKeepHits
    <3> QED
      BY <1>2, <1>5, <3>1, <3>2, <3>3, <3>4
  <2>2. CASE ~(l.hits < TargetCount /\ BarHitsTarget(bar, Target(l.hits + 1)))
    <3>1. LifeBar(l, bar, wide, n) = StoppedOut(l, n)
      BY <1>5, <2>2 DEF LifeBar, TargetCount
    <3> QED
      BY <1>1, <1>5, <3>1, EndingsKeepHits
  <2> QED
    BY <2>1, <2>2
<1> QED
  BY <1>1, <1>3, <1>4, <1>5 DEF Lives

LEMMA SingleTypes ==
    ASSUME NEW s \in Singles, setup \in Setups, NEW bar \in Bars, NEW wide \in BOOLEAN, NEW n \in Nat
    PROVE  SingleBar(s, bar, wide, n) \in Singles /\ SingleBar(s, bar, wide, n).fill = s.fill
<1>1. /\ Side \in Sides /\ setup.stop \in Int /\ Target(1) \in Int /\ bar.close \in Int
      /\ s.fill \in Int
  <2>1. TargetCount \in 1..3 /\ \A i \in 1..TargetCount : Target(i) \in Int
    BY SetupTypes
  <2>2. 1 \in 1..TargetCount
    BY <2>1
  <2> QED
    BY <2>1, <2>2, SetupTypes, BarsInOrder DEF Singles
<1>2. \A price \in Int : Gain(s.fill, price) \in Int
  BY <1>1, Prices
<1>3. ASSUME NEW price \in Int, NEW o \in Outcomes
      PROVE  SingleExit(s, o, price, n) \in Singles /\ SingleExit(s, o, price, n).fill = s.fill
  <2>1. Gain(s.fill, price) \in Int /\ n \in Int
    BY <1>2
  <2> DEFINE g == Gain(s.fill, price)
             e == SingleExit(s, o, price, n)
  <2>2. e = [s EXCEPT !.at = "done", !.pnl = g, !.outcome = o, !.exitAge = n]
    BY DEF SingleExit
  <2>3. g \in Int
    BY <2>1
  <2> HIDE DEF g, e
  <2>4. e \in Singles /\ e.fill = s.fill
    BY <2>1, <2>2, <2>3 DEF Singles
  <2> QED
    BY <2>4 DEF e
<1> QED
  BY <1>1, <1>3 DEF SingleBar, Outcomes

\* What agreed before a bar agrees after it, unless the bar touched the stop and TP1.
LEMMA AgreementKept ==
    ASSUME setup \in Setups, TargetsPastStop, NEW n \in Nat, NEW l, LifeWell(l, n - 1),
           NEW s \in Singles, Agreement(l, s), NEW bar \in Bars, NEW wide \in BOOLEAN,
           ~(s.at = "open" /\ BarHitsStop(bar, setup.stop) /\ BarHitsTarget(bar, Target(1)))
    PROVE  Agreement(LifeBar(l, bar, wide, n), SingleBar(s, bar, wide, n))
<1> DEFINE l1 == LifeBar(l, bar, wide, n)
           s1 == SingleBar(s, bar, wide, n)
<1>1. l \in Lives /\ l.hits <= TargetCount /\ OpenWell(l, n - 1) /\ TargetCount \in 1..3
  BY SetupTypes DEF LifeWell
<1>2. CASE l.hits > 0 /\ s.at = "done" /\ s.outcome = "TP1" /\ s.exitAge = l.firstHit
  <2>1. s1 = s
    BY <1>2 DEF SingleBar
  <2>2. l1.hits > 0 /\ l1.firstHit = l.firstHit
    BY <1>2, FirstHitKept
  <2> QED
    BY <1>2, <2>1, <2>2 DEF Agreement
<1>3. CASE /\ l.at = "done" /\ l.hits = 0 /\ s.at = "done" /\ s.outcome = l.outcome
           /\ s.exitAge = l.exitAge /\ 10 * s.pnl = l.pnl
  BY <1>3 DEF SingleBar, LifeBar, Agreement
<1>4. CASE /\ l.at = "open" /\ l.hits = 0 /\ l.exitAge = -1 /\ l.pnl = 0
           /\ s.at = "open" /\ s.fill = l.fill /\ s.exitAge = -1 /\ s.pnl = 0
  <2>1. l.stop = setup.stop
    BY <1>4 DEF OpenWell, LifeWell
  <2>2. CASE BarHitsStop(bar, setup.stop)
    <3>1. ~BarHitsTarget(bar, Target(1))
      BY <1>4, <2>2
    <3>2. l1 = Exited(l, "STOP_LOSS", setup.stop, n)
      BY <1>4, <2>1, <2>2, <3>1 DEF LifeBar, StoppedOut
    <3>3. s1 = SingleExit(s, "STOP_LOSS", setup.stop, n)
      BY <1>4, <2>2 DEF SingleBar
    <3> DEFINE g == Gain(l.fill, setup.stop)
    <3>4. g \in Int
      BY <1>1, SetupTypes, Prices DEF Lives
    <3>5. l1 = [l EXCEPT !.at = "done", !.outcome = "STOP_LOSS", !.exitAge = n, !.pnl = @ + 10 * g]
      BY <1>4, <3>2, Sizes DEF Exited
    <3>6. s1 = [s EXCEPT !.at = "done", !.pnl = g, !.outcome = "STOP_LOSS", !.exitAge = n]
      BY <1>4, <3>3 DEF SingleExit
    <3> HIDE DEF g, l1, s1
    <3>7. l1.at = "done" /\ l1.hits = 0 /\ l1.outcome = "STOP_LOSS" /\ l1.exitAge = n /\ l1.pnl = 10 * g
      BY <1>1, <1>4, <3>4, <3>5 DEF Lives
    <3>8. s1.at = "done" /\ s1.outcome = "STOP_LOSS" /\ s1.exitAge = n /\ s1.pnl = g
      BY <3>6 DEF Singles
    <3> QED
      BY <3>7, <3>8 DEF Agreement, l1, s1
  <2>3. CASE ~BarHitsStop(bar, setup.stop) /\ BarHitsTarget(bar, Target(1))
    <3>1. l1.hits > 0 /\ l1.firstHit = n
      BY <1>4, <2>1, <2>3, FirstHitKept
    <3>2. s1 = SingleExit(s, "TP1", Target(1), n)
      BY <1>4, <2>3 DEF SingleBar
    <3>3. s1.at = "done" /\ s1.outcome = "TP1" /\ s1.exitAge = n
      BY <3>2 DEF SingleExit, Singles
    <3> QED
      BY <3>1, <3>3 DEF Agreement
  <2>4. CASE ~BarHitsStop(bar, setup.stop) /\ ~BarHitsTarget(bar, Target(1))
    <3>1. TargetsReached(l, bar) = 0
      <4> DEFINE reached == TargetsReached(l, bar)
      <4>1. /\ reached \in l.hits..TargetCount
            /\ \A i \in l.hits + 1..reached : BarHitsTarget(bar, Target(i))
        BY <1>1, ReachedTargets DEF TargetCount
      <4> HIDE DEF reached
      <4>2. reached >= 1 => 1 \in l.hits + 1..reached
        BY <1>1, <1>4, <4>1
      <4> QED
        BY <1>1, <1>4, <2>4, <4>1, <4>2 DEF reached
    <3>2. l1 = IF n >= TimeLimit THEN Exited(l, "TIME_STOP", bar.close, n)
               ELSE IF SpikesAgainst(bar, wide, l.fill)
                    THEN Exited(l, "PROTECTIVE_EXIT", bar.close, n)
               ELSE l
      BY <1>4, <2>1, <2>4, <3>1, Sizes DEF LifeBar, LifeRuns
    <3>3. s1 = IF n >= TimeLimit THEN SingleExit(s, "TIME_STOP", bar.close, n)
               ELSE IF SpikesAgainst(bar, wide, l.fill)
                    THEN SingleExit(s, "PROTECTIVE_EXIT", bar.close, n)
               ELSE s
      BY <1>4, <2>4 DEF SingleBar, SingleTimeIsUp
    <3> HIDE DEF l1, s1
    <3>4. ASSUME NEW o, l1 = Exited(l, o, bar.close, n), s1 = SingleExit(s, o, bar.close, n)
          PROVE  Agreement(l1, s1)
      <4> DEFINE g == Gain(l.fill, bar.close)
      <4>1. g \in Int
        BY <1>1, SetupTypes, BarsInOrder, Prices DEF Lives
      <4>2. l1 = [l EXCEPT !.at = "done", !.outcome = o, !.exitAge = n, !.pnl = @ + 10 * g]
        BY <1>4, <3>4, Sizes DEF Exited
      <4>3. s1 = [s EXCEPT !.at = "done", !.pnl = g, !.outcome = o, !.exitAge = n]
        BY <1>4, <3>4 DEF SingleExit
      <4> HIDE DEF g
      <4>4. l1.at = "done" /\ l1.hits = 0 /\ l1.outcome = o /\ l1.exitAge = n /\ l1.pnl = 10 * g
        BY <1>1, <1>4, <4>1, <4>2 DEF Lives
      <4>5. s1.at = "done" /\ s1.outcome = o /\ s1.exitAge = n /\ s1.pnl = g
        BY <4>3 DEF Singles
      <4> QED
        BY <4>4, <4>5 DEF Agreement
    <3>5. l1 = l /\ s1 = s => Agreement(l1, s1)
      BY <1>4 DEF Agreement
    <3>6. Agreement(l1, s1)
      BY <3>2, <3>3, <3>4, <3>5
    <3> QED
      BY <3>6 DEF l1, s1
  <2> QED
    BY <2>2, <2>3, <2>4
<1> QED
  BY <1>2, <1>3, <1>4 DEF Agreement

-----------------------------------------------------------------------------
(* The steps of both                                                       *)

LEMMA FreshTypes ==
    ASSUME setup \in Setups, NEW fill \in Int
    PROVE  /\ FreshLife(fill) \in Lives /\ FreshSingle(fill) \in Singles
           /\ FreshLife(fill).fill = fill /\ FreshLife(fill).hits = 0
           /\ FreshLife(fill).at = "open" /\ FreshLife(fill).pnl = 0
           /\ FreshLife(fill).outcome = "NONE"
           /\ Agreement(FreshLife(fill), FreshSingle(fill))
           /\ Worth(fill) > Worth(setup.stop) => LifeWell(FreshLife(fill), -1)
<1>1. setup.stop \in Int /\ TargetCount \in 1..3 /\ Worth(fill) \in Int /\ Worth(setup.stop) \in Int
  BY SetupTypes, WorthIsInt
<1> DEFINE l == FreshLife(fill)
<1>2. l \in Lives /\ FreshSingle(fill) \in Singles
  BY <1>1 DEF FreshLife, FreshSingle, Lives, Singles, Outcomes
<1>3. /\ l.fill = fill /\ l.hits = 0 /\ l.at = "open" /\ l.pnl = 0 /\ l.stop = setup.stop
      /\ l.outcome = "NONE" /\ l.exitAge = -1 /\ l.firstHit = -1
  BY DEF FreshLife
<1>4. Agreement(l, FreshSingle(fill))
  BY <1>3 DEF Agreement, FreshSingle
<1> HIDE DEF l
<1>5. ASSUME Worth(fill) > Worth(setup.stop) PROVE LifeWell(l, -1)
  <2>1. Banked(l)
    <3>1. (10 - SizeLeft(l.hits)) * AtStake(l) = 0
      BY <1>1, <1>3, Sizes DEF AtStake
    <3> QED
      BY <1>3, <3>1 DEF Banked
  <2>2. OpenWell(l, -1)
    BY <1>1, <1>3, <1>5, <2>1 DEF OpenWell
  <2> QED
    BY <1>1, <1>2, <1>3, <2>2 DEF LifeWell, DoneWell
<1> QED
  BY <1>2, <1>3, <1>4, <1>5 DEF l

LEMMA SimInitHolds == SimInit => SimInv
<1> SUFFICES ASSUME SimInit PROVE SimInv
  OBVIOUS
<1>1. setup \in Setups /\ setup.entry \in Int
  BY SetupTypes DEF SimInit
<1>2. /\ life = FreshLife(setup.entry) /\ single = FreshSingle(setup.entry)
      /\ phase = "waiting" /\ age = 0 /\ tied = FALSE
  BY DEF SimInit
<1>3. life \in Lives /\ single \in Singles /\ Agreement(life, single)
  BY <1>1, <1>2, FreshTypes
<1> QED
  BY <1>1, <1>2, <1>3 DEF SimInv, SimTypes

LEMMA TriggersKeeps ==
    ASSUME SimInv, NEW bar \in Bars, Triggers(bar)
    PROVE  SimInv'
<1>1. setup' = setup /\ life' = life /\ single' = single /\ age' = age /\ tied' = tied
      /\ phase = "waiting" /\ phase' = "triggered"
  BY DEF Triggers
<1>2. life = FreshLife(setup.entry) /\ single = FreshSingle(setup.entry)
  BY <1>1 DEF SimInv
<1>3. (life = FreshLife(setup.entry))' /\ (single = FreshSingle(setup.entry))'
  BY <1>1, <1>2 DEF FreshLife, FreshSingle
<1>4. SimTypes'
  BY <1>1 DEF SimInv, SimTypes
<1>5. (~tied /\ ~TargetCrossed(Side, life.fill, Target(1)) => Agreement(life, single))'
  BY <1>1 DEF SimInv, Side, Target, Agreement
<1> QED
  BY <1>1, <1>3, <1>4, <1>5 DEF SimInv

\* A trade that ends before it is entered has won and lost nothing.
LEMMA NeverEnteredKeeps ==
    ASSUME SimInv, phase \in {"waiting", "triggered"},
           NEW o \in Outcomes \ {"STOP_LOSS"},
           phase' = "over", life' = [life EXCEPT !.at = "done", !.outcome = o],
           single' = [single EXCEPT !.at = "done", !.outcome = o],
           UNCHANGED <<setup, age, tied>>
    PROVE  SimInv'
<1>1. /\ setup \in Setups /\ life = FreshLife(setup.entry) /\ single = FreshSingle(setup.entry)
      /\ life \in Lives /\ single \in Singles
  BY DEF SimInv, SimTypes
<1>2. setup.entry \in Int /\ setup.stop \in Int /\ TargetCount \in 1..3
  BY <1>1, SetupTypes
<1>3. /\ life.hits = 0 /\ life.pnl = 0 /\ life.exitAge = -1 /\ life.fill = setup.entry
      /\ life.firstHit = -1
      /\ single.pnl = 0 /\ single.exitAge = -1
  BY <1>1 DEF FreshLife, FreshSingle
<1>4. /\ life' \in Lives /\ life'.at = "done" /\ life'.outcome = o /\ life'.hits = 0
      /\ life'.pnl = 0 /\ life'.exitAge = -1 /\ life'.fill = setup.entry
  BY <1>1, <1>3 DEF Lives
<1>5. /\ single' \in Singles /\ single'.at = "done" /\ single'.outcome = o
      /\ single'.pnl = 0 /\ single'.exitAge = -1
  BY <1>1, <1>3 DEF Singles
<1>6. SimTypes'
  BY <1>4, <1>5 DEF SimInv, SimTypes
<1>7. AtStake(life)' \in Int
  <2>1. AtStake(life)' = Worth(setup.entry) - Worth(setup.stop)
    BY <1>4 DEF AtStake, Worth, Side
  <2> QED
    BY <1>2, <2>1, WorthIsInt
<1>8. DoneWell(life)'
  <2>1. Abs(AtStake(life)') >= 0 /\ Abs(AtStake(life)') \in Int
    BY <1>7 DEF Abs
  <2>2. life'.pnl >= -(10 * Abs(AtStake(life)'))
    BY <1>4, <2>1
  <2> QED
    BY <1>4, <2>2 DEF DoneWell, Abs
<1>9. LifeWell(life, age)'
  BY <1>2, <1>4, <1>8 DEF LifeWell, OpenWell, TargetCount
<1>10. Agreement(life, single)'
  BY <1>4, <1>5 DEF Agreement
<1> QED
  BY <1>6, <1>9, <1>10 DEF SimInv

LEMMA RefusedKeeps ==
    ASSUME SimInv, NEW bar \in Bars, EntryRefused(bar)
    PROVE  SimInv'
<1>1. /\ phase \in {"waiting", "triggered"} /\ phase' = "over"
      /\ Refusal(bar.open) \in Outcomes \ {"STOP_LOSS"}
      /\ life' = [life EXCEPT !.at = "done", !.outcome = Refusal(bar.open)]
      /\ single' = [single EXCEPT !.at = "done", !.outcome = Refusal(bar.open)]
      /\ UNCHANGED <<setup, age, tied>>
  BY DEF EntryRefused, Refusal, Outcomes
<1> QED
  BY <1>1, NeverEnteredKeeps

LEMMA EntersKeeps ==
    ASSUME TargetsPastStop, SimInv, NEW bar \in Bars, NEW wide \in BOOLEAN, Enters(bar, wide)
    PROVE  SimInv'
<1> DEFINE l == FreshLife(bar.open)
           s == FreshSingle(bar.open)
<1>1. setup \in Setups /\ Side \in Sides /\ bar.open \in Int /\ setup.stop \in Int
      /\ TargetCount \in 1..3 /\ Target(1) \in Int
  <2>1. setup \in Setups
    BY DEF SimInv, SimTypes
  <2>2. 1 \in 1..TargetCount
    BY <2>1, SetupTypes
  <2> QED
    BY <2>1, <2>2, SetupTypes, BarsInOrder
<1>2. /\ l \in Lives /\ s \in Singles /\ l.fill = bar.open /\ l.hits = 0 /\ l.at = "open"
      /\ l.pnl = 0 /\ Agreement(l, s)
      /\ Worth(bar.open) > Worth(setup.stop) => LifeWell(l, -1)
  BY <1>1, FreshTypes
<1>3. /\ phase' = "open" /\ age' = 0 /\ setup' = setup
      /\ IF GapsThrough(bar.open)
         THEN /\ life' = Exited(l, "STOP_LOSS", bar.open, 0)
              /\ single' = SingleExit(s, "STOP_LOSS", bar.open, 0)
              /\ UNCHANGED tied
         ELSE /\ life' = LifeBar(l, bar, wide, 0)
              /\ single' = IF TargetCrossed(Side, bar.open, Target(1))
                           THEN SingleExit(s, "TP1", bar.open, 0)
                           ELSE SingleBar(s, bar, wide, 0)
              /\ tied' = (BarHitsStop(bar, setup.stop) /\ BarHitsTarget(bar, Target(1)))
  BY DEF Enters
<1>4. s.at = "open" /\ s.fill = bar.open /\ s.pnl = 0
  BY DEF FreshSingle
<1> HIDE DEF l, s
<1>5. Gain(bar.open, bar.open) = 0
  BY <1>1 DEF Gain
<1>6. ASSUME NEW o \in Outcomes
      PROVE  /\ SingleExit(s, o, bar.open, 0) \in Singles
             /\ SingleExit(s, o, bar.open, 0).at = "done"
             /\ SingleExit(s, o, bar.open, 0).outcome = o
             /\ SingleExit(s, o, bar.open, 0).exitAge = 0
             /\ SingleExit(s, o, bar.open, 0).pnl = 0
  <2>1. SingleExit(s, o, bar.open, 0) = [s EXCEPT !.at = "done", !.pnl = 0, !.outcome = o, !.exitAge = 0]
    BY <1>1, <1>4, <1>5 DEF SingleExit
  <2>2. 0 \in Int
    OBVIOUS
  <2> DEFINE e == SingleExit(s, o, bar.open, 0)
  <2> HIDE DEF e
  <2>3. e = [s EXCEPT !.at = "done", !.pnl = 0, !.outcome = o, !.exitAge = 0]
    BY <2>1 DEF e
  <2>4. e \in Singles /\ e.at = "done" /\ e.outcome = o /\ e.exitAge = 0 /\ e.pnl = 0
    <3> DEFINE nil == 0
    <3>1. nil \in Int
      OBVIOUS
    <3>2. e = [s EXCEPT !.at = "done", !.pnl = nil, !.outcome = o, !.exitAge = nil]
      BY <2>3
    <3>3. nil = 0
      OBVIOUS
    <3> HIDE DEF nil
    <3>4. e \in Singles /\ e.at = "done" /\ e.outcome = o /\ e.exitAge = nil /\ e.pnl = nil
      BY <1>2, <3>1, <3>2 DEF Singles
    <3> QED
      BY <3>3, <3>4
  <2> QED
    BY <2>4 DEF e
\* The values after the step, of the setup that stays
<1>7. CASE GapsThrough(bar.open)
  <2> DEFINE e == Exited(l, "STOP_LOSS", bar.open, 0)
  <2>1. e = [l EXCEPT !.at = "done", !.outcome = "STOP_LOSS", !.exitAge = 0, !.pnl = 0]
    <3>1. l.pnl + SizeLeft(l.hits) * Gain(l.fill, bar.open) = 0
      BY <1>2, <1>5, Sizes
    <3> QED
      BY <3>1 DEF Exited
  <2> HIDE DEF e
  <2>2. /\ e \in Lives /\ e.at = "done" /\ e.outcome = "STOP_LOSS" /\ e.hits = 0 /\ e.pnl = 0
        /\ e.exitAge = 0 /\ e.fill = bar.open
    BY <1>2, <2>1 DEF Lives, Outcomes
  <2>3. DoneWell(e)
    <3>1. AtStake(e) \in Int
      BY <1>1, <2>2, WorthIsInt DEF AtStake
    <3>2. Abs(AtStake(e)) >= 0 /\ Abs(AtStake(e)) \in Int
      BY <3>1 DEF Abs
    <3> QED
      BY <2>2, <3>2 DEF DoneWell
  <2>4. LifeWell(e, 0)
    BY <1>1, <2>2, <2>3 DEF LifeWell, OpenWell
  <2>5. life' = e /\ single' = SingleExit(s, "STOP_LOSS", bar.open, 0) /\ tied' = tied
    BY <1>3, <1>7 DEF e
  <2>6. Agreement(life', single')
    BY <1>6, <2>2, <2>5 DEF Agreement, Outcomes
  <2>7. LifeWell(life, age)'
    BY <1>3, <2>4, <2>5 DEF LifeWell, OpenWell, DoneWell, Banked, AtStake, TargetsAhead, Worth,
                             Side, Target, TargetCount
  <2>8. SimTypes'
    BY <1>3, <1>6, <2>2, <2>5 DEF SimInv, SimTypes, Outcomes
  <2> QED
    BY <1>3, <2>6, <2>7, <2>8 DEF SimInv, Agreement
<1>8. CASE ~GapsThrough(bar.open)
  <2> DEFINE b == LifeBar(l, bar, wide, 0)
             t == SingleBar(s, bar, wide, 0)
  <2>1. Worth(bar.open) > Worth(setup.stop)
    <3>1. ~(Worth(setup.stop) >= Worth(bar.open))
      BY <1>1, <1>8, Prices DEF GapsThrough, StopCrossed
    <3> QED
      BY <1>1, <3>1, WorthIsInt
  <2>2. 0 \in Nat /\ 0 - 1 = -1 /\ LifeWell(l, 0 - 1)
    BY <1>2, <2>1
  <2>3. LifeWell(b, 0) /\ b.fill = bar.open
    BY <1>1, <1>2, <2>2, LifeBarWell
  <2>4. t \in Singles
    BY <1>1, <1>2, SingleTypes
  <2>5. b \in Lives
    BY <2>3 DEF LifeWell
  <2>6. ~(BarHitsStop(bar, setup.stop) /\ BarHitsTarget(bar, Target(1))) => Agreement(b, t)
    BY <1>1, <1>2, <2>2, AgreementKept
  <2> HIDE DEF b, t
  <2>7. life' = b /\ tied' = (BarHitsStop(bar, setup.stop) /\ BarHitsTarget(bar, Target(1)))
        /\ single' = IF TargetCrossed(Side, bar.open, Target(1))
                     THEN SingleExit(s, "TP1", bar.open, 0) ELSE t
    BY <1>3, <1>8 DEF b, t
  <2>8. LifeWell(life, age)'
    BY <1>3, <2>3, <2>7 DEF LifeWell, OpenWell, DoneWell, Banked, AtStake, TargetsAhead, Worth,
                             Side, Target, TargetCount
  <2>9. SimTypes'
    BY <1>3, <1>6, <2>4, <2>5, <2>7 DEF SimInv, SimTypes, Outcomes
  <2>10. ~tied' /\ ~TargetCrossed(Side, bar.open, Target(1)) => Agreement(life', single')
    BY <2>6, <2>7
  <2>11. (~tied /\ ~TargetCrossed(Side, life.fill, Target(1)) => Agreement(life, single))'
    BY <1>3, <2>3, <2>7, <2>10 DEF Side, Target, Agreement
  <2> QED
    BY <1>3, <2>8, <2>9, <2>11 DEF SimInv
<1> QED
  BY <1>7, <1>8

LEMMA RunsKeeps ==
    ASSUME TargetsPastStop, SimInv, NEW bar \in Bars, NEW wide \in BOOLEAN, Runs(bar, wide)
    PROVE  SimInv'
<1> DEFINE b == LifeBar(life, bar, wide, age + 1)
           t == SingleBar(single, bar, wide, age + 1)
<1>1. /\ setup \in Setups /\ age \in Nat /\ life \in Lives /\ single \in Singles
      /\ phase = "open" /\ LifeWell(life, age) /\ tied \in BOOLEAN
  BY DEF SimInv, SimTypes, Runs
<1>2. /\ age' = age + 1 /\ setup' = setup /\ phase' = phase /\ life' = b /\ single' = t
      /\ tied' = (\/ tied
                  \/ single.at = "open" /\ BarHitsStop(bar, setup.stop)
                     /\ BarHitsTarget(bar, Target(1)))
  BY DEF Runs
<1>3. age + 1 \in Nat /\ (age + 1) - 1 = age
  BY <1>1
<1>4. LifeWell(b, age + 1) /\ b.fill = life.fill
  <2>1. LifeWell(life, (age + 1) - 1)
    BY <1>1, <1>3
  <2> QED
    BY <1>1, <1>3, <2>1, LifeBarWell
<1>5. t \in Singles
  BY <1>1, <1>3, SingleTypes
<1>6. b \in Lives
  BY <1>4 DEF LifeWell
<1>7. Agreement(life, single) /\ ~tied' => Agreement(b, t)
  <2>1. LifeWell(life, (age + 1) - 1)
    BY <1>1, <1>3
  <2> QED
    BY <1>1, <1>2, <1>3, <2>1, AgreementKept
<1> HIDE DEF b, t
<1>8. LifeWell(life, age)'
  BY <1>2, <1>4 DEF LifeWell, OpenWell, DoneWell, Banked, AtStake, TargetsAhead, Worth,
                    Side, Target, TargetCount
<1>9. SimTypes'
  BY <1>1, <1>2, <1>3, <1>5, <1>6 DEF SimTypes
<1>10. ~tied' => ~tied
  BY <1>1, <1>2
<1>11. ~tied' /\ ~TargetCrossed(Side, life.fill, Target(1)) => Agreement(b, t)
  BY <1>7, <1>10 DEF SimInv
<1>12. (~tied /\ ~TargetCrossed(Side, life.fill, Target(1)) => Agreement(life, single))'
  BY <1>2, <1>4, <1>11 DEF Side, Target, Agreement
<1> QED
  BY <1>1, <1>2, <1>8, <1>9, <1>12 DEF SimInv

LEMMA EndsKeeps ==
    ASSUME SimInv, DataEnds
    PROVE  SimInv'
<1>1. CASE phase = "open"
  <2> DEFINE b == LifeEnds(life)
             t == SingleEnds(single)
             o == IF life.hits > 0 THEN "PARTIAL_STOPPED" ELSE "OPEN"
  <2>1. /\ setup \in Setups /\ age \in Nat /\ life \in Lives /\ single \in Singles
        /\ LifeWell(life, age)
    BY <1>1 DEF SimInv, SimTypes
  <2>2. setup' = setup /\ phase' = "over" /\ age' = age /\ tied' = tied /\ life' = b /\ single' = t
    BY <1>1 DEF DataEnds
  <2>3. o \in Outcomes /\ o # "STOP_LOSS"
    BY DEF Outcomes
  <2>4. b = IF life.at = "done" THEN life ELSE [life EXCEPT !.at = "done", !.outcome = o]
    BY DEF LifeEnds
  <2> HIDE DEF o
  <2>5. b \in Lives /\ b.at = "done" /\ b.fill = life.fill /\ b.hits = life.hits /\ b.pnl = life.pnl
        /\ b.exitAge = life.exitAge /\ b.firstHit = life.firstHit
        /\ b.outcome = IF life.at = "done" THEN life.outcome ELSE o
    BY <2>1, <2>3, <2>4 DEF Lives
  <2>6. t \in Singles /\ t.at = "done" /\ t.pnl = single.pnl /\ t.exitAge = single.exitAge
        /\ t.outcome = IF single.at = "done" THEN single.outcome ELSE "OPEN"
    BY <2>1 DEF SingleEnds, Singles, Outcomes
  <2>7. SimTypes'
    BY <2>2, <2>5, <2>6 DEF SimInv, SimTypes
  <2>8. Agreement(life, single) => Agreement(b, t)
    <3>1. o = IF life.hits > 0 THEN "PARTIAL_STOPPED" ELSE "OPEN"
      BY DEF o
    <3> HIDE DEF b, t
    <3> QED
      BY <2>1, <2>5, <2>6, <3>1 DEF Agreement, Lives
  <2>9. DoneWell(b)
    <3>1. CASE life.at = "done"
      BY <2>1, <2>4, <3>1 DEF LifeWell
    <3>2. CASE life.at # "done"
      <4>1. OpenWell(life, age) /\ life.at = "open" /\ life.hits \in 0..3 /\ life.pnl \in Int
            /\ life.fill \in Int /\ setup.stop \in Int
        BY <2>1, <3>2, SetupTypes DEF LifeWell, Lives
      <4> DEFINE stake == AtStake(life)
      <4>2. stake \in Int /\ stake > 0
        BY <4>1, WorthIsInt DEF OpenWell, AtStake
      <4>3. AtStake(b) = stake /\ Abs(AtStake(b)) = stake
        BY <2>5, <4>2 DEF AtStake, Abs
      <4>4. TargetsAhead(b) <=> TargetsAhead(life)
        BY <2>5 DEF TargetsAhead
      <4>5. life.pnl >= -((10 - SizeLeft(life.hits)) * stake) /\ (TargetsAhead(life) => life.pnl >= 0)
        BY <4>1 DEF OpenWell, Banked
      <4> HIDE DEF stake, b
      <4>6. SizeLeft(life.hits) \in {0, 3, 6, 10}
        BY <4>1, Sizes DEF SizeLeft
      <4>7. life.pnl >= -(10 * stake)
        <5>1. CASE SizeLeft(life.hits) = 0
          BY <4>1, <4>2, <4>5, <5>1
        <5>2. CASE SizeLeft(life.hits) = 3
          BY <4>1, <4>2, <4>5, <5>2
        <5>3. CASE SizeLeft(life.hits) = 6
          BY <4>1, <4>2, <4>5, <5>3
        <5>4. CASE SizeLeft(life.hits) = 10
          BY <4>1, <4>2, <4>5, <5>4
        <5> QED
          BY <4>6, <5>1, <5>2, <5>3, <5>4
      <4>8. b.outcome # "STOP_LOSS"
        BY <2>3, <2>5, <3>2
      <4> QED
        BY <2>5, <4>3, <4>4, <4>5, <4>7, <4>8 DEF DoneWell
    <3> QED
      BY <3>1, <3>2
  <2>10. LifeWell(b, age)
    BY <2>1, <2>5, <2>9 DEF LifeWell, OpenWell
  <2> HIDE DEF b, t
  <2>11. LifeWell(life, age)'
    BY <2>2, <2>10 DEF LifeWell, OpenWell, DoneWell, Banked, AtStake, TargetsAhead, Worth,
                      Side, Target, TargetCount
  <2>12. ~tied /\ ~TargetCrossed(Side, life.fill, Target(1)) => Agreement(b, t)
    BY <2>8 DEF SimInv
  <2>13. (~tied /\ ~TargetCrossed(Side, life.fill, Target(1)) => Agreement(life, single))'
    BY <2>2, <2>5, <2>12 DEF Side, Target, Agreement
  <2> QED
    BY <2>2, <2>7, <2>11, <2>13 DEF SimInv
<1>2. CASE phase # "open"
  <2>1. /\ phase \in {"waiting", "triggered"} /\ phase' = "over"
        /\ life' = [life EXCEPT !.at = "done", !.outcome = "NO_TRIGGER"]
        /\ single' = [single EXCEPT !.at = "done", !.outcome = "NO_TRIGGER"]
        /\ UNCHANGED <<setup, age, tied>>
    BY <1>2 DEF DataEnds, SimInv, SimTypes
  <2>2. "NO_TRIGGER" \in Outcomes \ {"STOP_LOSS"}
    BY DEF Outcomes
  <2> QED
    BY <2>1, <2>2, NeverEnteredKeeps
<1> QED
  BY <1>1, <1>2

LEMMA SimStutters == SimInv /\ UNCHANGED simVars => SimInv'
BY DEF SimInv, SimTypes, simVars, LifeWell, OpenWell, DoneWell, Banked, AtStake, TargetsAhead,
   Worth, Side, Target, TargetCount, Agreement, FreshLife, FreshSingle

LEMMA SimInvHolds ==
    ASSUME TargetsPastStop
    PROVE  SimSpec => []SimInv
<1>1. SimInv /\ [SimNext]_simVars => SimInv'
  BY TriggersKeeps, RefusedKeeps, EntersKeeps, RunsKeeps, EndsKeeps, SimStutters DEF SimNext
<1> QED
  BY SimInitHolds, <1>1, PTL DEF SimSpec

\* A trade never loses more than what it risked at its fill, and none once a bar has
\* closed with TP1 taken, for any bars, setups and time limit
\* (simulate_trade_lifecycle in analysis/portfolio_backtest.py).
THEOREM LossShrinks ==
    ASSUME TargetsPastStop
    PROVE  SimSpec => []LossOnlyShrinks
<1>1. SimInv => LossOnlyShrinks
  <2> SUFFICES ASSUME SimInv PROVE LossOnlyShrinks
    OBVIOUS
  <2>1. setup \in Setups /\ life \in Lives
    BY DEF SimInv, SimTypes
  <2>2. /\ Side \in Sides /\ setup.stop \in Int
        /\ life.fill \in Int /\ life.hits \in 0..3 /\ life.pnl \in Int
    BY <2>1, SetupTypes DEF Lives
  <2>3. Risk = Abs(AtStake(life)) /\ AtStake(life) \in Int
    BY <2>2, Prices, WorthIsInt DEF Risk, AtStake
  <2>4. Risk \in Int /\ Risk >= 0
    BY <2>3 DEF Abs
  <2>5. CASE phase \in {"waiting", "triggered"}
    <3>1. life.outcome = "NONE" /\ life.pnl = 0 /\ life.at = "open"
      BY <2>1, <2>2, <2>5, FreshTypes, SetupTypes DEF SimInv
    <3> QED
      BY <2>4, <3>1 DEF LossOnlyShrinks
  <2>6. CASE phase \in {"open", "over"}
    <3>1. OpenWell(life, age) /\ DoneWell(life) /\ life.hits <= TargetCount
      BY <2>6 DEF SimInv, LifeWell
    <3>2. CASE life.at = "open"
      <4>1. life.outcome = "NONE" /\ AtStake(life) > 0
            /\ life.pnl >= -((10 - SizeLeft(life.hits)) * AtStake(life))
        BY <2>2, <3>1, <3>2, WorthIsInt DEF OpenWell, Banked, AtStake
      <4>2. Risk = AtStake(life)
        BY <2>3, <4>1 DEF Abs
      <4>3. SizeLeft(life.hits) \in {0, 3, 6, 10}
        BY <2>2, Sizes DEF SizeLeft
      <4>4. life.pnl >= -10 * Risk
        <5> DEFINE stake == AtStake(life)
        <5>1. stake \in Int /\ stake > 0 /\ Risk = stake
              /\ life.pnl >= -((10 - SizeLeft(life.hits)) * stake)
          BY <2>3, <4>1, <4>2
        <5> HIDE DEF stake
        <5>2. CASE SizeLeft(life.hits) = 0
          BY <2>2, <5>1, <5>2
        <5>3. CASE SizeLeft(life.hits) = 3
          BY <2>2, <5>1, <5>3
        <5>4. CASE SizeLeft(life.hits) = 6
          BY <2>2, <5>1, <5>4
        <5>5. CASE SizeLeft(life.hits) = 10
          BY <2>2, <5>1, <5>5
        <5> QED
          BY <4>3, <5>2, <5>3, <5>4, <5>5
      <4> QED
        BY <3>2, <4>1, <4>4 DEF LossOnlyShrinks
    <3>3. CASE life.at = "done"
      <4>1. /\ life.outcome = "STOP_LOSS" /\ life.hits = 0 => life.pnl <= 0
            /\ life.pnl >= -(10 * Risk)
            /\ life.hits > 0 /\ life.exitAge > life.firstHit /\ TargetsAhead(life) => life.pnl >= 0
        BY <2>3, <3>1, <3>3 DEF DoneWell
      <4>2. (\A i \in 1..life.hits : NoWorse(Side, Target(i), life.fill)) => TargetsAhead(life)
        <5>1. \A i \in 1..life.hits : i \in 1..TargetCount
          BY <2>1, <2>2, <3>1, SetupTypes
        <5>2. \A i \in 1..life.hits : Target(i) \in Int
          BY <2>1, <5>1, SetupTypes
        <5> QED
          BY <2>2, <5>2, Prices DEF TargetsAhead
      <4>3. life.pnl >= -10 * Risk
        BY <2>2, <2>4, <4>1
      <4> QED
        BY <4>1, <4>2, <4>3 DEF LossOnlyShrinks
    <3> QED
      BY <2>1, <3>2, <3>3 DEF Lives
  <2> QED
    BY <2>5, <2>6 DEF SimInv, SimTypes
<1> QED
  BY <1>1, SimInvHolds, PTL

\* The simulators of the two backtests tell the same story of the same bars up to TP1,
\* for any bars, setups and time limit (analysis/portfolio_backtest.py, trade_backtest.py).
THEOREM SimulatorsTellTheSame ==
    ASSUME TargetsPastStop
    PROVE  SimSpec => []SimulatorsAgree
<1>1. SimInv => SimulatorsAgree
  <2> SUFFICES ASSUME SimInv, life.at = "done", single.at = "done", Entered, ~tied,
                      ~TargetCrossed(Side, life.fill, Target(1))
               PROVE  IF life.hits > 0 THEN single.outcome = "TP1" /\ single.exitAge = life.firstHit
                      ELSE /\ single.outcome = life.outcome
                           /\ single.exitAge = life.exitAge
                           /\ 10 * single.pnl = life.pnl
    BY DEF SimulatorsAgree
  <2>1. Agreement(life, single) /\ life.hits \in 0..3
    BY DEF SimInv, SimTypes, Lives
  <2> QED
    BY <2>1 DEF Agreement
<1> QED
  BY <1>1, SimInvHolds, PTL

-----------------------------------------------------------------------------
(* The backtests over many windows                                         *)

Analysed == \A d \in Datasets : window[d] = Windows[d]

\* A trade as the analysis yields it, and one that was taken.
Possible(t) ==
    /\ t.entry \in Nat /\ t.entry <= Horizon
    /\ t.exit \in Nat /\ t.exit >= t.entry /\ t.reward \in Int

Numbered(t) ==
    Possible(t) /\ t.risk \in Int /\ t.number \in Nat /\ t.number < Cardinality(taken)

BacktestTypes ==
    /\ runner \in {"portfolio", "global"}
    /\ limit \in Int
    /\ window \in [Datasets -> Nat]
    /\ equity \in Int
    /\ IsFiniteSet(taken) /\ open \subseteq taken
    /\ \A t \in taken : Numbered(t)
    /\ \A c \in candidates : Possible(c.trade)

\* run_portfolio_backtest has added every result.  With one position at a time every
\* earlier trade has ended by the last one's exit.
OneAtATime ==
    runner = "portfolio" =>
        /\ equity = InitialCapital + Total(taken)
        /\ limit < 1 => taken = {}
        /\ limit = 1 => \/ taken = {} /\ open = {}
                       \/ \E last \in taken : open = {last} /\ \A u \in taken : u.exit <= last.exit

\* The account holds the results of what was settled, all of them in by the entry of
\* every candidate to come.
SettledInTime ==
    runner = "global" =>
        /\ Analysed \/ (taken = {} /\ open = {})
        /\ equity = InitialCapital + Total(taken \ open)
        /\ \A c \in Kept \ scheduled : \A u \in taken \ open : u.exit <= c.trade.entry

BacktestInv == BacktestTypes /\ OneAtATime /\ SettledInTime /\ SizedOnKnownResults

-----------------------------------------------------------------------------
LEMMA BacktestConstants ==
    /\ Windows \in [Datasets -> Nat] /\ Horizon \in Nat /\ Rewards \subseteq Int
    /\ InitialCapital \in Nat /\ RiskParts \in Nat \ {0} /\ Limits \subseteq Int
BY BacktestAssumption DEF BacktestAssumption

LEMMA PnLIsInt ==
    ASSUME NEW t, t.risk \in Int, t.reward \in Int
    PROVE  PnL(t) \in Int
BY DEF PnL

LEMMA TotalIsInt ==
    ASSUME NEW S, IsFiniteSet(S), \A t \in S : t.risk \in Int /\ t.reward \in Int
    PROVE  Total(S) \in Int
<1> DEFINE f == [t \in S |-> PnL(t)]
<1>1. \A t \in S : f[t] \in Int
  BY PnLIsInt
<1> HIDE DEF f
<1>2. SumFunctionOnSet(f, S) \in Int
  BY <1>1, SumType
<1> QED
  BY <1>2 DEF Total, f

LEMMA TotalOfNone == Total({}) = 0
<1> DEFINE f == [t \in {} |-> PnL(t)]
<1>1. SumFunctionOnSet(f, {}) = 0
  BY SumEmpty
<1> QED
  BY <1>1 DEF Total

\* The totals of sets apart from each other.
LEMMA TotalUnion ==
    ASSUME NEW S, NEW R, IsFiniteSet(S), IsFiniteSet(R), S \cap R = {},
           \A t \in S \cup R : t.risk \in Int /\ t.reward \in Int
    PROVE  Total(S \cup R) = Total(S) + Total(R)
<1> DEFINE f == [t \in S \cup R |-> PnL(t)]
           g == [t \in S |-> PnL(t)]
           h == [t \in R |-> PnL(t)]
<1>1. \A t \in S \cup R : f[t] \in Int
  BY PnLIsInt
<1>2. (\A t \in S : f[t] = g[t]) /\ (\A t \in R : f[t] = h[t])
  OBVIOUS
<1>3. Total(S \cup R) = SumFunctionOnSet(f, S \cup R) /\ Total(S) = SumFunctionOnSet(g, S)
      /\ Total(R) = SumFunctionOnSet(h, R)
  BY DEF Total
<1> HIDE DEF f, g, h
<1>4. SumFunctionOnSet(f, S \cup R) = SumFunctionOnSet(f, S) + SumFunctionOnSet(f, R)
  BY <1>1, SumUnion
<1>5. SumFunctionOnSet(f, S) = SumFunctionOnSet(g, S)
  BY <1>2, SumSame
<1>6. SumFunctionOnSet(f, R) = SumFunctionOnSet(h, R)
  BY <1>2, SumSame
<1> QED
  BY <1>3, <1>4, <1>5, <1>6

LEMMA TotalWith ==
    ASSUME NEW S, IsFiniteSet(S), NEW t, t \notin S,
           \A u \in S \cup {t} : u.risk \in Int /\ u.reward \in Int
    PROVE  Total(S \cup {t}) = Total(S) + PnL(t)
<1>1. IsFiniteSet({t}) /\ S \cap {t} = {}
  BY FS_Singleton
<1>2. Total(S \cup {t}) = Total(S) + Total({t})
  BY <1>1, TotalUnion
<1> DEFINE f == [u \in {t} |-> PnL(u)]
<1>3. f[t] = PnL(t) /\ f[t] \in Int
  BY PnLIsInt
<1>4. Total({t}) = SumFunctionOnSet(f, {t})
  BY DEF Total
<1> HIDE DEF f
<1>5. SumFunctionOnSet(f, {t}) = f[t] + SumFunctionOnSet(f, {t} \ {t})
  <2>1. t \in {t} /\ \A y \in {t} : f[y] \in Int
    BY <1>3
  <2> QED
    BY <1>1, <2>1, SumOfElement
<1>6. SumFunctionOnSet(f, {t} \ {t}) = 0
  <2>1. {t} \ {t} = {}
    OBVIOUS
  <2> QED
    BY <2>1, SumEmpty
<1> QED
  BY <1>2, <1>3, <1>4, <1>5, <1>6

\* A trade that is taken now: its number is the next, its share that of the capital.
LEMMA TakenTrade ==
    ASSUME BacktestTypes, NEW trade, Possible(trade), NEW d, NEW capital \in Int
    PROVE  LET t == Taken(trade, d, capital, Cardinality(taken)) IN
           /\ Possible(t) /\ t.entry = trade.entry /\ t.exit = trade.exit
           /\ t.risk = RiskOf(capital) /\ t.risk \in Int
           /\ t.number = Cardinality(taken) /\ t.number \in Nat
           /\ t \notin taken
           /\ IsFiniteSet(taken \cup {t}) /\ Cardinality(taken \cup {t}) = Cardinality(taken) + 1
<1> DEFINE n == Cardinality(taken)
           t == Taken(trade, d, capital, n)
<1>1. IsFiniteSet(taken) /\ n \in Nat
  BY FS_CardinalityType DEF BacktestTypes
<1>2. /\ t.entry = trade.entry /\ t.exit = trade.exit /\ t.reward = trade.reward
      /\ t.risk = RiskOf(capital) /\ t.number = n
  BY DEF Taken
<1>3. RiskOf(capital) \in Int
  BY BacktestConstants DEF RiskOf
<1> HIDE DEF t
<1>4. t \notin taken
  <2>1. \A u \in taken : u.number < n /\ u.number \in Nat
    BY DEF BacktestTypes, Numbered
  <2> QED
    BY <1>1, <1>2, <2>1
<1>5. IsFiniteSet(taken \cup {t}) /\ Cardinality(taken \cup {t}) = n + 1
  BY <1>1, <1>4, FS_AddElement
<1> QED
  BY <1>1, <1>2, <1>3, <1>4, <1>5 DEF Possible, t

\* What was sized on past results stays so, and so is the trade just taken if the
\* capital held the results in by its entry.
LEMMA SizedStays ==
    ASSUME BacktestTypes, SizedOnKnownResults, NEW t, Possible(t), t.risk \in Int,
           t.number = Cardinality(taken), NEW past,
           past = {u \in taken : CreditsAhead \/ u.exit <= t.entry},
           t.risk = RiskOf(InitialCapital + Total(past)),
           taken' = taken \cup {t}, UNCHANGED <<runner, limit>>
    PROVE  SizedOnKnownResults'
<1>1. Cardinality(taken) \in Nat /\ \A u \in taken : u.number \in Nat /\ u.number < Cardinality(taken)
  BY FS_CardinalityType DEF BacktestTypes, Numbered
<1>2. ASSUME NEW v \in taken \cup {t}
      PROVE  {u \in taken \cup {t} : u.number < v.number /\ (CreditsAhead \/ u.exit <= v.entry)} =
               IF v \in taken THEN KnownAt(v) ELSE past
  BY <1>1, <1>2 DEF KnownAt
<1>3. ASSUME NEW v \in taken \cup {t}
      PROVE  v.risk = RiskOf(InitialCapital +
                Total({u \in taken \cup {t} :
                          u.number < v.number /\ (CreditsAhead \/ u.exit <= v.entry)}))
  <2>1. CASE v \in taken
    <3>1. v.risk = RiskOf(InitialCapital + Total(KnownAt(v)))
      BY <2>1 DEF SizedOnKnownResults
    <3> QED
      BY <1>2, <2>1, <3>1
  <2>2. CASE v \notin taken
    <3>1. v = t
      BY <2>2
    <3> QED
      BY <1>2, <2>2, <3>1
  <2> QED
    BY <2>1, <2>2
<1>4. CreditsAhead' = CreditsAhead
  BY DEF CreditsAhead
<1> QED
  BY <1>3, <1>4 DEF SizedOnKnownResults, KnownAt

\* The types after a trade is taken or not
LEMMA TypesStay ==
    ASSUME BacktestTypes, NEW t, Possible(t), t.risk \in Int, t.number = Cardinality(taken),
           IsFiniteSet(taken \cup {t}), Cardinality(taken \cup {t}) = Cardinality(taken) + 1,
           taken' = taken \cup {t}
    PROVE  IsFiniteSet(taken') /\ \A u \in taken' : Numbered(u)'
<1>1. Cardinality(taken) \in Nat
  BY FS_CardinalityType DEF BacktestTypes
<1>2. IsFiniteSet(taken') /\ Cardinality(taken') = Cardinality(taken) + 1
  OBVIOUS
<1>3. ASSUME NEW u \in taken' PROVE Numbered(u)'
  <2>1. CASE u \in taken
    <3>1. Numbered(u)
      BY <2>1 DEF BacktestTypes
    <3> QED
      BY <1>1, <1>2, <3>1 DEF Numbered, Possible
  <2>2. CASE u \notin taken
    <3>1. u = t
      BY <1>3, <2>2
    <3> QED
      BY <1>1, <1>2, <3>1 DEF Numbered, Possible
  <2> QED
    BY <2>1, <2>2
<1> QED
  BY <1>2, <1>3

LEMMA TradesPossible ==
    ASSUME NEW w \in Nat, NEW trade \in Trades(w)
    PROVE  Possible(trade)
<1>1. /\ trade \in [entry : w + 1..Horizon, exit : w + 1..Never, reward : Rewards]
      /\ trade.exit >= trade.entry
  BY DEF Trades
<1>2. trade.entry \in w + 1..Horizon /\ trade.exit \in w + 1..Never /\ trade.reward \in Rewards
  BY <1>1
<1>3. Never \in Nat /\ Horizon \in Nat /\ Rewards \subseteq Int
  BY BacktestConstants DEF Never
<1>4. trade.entry \in Nat /\ trade.entry <= Horizon
  <2>1. \A x \in w + 1..Horizon : x \in Nat /\ x <= Horizon
    BY <1>3
  <2> QED
    BY <1>2, <2>1
<1>5. trade.exit \in Nat
  <2>1. \A x \in w + 1..Never : x \in Nat
    BY <1>3
  <2> QED
    BY <1>2, <2>1
<1>6. trade.reward \in Int
  BY <1>2, <1>3
<1> QED
  BY <1>1, <1>4, <1>5, <1>6 DEF Possible

-----------------------------------------------------------------------------
LEMMA BacktestInitHolds == BacktestInit => BacktestInv
<1> SUFFICES ASSUME BacktestInit PROVE BacktestInv
  OBVIOUS
<1>1. /\ runner \in {"portfolio", "global"} /\ limit \in Limits
      /\ window = [d \in Datasets |-> 0] /\ candidates = {} /\ scheduled = {}
      /\ taken = {} /\ open = {} /\ equity = InitialCapital
  BY DEF BacktestInit
<1>2. IsFiniteSet(taken) /\ Total(taken) = 0 /\ Total(taken \ open) = 0
  <2>1. taken \ open = {}
    BY <1>1
  <2> QED
    BY <1>1, <2>1, TotalOfNone, FS_EmptySet
<1>3. BacktestTypes
  BY <1>1, <1>2, BacktestConstants DEF BacktestTypes
<1>4. OneAtATime
  BY <1>1, <1>2, BacktestConstants DEF OneAtATime
<1>5. SettledInTime
  BY <1>1, <1>2, BacktestConstants DEF SettledInTime
<1>6. SizedOnKnownResults
  BY <1>1 DEF SizedOnKnownResults
<1> QED
  BY <1>3, <1>4, <1>5, <1>6 DEF BacktestInv

LEMMA TakeNowKeeps ==
    ASSUME BacktestInv, runner = "portfolio", NEW d, NEW trade, Possible(trade), TakeNow(d, trade),
           UNCHANGED <<runner, limit>>
    PROVE  /\ open' \subseteq taken' /\ IsFiniteSet(taken') /\ equity' \in Int
           /\ \A u \in taken' : Numbered(u)'
           /\ SizedOnKnownResults'
           /\ OneAtATime'
<1> DEFINE t == Taken(trade, d, equity, Cardinality(taken))
           still == StillOpen(trade.entry)
<1>1. BacktestTypes /\ SizedOnKnownResults
  BY DEF BacktestInv
<1>2. /\ equity \in Int /\ IsFiniteSet(taken) /\ open \subseteq taken
      /\ \A u \in taken : Numbered(u)
  BY <1>1 DEF BacktestTypes
<1>3. /\ limit \in Int /\ equity = InitialCapital + Total(taken)
      /\ limit < 1 => taken = {}
      /\ limit = 1 => \/ taken = {} /\ open = {}
                     \/ \E last \in taken : open = {last} /\ \A u \in taken : u.exit <= last.exit
  BY <1>1 DEF BacktestInv, OneAtATime, BacktestTypes
<1>4. /\ Possible(t) /\ t.entry = trade.entry /\ t.exit = trade.exit
      /\ t.risk = RiskOf(equity) /\ t.risk \in Int
      /\ t.number = Cardinality(taken) /\ t.number \in Nat
      /\ t \notin taken
      /\ IsFiniteSet(taken \cup {t}) /\ Cardinality(taken \cup {t}) = Cardinality(taken) + 1
  BY <1>1, <1>2, TakenTrade
<1> HIDE DEF t
<1>5. still = {u \in open : u.exit > trade.entry}
  BY DEF StillOpen
<1>8. still \subseteq open /\ IsFiniteSet(still) /\ Cardinality(still) \in Nat
  BY <1>2, <1>5, FS_Subset, FS_CardinalityType
<1>6. CASE Cardinality(still) >= limit
  <2>1. open' = still /\ UNCHANGED <<taken, equity>>
    BY <1>6 DEF TakeNow, t
  <2>2. ASSUME limit = 1 PROVE open' = open
    <3>1. still # {}
      <4> SUFFICES ASSUME still = {} PROVE FALSE
        OBVIOUS
      <4>1. Cardinality(still) = 0
        BY FS_EmptySet
      <4> QED
        BY <1>6, <2>2, <4>1
    <3> QED
      BY <1>3, <1>8, <2>1, <2>2, <3>1
  <2>3. \A u \in taken' : Numbered(u)'
    BY <1>2, <2>1 DEF Numbered, Possible
  <2>4. SizedOnKnownResults'
    BY <1>1, <2>1 DEF SizedOnKnownResults, KnownAt, CreditsAhead
  <2>5. OneAtATime'
    BY <1>3, <2>1, <2>2 DEF OneAtATime
  <2> QED
    BY <1>2, <1>8, <2>1, <2>3, <2>4, <2>5
<1>7. CASE ~(Cardinality(still) >= limit)
  <2>1. taken' = taken \cup {t} /\ open' = still \cup {t} /\ equity' = equity + PnL(t)
    BY <1>7 DEF TakeNow, t
  <2>2. limit >= 1
    BY <1>3, <1>7, <1>8
  <2>3. ASSUME limit = 1 PROVE still = {} /\ \A u \in taken : u.exit <= trade.entry
    <3>1. still = {}
      <4> SUFFICES ASSUME NEW u \in still PROVE FALSE
        OBVIOUS
      <4>1. still = {u}
        BY <1>3, <1>5, <2>3
      <4>2. Cardinality(still) = 1
        BY <4>1, FS_Singleton
      <4> QED
        BY <1>7, <2>3, <4>2
    <3>2. CASE taken = {}
      BY <3>1, <3>2
    <3>3. CASE taken # {}
      <4>1. PICK last \in taken : open = {last} /\ \A u \in taken : u.exit <= last.exit
        BY <1>3, <2>3, <3>3
      <4>2. ~(last.exit > trade.entry)
        BY <1>5, <3>1, <4>1
      <4>3. \A u \in taken : u.exit <= trade.entry
        BY <1>2, <4>1, <4>2 DEF Numbered, Possible
      <4> QED
        BY <3>1, <4>3
    <3> QED
      BY <3>2, <3>3
  <2>4. \A u \in taken' : Numbered(u)'
    BY <1>1, <1>4, <2>1, TypesStay
  <2>5. taken = {u \in taken : CreditsAhead \/ u.exit <= t.entry}
    <3>1. CASE limit = 1
      BY <1>4, <2>3, <3>1
    <3>2. CASE limit # 1
      BY <1>3, <2>2, <3>2 DEF CreditsAhead
    <3> QED
      BY <3>1, <3>2
  <2>6. SizedOnKnownResults'
    BY <1>1, <1>3, <1>4, <2>1, <2>5, SizedStays
  <2>7. \A u \in taken \cup {t} : u.risk \in Int /\ u.reward \in Int
    BY <1>2, <1>4 DEF Numbered, Possible
  <2>8. Total(taken') = Total(taken) + PnL(t) /\ Total(taken) \in Int /\ PnL(t) \in Int
    BY <1>2, <1>4, <2>1, <2>7, TotalWith, TotalIsInt, PnLIsInt
  <2>9. equity' = InitialCapital + Total(taken') /\ equity' \in Int
    BY <1>2, <1>3, <2>1, <2>8, BacktestConstants
  <2>10. ASSUME limit = 1 PROVE open' = {t} /\ t \in taken' /\ \A u \in taken' : u.exit <= t.exit
    BY <1>2, <1>4, <2>1, <2>3, <2>10 DEF Numbered, Possible
  <2>11. OneAtATime'
    BY <2>2, <2>9, <2>10, <1>3 DEF OneAtATime
  <2> QED
    BY <1>2, <1>4, <1>8, <2>1, <2>4, <2>6, <2>9, <2>11
<1> QED
  BY <1>6, <1>7

LEMMA AnalyseKeeps ==
    ASSUME BacktestInv, NEW d \in Datasets, AnalyseWindow(d)
    PROVE  BacktestInv'
<1>1. PICK found \in Findings, wave \in Waves \cup {NoCount}, built \in BOOLEAN :
      /\ window[d] < Windows[d]
      /\ window' = [window EXCEPT ![d] = @ + 1]
      /\ \/ UNCHANGED <<candidates, taken, open, equity>>
         \/ /\ HasScenarios(d, found, wave) /\ built
            /\ \E trade \in Trades(window[d] + 1), priority \in 1..2 :
                  IF runner = "portfolio"
                  THEN TakeNow(d, trade) /\ UNCHANGED candidates
                  ELSE /\ candidates' = candidates \cup
                            {[trade |-> trade, dataset |-> d, window |-> window[d],
                              priority |-> priority]}
                       /\ UNCHANGED <<taken, open, equity>>
      /\ UNCHANGED <<runner, limit, scheduled>>
  BY DEF AnalyseWindow
<1>2. /\ runner \in {"portfolio", "global"} /\ window \in [Datasets -> Nat]
      /\ \A u \in taken : Numbered(u)
      /\ \A c \in candidates : Possible(c.trade)
      /\ equity \in Int /\ IsFiniteSet(taken) /\ open \subseteq taken
  BY DEF BacktestInv, BacktestTypes
<1>3. window' \in [Datasets -> Nat] /\ window[d] + 1 \in Nat
  BY <1>1, <1>2
<1>4. ~Analysed
  BY <1>1, <1>2, BacktestConstants DEF Analysed
<1>5. runner = "global" => taken = {} /\ open = {} /\ equity = InitialCapital + Total(taken \ open)
  BY <1>4 DEF BacktestInv, SettledInTime
<1>6. CASE UNCHANGED <<candidates, taken, open, equity>>
  <2>1. BacktestTypes'
    BY <1>1, <1>2, <1>3, <1>6 DEF BacktestInv, BacktestTypes, Numbered, Possible
  <2>2. OneAtATime'
    BY <1>1, <1>6 DEF BacktestInv, OneAtATime
  <2>3. SettledInTime'
    BY <1>1, <1>5, <1>6 DEF SettledInTime
  <2>4. SizedOnKnownResults'
    BY <1>1, <1>6 DEF BacktestInv, SizedOnKnownResults, KnownAt, CreditsAhead
  <2> QED
    BY <2>1, <2>2, <2>3, <2>4 DEF BacktestInv
<1>7. ASSUME NEW trade \in Trades(window[d] + 1), runner = "portfolio",
             TakeNow(d, trade), UNCHANGED candidates
      PROVE  BacktestInv'
  <2>1. Possible(trade)
    BY <1>3, TradesPossible
  <2>2. /\ open' \subseteq taken' /\ IsFiniteSet(taken') /\ equity' \in Int
        /\ \A u \in taken' : Numbered(u)'
        /\ SizedOnKnownResults'
        /\ OneAtATime'
    BY <1>1, <1>7, <2>1, TakeNowKeeps
  <2>3. BacktestTypes'
    BY <1>1, <1>2, <1>3, <1>7, <2>2 DEF BacktestInv, BacktestTypes, Possible
  <2>4. OneAtATime' /\ SettledInTime'
    BY <1>1, <1>7, <2>2 DEF SettledInTime
  <2> QED
    BY <2>2, <2>3, <2>4 DEF BacktestInv
<1>8. ASSUME NEW trade \in Trades(window[d] + 1), NEW priority \in 1..2, runner # "portfolio",
             candidates' = candidates \cup
               {[trade |-> trade, dataset |-> d, window |-> window[d], priority |-> priority]},
             UNCHANGED <<taken, open, equity>>
      PROVE  BacktestInv'
  <2>1. Possible(trade)
    BY <1>3, TradesPossible
  <2>2. \A c \in candidates' : Possible(c.trade)
    BY <1>2, <1>8, <2>1
  <2>3. \A u \in taken' : Numbered(u)'
    BY <1>2, <1>8 DEF Numbered, Possible
  <2>4. \A c \in candidates' : Possible(c.trade)'
    BY <2>2 DEF Possible
  <2>5. BacktestTypes'
    BY <1>1, <1>2, <1>3, <1>8, <2>3, <2>4 DEF BacktestInv, BacktestTypes
  <2>6. OneAtATime' /\ SettledInTime'
    BY <1>1, <1>2, <1>5, <1>8 DEF OneAtATime, SettledInTime
  <2>7. SizedOnKnownResults'
    BY <1>1, <1>8 DEF BacktestInv, SizedOnKnownResults, KnownAt, CreditsAhead
  <2> QED
    BY <2>5, <2>6, <2>7 DEF BacktestInv
<1> QED
  BY <1>1, <1>6, <1>7, <1>8

\* What is settled goes into the account.
LEMMA Settling ==
    ASSUME BacktestInv, runner = "global", NEW due, due \subseteq open
    PROVE  /\ equity + Total(due) = InitialCapital + Total((taken \ open) \cup due)
           /\ equity + Total(due) \in Int
           /\ IsFiniteSet(due)
<1>1. /\ equity \in Int /\ IsFiniteSet(taken) /\ open \subseteq taken
      /\ \A u \in taken : u.risk \in Int /\ u.reward \in Int
  BY DEF BacktestInv, BacktestTypes, Numbered, Possible
<1> DEFINE old == taken \ open
<1>2. IsFiniteSet(old) /\ IsFiniteSet(due) /\ old \cap due = {} /\ old \cup due \subseteq taken
  BY <1>1, FS_Subset
<1>3. equity = InitialCapital + Total(old)
  BY DEF BacktestInv, SettledInTime
<1> HIDE DEF old
<1>4. \A u \in old \cup due : u.risk \in Int /\ u.reward \in Int
  BY <1>1, <1>2
<1>5. Total(old \cup due) = Total(old) + Total(due)
  BY <1>2, <1>4, TotalUnion
<1>6. Total(old) \in Int /\ Total(due) \in Int
  BY <1>2, <1>4, TotalIsInt
<1> QED
  BY <1>1, <1>2, <1>3, <1>5, <1>6, BacktestConstants DEF old

LEMMA ScheduleKeeps ==
    ASSUME BacktestInv, Schedule
    PROVE  BacktestInv'
<1>1. runner = "global" /\ Analysed
      /\ UNCHANGED <<runner, limit, window, entered, candidates>>
  BY DEF Schedule, Analysed
<1>2. PICK c \in Kept \ scheduled :
          LET due == SettledBy(c.trade.entry)
              capital == equity + Total(due)
              left == open \ due
              t == Taken(c.trade, c.dataset, capital, Cardinality(taken))
          IN  /\ \A d \in Kept \ scheduled : d = c \/ Sooner(c, d)
              /\ scheduled' = scheduled \cup {c}
              /\ equity' = capital
              /\ IF Blocked(c, left) THEN open' = left /\ UNCHANGED taken
                 ELSE open' = left \cup {t} /\ taken' = taken \cup {t}
  BY DEF Schedule
<1> DEFINE due == SettledBy(c.trade.entry)
           capital == equity + Total(due)
           left == open \ due
           t == Taken(c.trade, c.dataset, capital, Cardinality(taken))
<1>3. /\ scheduled' = scheduled \cup {c} /\ equity' = capital
      /\ \/ open' = left /\ taken' = taken
         \/ open' = left \cup {t} /\ taken' = taken \cup {t}
  BY <1>2
<1>4. /\ IsFiniteSet(taken) /\ open \subseteq taken
      /\ \A u \in taken : Numbered(u)
      /\ \A x \in candidates : Possible(x.trade)
      /\ BacktestTypes /\ SizedOnKnownResults
  BY DEF BacktestInv, BacktestTypes
<1>5. Possible(c.trade) /\ \A x \in Kept \ scheduled : Possible(x.trade)
  BY <1>4 DEF Kept
<1>6. due = {u \in open : u.exit # Never /\ u.exit <= c.trade.entry}
  BY DEF SettledBy
<1>7. due \subseteq open /\ left \subseteq open
  BY <1>6
<1>8. capital = InitialCapital + Total((taken \ open) \cup due) /\ capital \in Int
  BY <1>1, <1>7, Settling
<1>9. \A x \in Kept \ scheduled : c.trade.entry <= x.trade.entry
  <2> SUFFICES ASSUME NEW x \in Kept \ scheduled PROVE c.trade.entry <= x.trade.entry
    OBVIOUS
  <2>1. x = c \/ Sooner(c, x)
    BY <1>2
  <2>2. c.trade.entry \in Nat /\ x.trade.entry \in Nat
    BY <1>5 DEF Possible
  <2> QED
    BY <2>1, <2>2 DEF Sooner
<1>10. \A u \in (taken \ open) \cup due : u.exit <= c.trade.entry
  BY <1>1, <1>6 DEF BacktestInv, SettledInTime
<1>11. (taken \ open) \cup due = {u \in taken : u.exit <= c.trade.entry}
  <2>1. \A u \in left : ~(u.exit <= c.trade.entry)
    <3>1. c.trade.entry \in Nat /\ c.trade.entry <= Horizon
      BY <1>5 DEF Possible
    <3>2. \A u \in left : u.exit = Never \/ ~(u.exit <= c.trade.entry)
      BY <1>6
    <3> QED
      BY <3>1, <3>2, BacktestConstants DEF Never
  <2> QED
    BY <1>4, <1>6, <1>10, <2>1
<1>12. /\ Possible(t) /\ t.entry = c.trade.entry
       /\ t.risk = RiskOf(capital) /\ t.risk \in Int
       /\ t.number = Cardinality(taken) /\ t \notin taken
       /\ IsFiniteSet(taken \cup {t}) /\ Cardinality(taken \cup {t}) = Cardinality(taken) + 1
  <2>1. BacktestTypes /\ Possible(c.trade) /\ capital \in Int
    BY <1>4, <1>5, <1>8
  <2> HIDE DEF capital
  <2> QED
    BY <2>1, TakenTrade
<1> HIDE DEF due, capital, t
<1>13. Kept' = Kept
  BY <1>1 DEF Kept, Sooner
<1>14. taken' \ open' = (taken \ open) \cup due /\ open' \subseteq taken'
  BY <1>3, <1>4, <1>7, <1>12
<1>15. SettledInTime'
  <2>1. \A x \in Kept' \ scheduled' : \A u \in taken' \ open' : u.exit <= x.trade.entry
    <3> SUFFICES ASSUME NEW x \in Kept \ scheduled, NEW u \in (taken \ open) \cup due
                 PROVE  u.exit <= x.trade.entry
      BY <1>3, <1>13, <1>14
    <3>1. u.exit <= c.trade.entry /\ c.trade.entry <= x.trade.entry
      BY <1>9, <1>10
    <3>2. u.exit \in Nat /\ c.trade.entry \in Nat /\ x.trade.entry \in Nat
      BY <1>4, <1>5, <1>7 DEF Possible, Numbered
    <3> QED
      BY <3>1, <3>2
  <2>2. Analysed'
    BY <1>1 DEF Analysed
  <2>3. equity' = InitialCapital + Total(taken' \ open')
    BY <1>3, <1>8, <1>14
  <2> QED
    BY <1>1, <2>1, <2>2, <2>3 DEF SettledInTime
<1>16. (\A u \in taken' : Numbered(u)') /\ IsFiniteSet(taken') /\ SizedOnKnownResults'
  <2>1. CASE taken' = taken
    <3>1. \A u \in taken' : Numbered(u)'
      BY <1>4, <2>1 DEF Numbered, Possible
    <3>2. SizedOnKnownResults'
      BY <1>1, <1>4, <2>1 DEF SizedOnKnownResults, KnownAt, CreditsAhead
    <3> QED
      BY <1>4, <2>1, <3>1, <3>2
  <2>2. CASE taken' = taken \cup {t}
    <3>1. (\A u \in taken' : Numbered(u)') /\ IsFiniteSet(taken')
      BY <1>4, <1>12, <2>2, TypesStay
    <3> DEFINE past == (taken \ open) \cup due
    <3>2. /\ past = {u \in taken : CreditsAhead \/ u.exit <= t.entry}
          /\ t.risk = RiskOf(InitialCapital + Total(past))
      BY <1>1, <1>8, <1>11, <1>12 DEF CreditsAhead
    <3> HIDE DEF past
    <3>3. SizedOnKnownResults'
      BY <1>1, <1>4, <1>12, <2>2, <3>2, SizedStays
    <3> QED
      BY <3>1, <3>3
  <2> QED
    BY <1>3, <2>1, <2>2
<1>17. BacktestTypes'
  BY <1>1, <1>3, <1>8, <1>14, <1>16 DEF BacktestInv, BacktestTypes, Possible
<1>18. OneAtATime'
  BY <1>1 DEF OneAtATime
<1> QED
  BY <1>15, <1>16, <1>17, <1>18 DEF BacktestInv

LEMMA SettleAllKeeps ==
    ASSUME BacktestInv, SettleAll
    PROVE  BacktestInv'
<1> DEFINE due == SettledBy(Horizon)
<1>1. /\ runner = "global" /\ Analysed /\ Kept \subseteq scheduled
      /\ open' = open \ due /\ equity' = equity + Total(due)
      /\ UNCHANGED <<runner, limit, window, entered, candidates, scheduled, taken>>
  BY DEF SettleAll, Analysed
<1>2. due \subseteq open
  BY DEF SettledBy
<1>3. equity' = InitialCapital + Total((taken \ open) \cup due) /\ equity' \in Int
  BY <1>1, <1>2, Settling
<1> HIDE DEF due
<1>4. open \subseteq taken
  BY DEF BacktestInv, BacktestTypes
<1>5. taken' \ open' = (taken \ open) \cup due /\ open' \subseteq taken'
  BY <1>1, <1>2, <1>4
<1>6. Kept' = Kept /\ Analysed'
  BY <1>1 DEF Kept, Sooner, Analysed
<1>7. equity' = InitialCapital + Total(taken' \ open')
  BY <1>3, <1>5
<1>8. SettledInTime' /\ OneAtATime'
  BY <1>1, <1>6, <1>7 DEF SettledInTime, OneAtATime
<1>9. BacktestTypes' /\ SizedOnKnownResults'
  BY <1>1, <1>3, <1>5 DEF BacktestInv, BacktestTypes, Numbered, Possible, SizedOnKnownResults,
     KnownAt, CreditsAhead
<1> QED
  BY <1>8, <1>9 DEF BacktestInv

\* A trade of the backtests risks its share of the capital and of the results that were
\* in by its entry, and of no later one; only run_portfolio_backtest with room for several
\* positions counts the results of open trades as well.  For any windows, rewards and
\* number of positions (run_portfolio_backtest, run_global_portfolio_backtest).
THEOREM SizedOnTheKnown == BacktestSpec => []SizedOnKnownResults
<1>1. BacktestInv /\ BacktestNext => BacktestInv'
  BY AnalyseKeeps, ScheduleKeeps, SettleAllKeeps DEF BacktestNext
<1>2. BacktestInv /\ UNCHANGED backtestVars => BacktestInv'
  BY DEF backtestVars, BacktestInv, BacktestTypes, Numbered, Possible, OneAtATime, SettledInTime,
     SizedOnKnownResults, KnownAt, CreditsAhead, Kept, Sooner, Analysed
<1>3. BacktestInv => SizedOnKnownResults
  BY DEF BacktestInv
<1> QED
  BY BacktestInitHolds, <1>1, <1>2, <1>3, PTL DEF BacktestSpec
=============================================================================
