-------------------------- MODULE Positions_proofs --------------------------
(***************************************************************************)
(* The exits of a position and the limits on new ones.  The exits, for any *)
(* plan, shares, lots and orders of an earlier trade: what a               *)
(* reconciliation leaves on the exchange, and what the targets sell.  The  *)
(* limits, for any symbols, wallets and caps: when they may be exceeded.   *)
(***************************************************************************)
EXTENDS ExitLadder, PortfolioLimits, SumTheorems

-----------------------------------------------------------------------------
(* Exits.  The split of a position: no level gets less than nothing, and   *)
(* together the levels get no more than the position.                      *)

Weighted == {k \in Levels : Weights[k] > 0}

LEMMA LevelSets ==
    ASSUME NEW levels \in SUBSET Levels
    PROVE  /\ IsFiniteSet(levels)
           /\ levels # {} => Max(levels) \in levels /\ \A k \in levels : k <= Max(levels)
           /\ \A k \in levels : Weights[k] \in Nat
           /\ Weight(levels) \in Nat
           /\ \A k \in levels : Weights[k] <= Weight(levels)
<1>1. IsFiniteSet(levels)
  <2>1. IsFiniteSet(Levels)
    <3>1. 1 \in Int /\ 3 \in Int
      OBVIOUS
    <3> QED
      BY <3>1, FS_Interval, Zenon DEF Levels
  <2> QED
    BY <2>1, FS_Subset
<1>2. ASSUME levels # {} PROVE Max(levels) \in levels /\ \A k \in levels : k <= Max(levels)
  <2>1. \E x \in levels : \A y \in levels : x >= y
    <3>1. CASE 3 \in levels
      BY <3>1 DEF Levels
    <3>2. CASE 3 \notin levels /\ 2 \in levels
      BY <3>2 DEF Levels
    <3>3. CASE 3 \notin levels /\ 2 \notin levels
      <4>1. \A y \in Levels : y = 1 \/ y = 2 \/ y = 3
        BY DEF Levels
      <4>2. \A y \in levels : y = 1
        BY <3>3, <4>1
      <4>3. 1 \in levels
        BY <1>2, <4>2
      <4> QED
        BY <4>2, <4>3
    <3> QED
      BY <3>1, <3>2, <3>3
  <2>2. Max(levels) \in levels /\ \A y \in levels : Max(levels) >= y
    BY <2>1 DEF Max
  <2> QED
    BY <2>2 DEF Levels
<1>3. \A k \in levels : Weights[k] \in Nat
  BY LadderAssumption DEF LadderAssumption
<1>4. Weight(levels) \in Nat
  <2>1. levels \in SUBSET levels
    OBVIOUS
  <2> QED
    BY <1>1, <1>3, <2>1, SumSubset DEF Weight
<1>5. ASSUME NEW k \in levels PROVE Weights[k] <= Weight(levels)
  <2>1. IsFiniteSet(levels \ {k}) /\ levels \ {k} \in SUBSET levels
        /\ \A j \in levels : Weights[j] \in Int
    BY <1>1, <1>3, FS_Subset
  <2>2. SumFunctionOnSet(Weights, levels \ {k}) \in Nat
    BY <1>1, <1>3, <2>1, SumSubset
  <2>3. SumFunctionOnSet(Weights, levels)
          = Weights[k] + SumFunctionOnSet(Weights, levels \ {k})
    BY <1>1, <2>1, SumOfElement
  <2> QED
    BY <1>3, <2>2, <2>3 DEF Weight
<1> QED
  BY <1>1, <1>2, <1>3, <1>4, <1>5

Down(lots, levels) == [k \in levels |-> (lots * Weights[k]) \div Weight(levels)]

LEMMA DownShare ==
    ASSUME NEW lots \in Nat, NEW w \in Nat, NEW total \in Nat \ {0}, w <= total
    PROVE  /\ (lots * w) \div total \in 0..lots
           /\ total * ((lots * w) \div total) <= lots * w
<1>1. PICK e \in Nat : total = w + e
  <2>1. total - w \in Nat /\ total = w + (total - w)
    OBVIOUS
  <2> QED
    BY <2>1
<1>2. lots * w \in Nat /\ lots * e \in Nat /\ lots * total = lots * w + lots * e
  BY <1>1
<1>3. PICK p \in Nat : p = lots * w
  BY <1>2
<1>4. PICK d \in Nat : d = p \div total /\ total * d <= p
  <2>1. p \div total \in Nat /\ total * (p \div total) <= p
    OBVIOUS
  <2> QED
    BY <2>1
<1>5. d <= lots
  <2> SUFFICES ASSUME d >= lots + 1 PROVE FALSE
    OBVIOUS
  <2>1. PICK x \in Nat : d = lots + 1 + x
    <3>1. d - (lots + 1) \in Nat /\ d = lots + 1 + (d - (lots + 1))
      OBVIOUS
    <3> QED
      BY <3>1
  <2>2. total * d = total * lots + total + total * x /\ total * x \in Nat /\ total * lots = lots * total
    BY <2>1
  <2> QED
    BY <1>2, <1>3, <1>4, <2>2
<1> QED
  BY <1>3, <1>4, <1>5

LEMMA SplitBounds ==
    ASSUME NEW lots \in Nat, NEW levels \in SUBSET Weighted, NEW k \in levels
    PROVE  Split(lots, levels)[k] \in 0..lots
<1> DEFINE total == Weight(levels)
           down == Down(lots, levels)
           rest == levels \ {Max(levels)}
<1>1. levels \in SUBSET Levels /\ levels # {}
  BY DEF Weighted
<1>2. /\ IsFiniteSet(levels) /\ Max(levels) \in levels
      /\ \A j \in levels : Weights[j] \in Nat /\ Weights[j] <= total
      /\ total \in Nat
  BY <1>1, LevelSets
<1>3. total \in Nat \ {0}
  BY <1>2 DEF Weighted
<1>4. \A j \in levels : down[j] \in 0..lots /\ total * down[j] <= lots * Weights[j]
  BY <1>2, <1>3, DownShare DEF Down
<1>5. Split(lots, levels)[k] = IF k # Max(levels) THEN down[k]
                                ELSE lots - SumFunctionOnSet(down, rest)
  BY DEF Split, Down
<1>6. IsFiniteSet(rest) /\ rest \in SUBSET levels /\ \A j \in rest : down[j] \in Nat
  BY <1>2, <1>4, FS_Subset
<1> HIDE DEF down, total, rest
<1>7. SumFunctionOnSet(down, rest) \in Nat
  <2>1. rest \in SUBSET rest
    OBVIOUS
  <2> QED
    BY <1>6, <2>1, SumSubset
<1>8. total * SumFunctionOnSet(down, rest) <= lots * SumFunctionOnSet(Weights, rest)
  <2> DEFINE f == [j \in levels |-> total * down[j]]
             g == [j \in levels |-> lots * Weights[j]]
  <2>1. \A j \in rest : /\ down[j] \in Int /\ Weights[j] \in Int
                        /\ f[j] = total * down[j] /\ g[j] = lots * Weights[j]
                        /\ f[j] \in Int /\ g[j] \in Int /\ f[j] <= g[j]
    BY <1>2, <1>3, <1>4, <1>6
  <2> HIDE DEF f, g
  <2>2. SumFunctionOnSet(f, rest) = total * SumFunctionOnSet(down, rest)
    <3>1. total \in Int
      BY <1>3
    <3> QED
      BY <1>6, <2>1, <3>1, SumTimes
  <2>3. SumFunctionOnSet(g, rest) = lots * SumFunctionOnSet(Weights, rest)
    <3>1. lots \in Int
      OBVIOUS
    <3> QED
      BY <1>6, <2>1, <3>1, SumTimes
  <2>4. SumFunctionOnSet(f, rest) <= SumFunctionOnSet(g, rest)
    BY <1>6, <2>1, SumLeq
  <2> QED
    BY <2>2, <2>3, <2>4
<1>9. SumFunctionOnSet(Weights, rest) \in Nat /\ SumFunctionOnSet(Weights, rest) <= total
  BY <1>2, <1>6, SumSubset DEF Weight, total
<1>10. PICK s, w \in Nat : s = SumFunctionOnSet(down, rest)
                           /\ w = SumFunctionOnSet(Weights, rest) /\ w <= total
                           /\ total * s <= lots * w
  BY <1>7, <1>8, <1>9
<1>11. s <= lots
  <2>1. lots * w <= lots * total
    <3>1. PICK e \in Nat : total = w + e
      <4>1. total - w \in Nat /\ total = w + (total - w)
        BY <1>3, <1>10
      <4> QED
        BY <4>1
    <3>2. lots * total = lots * w + lots * e /\ lots * e \in Nat
      BY <3>1
    <3> QED
      BY <3>2
  <2> SUFFICES ASSUME s >= lots + 1 PROVE FALSE
    OBVIOUS
  <2>2. PICK x \in Nat : s = lots + 1 + x
    <3>1. s - (lots + 1) \in Nat /\ s = lots + 1 + (s - (lots + 1))
      OBVIOUS
    <3> QED
      BY <3>1
  <2>3. total * s = total * lots + total + total * x /\ total * x \in Nat
        /\ total * lots = lots * total
    BY <1>3, <2>2
  <2> QED
    BY <1>3, <1>10, <2>1, <2>3
<1> QED
  BY <1>4, <1>5, <1>10, <1>11

-----------------------------------------------------------------------------
Order == [kind : 0..3, at : Nat, lots : 0..Lots]

Row == [linked : BOOLEAN, stop : Nat, targets : [Levels -> Nat]]

\* A stop closes the position, it has no size of its own.
Book(book) == book \subseteq Order /\ \A o \in book : o.kind = 0 => o.lots = 0

LadderShape ==
    /\ mark \in Marks \cup {EntryAt}
    /\ held \in 0..Lots
    /\ Book(exits)
    /\ leg \in Row
    /\ plan \in {"resting", "open", "over", "closed"}
    /\ hits \subseteq Levels
    /\ sold \in [Levels -> 0..Lots]
    /\ held + sold[1] + sold[2] + sold[3] <= Lots
    /\ ahead \in BOOLEAN /\ restored \in BOOLEAN
    /\ ladderFaults \in 0..MaxLadderFaults
    /\ plan = "resting" => exits \subseteq Strays /\ held = 0 /\ \A k \in Levels : sold[k] = 0

LEMMA LevelsAre == Levels = {1, 2, 3}
BY DEF Levels

LEMMA StopIsOrder ==
    ASSUME NEW at \in Nat
    PROVE  Stop(at) \in Order /\ Stop(at).kind = 0 /\ Stop(at).lots = 0 /\ Stop(at).at = at
BY LadderAssumption DEF LadderAssumption, Stop, Order

LEMMA StraysBook == Book(Strays)
BY LadderAssumption DEF LadderAssumption, Book, Order

LEMMA BackfilledRow ==
    ASSUME NEW row \in Row
    PROVE  /\ Backfilled(row) \in Row /\ Backfilled(row).stop = row.stop
           /\ \A k \in Levels : \/ Backfilled(row).targets[k] = row.targets[k]
                                \/ Backfilled(row).targets[k] = PlanTargets[k]
<1>1. CASE plan = "open"
  <2> DEFINE t == [k \in Levels |-> IF row.targets[k] = 0 THEN PlanTargets[k] ELSE row.targets[k]]
  <2>1. t \in [Levels -> Nat]
    BY LadderAssumption DEF LadderAssumption, Row
  <2>2. Backfilled(row) = [linked |-> TRUE, stop |-> row.stop, targets |-> t]
    BY <1>1 DEF Backfilled
  <2>3. \A k \in Levels : t[k] = row.targets[k] \/ t[k] = PlanTargets[k]
    OBVIOUS
  <2> HIDE DEF t
  <2> QED
    BY <2>1, <2>2, <2>3 DEF Row
<1>2. CASE plan # "open"
  BY <1>2 DEF Backfilled
<1> QED
  BY <1>1, <1>2

LEMMA RecoveredRow ==
    ASSUME NEW book, Book(book), NEW row \in Recovered(book)
    PROVE  /\ row \in Row /\ ~row.linked
           /\ \A k \in Levels : \/ row.targets[k] = 0
                                \/ \E o \in book : o.kind = k /\ o.at = row.targets[k]
<1>1. PICK s \in OnBook(0, book, EmergencyStop), t \in OnBookTargets(book) :
         row = [linked |-> FALSE, stop |-> s, targets |-> t]
  BY DEF Recovered
<1>2. s \in Nat
  BY LadderAssumption DEF LadderAssumption, OnBook, Book, Order
<1>3. t \in [Levels -> Nat]
  <2>1. {0} \cup {o.at : o \in book} \subseteq Nat
    BY DEF Book, Order
  <2> QED
    BY <2>1 DEF OnBookTargets
<1>4. \A k \in Levels : t[k] = 0 \/ \E o \in book : o.kind = k /\ o.at = t[k]
  BY DEF OnBookTargets, OnBook
<1> QED
  BY <1>1, <1>2, <1>3, <1>4 DEF Row

LEMMA ExpectedLevels ==
    ASSUME NEW row, NEW lots
    PROVE  /\ Expected(row, lots) \in SUBSET Weighted
           /\ \A k \in Expected(row, lots) : row.targets[k] # 0
           /\ row.linked => \A k \in Expected(row, lots) : \A j \in hits : k > j
BY DEF Expected, OpenLevels, Priced, Weighted

LEMMA NewTarget ==
    ASSUME LadderShape, NEW row \in Row, NEW book, NEW o \in TargetsFor(row, book)
    PROVE  \E k \in Expected(row, held) :
              /\ o = [kind |-> k, at |-> row.targets[k], lots |-> Split(held, Expected(row, held))[k]]
              /\ o \in Order /\ o.kind = k /\ k \in Levels /\ o.at = row.targets[k]
              /\ \A p \in book : p.kind # k /\ (p.kind # 0 => p.at # row.targets[k])
<1>1. PICK levels : levels = Expected(row, held)
  OBVIOUS
<1>2. PICK k \in levels :
         /\ o = [kind |-> k, at |-> row.targets[k], lots |-> Split(held, levels)[k]]
         /\ \A p \in book : p.kind # k /\ (p.kind # 0 => p.at # row.targets[k])
  BY <1>1 DEF TargetsFor
<1>3. levels \in SUBSET Weighted /\ k \in Levels
  BY <1>1, <1>2, ExpectedLevels DEF Weighted
<1>4. Split(held, levels)[k] \in 0..held /\ held \in 0..Lots
  BY <1>2, <1>3, SplitBounds, LadderAssumption DEF LadderShape, LadderAssumption
<1>5. Split(held, levels)[k] \in 0..Lots
  BY <1>4, LadderAssumption DEF LadderAssumption
<1>6. row.targets[k] \in Nat /\ k \in 0..3
  BY <1>3, LevelsAre DEF Row
<1> QED
  BY <1>1, <1>2, <1>3, <1>5, <1>6 DEF Order

LEMMA EnsuredBook ==
    ASSUME LadderShape, NEW row \in Row, NEW book, Book(book), NEW failing
    PROVE  Book(Ensured(row, book, failing))
<1>1. PICK tidy : tidy = IF "tidy" \in failing THEN book ELSE Tidied(row, book)
  OBVIOUS
<1>2. tidy \subseteq book
  BY <1>1 DEF Tidied
<1>3. Ensured(row, book, failing) \subseteq tidy \cup StopFor(row, tidy) \cup TargetsFor(row, tidy)
  BY <1>1 DEF Ensured
<1>4. Stop(row.stop) \in Order /\ Stop(row.stop).lots = 0
  BY StopIsOrder DEF Row
<1>5. \A o \in StopFor(row, tidy) : o \in Order /\ o.lots = 0
  BY <1>4 DEF StopFor
<1>6. \A o \in TargetsFor(row, tidy) : o \in Order /\ o.kind # 0
  BY NewTarget DEF Levels
<1> QED
  BY <1>2, <1>3, <1>5, <1>6 DEF Book

LEMMA FailsCounted ==
    ASSUME LadderShape, NEW failing, Fails(failing)
    PROVE  ladderFaults' \in 0..MaxLadderFaults
<1>1. Cardinality(failing) \in Nat
  <2>1. IsFiniteSet(failing)
    BY FS_EmptySet, FS_Singleton DEF Fails
  <2> QED
    BY <2>1, FS_CardinalityType
<1>2. ladderFaults \in Nat /\ MaxLadderFaults \in Nat
  BY LadderAssumption DEF LadderAssumption, LadderShape
<1>3. ladderFaults' = ladderFaults + Cardinality(failing) /\ ladderFaults' <= MaxLadderFaults
  BY DEF Fails
<1> QED
  BY <1>1, <1>2, <1>3

LEMMA LadderShapeInit == LadderInit => LadderShape
<1> SUFFICES ASSUME LadderInit PROVE LadderShape
  OBVIOUS
<1>1. Book(exits)
  BY StraysBook DEF LadderInit, Book
<1>2. leg \in Row
  BY DEF LadderInit, NoLeg, Row
<1>3. sold \in [Levels -> 0..Lots] /\ \A k \in Levels : sold[k] = 0
  BY LadderAssumption DEF LadderInit, LadderAssumption
<1>4. held + sold[1] + sold[2] + sold[3] <= Lots
  BY <1>3, LevelsAre, LadderAssumption DEF LadderInit, LadderAssumption
<1>5. 0 \in 0..Lots /\ 0 \in 0..MaxLadderFaults
  BY LadderAssumption DEF LadderAssumption
<1> QED
  BY <1>1, <1>2, <1>3, <1>4, <1>5 DEF LadderInit, LadderShape

\* The plan's row, and the orders open_from_signal places for it
PlanRow == [linked |-> TRUE, stop |-> PlanStop, targets |-> PlanTargets]

LEMMA PlanRowIsRow == PlanRow \in Row
BY LadderAssumption DEF LadderAssumption, PlanRow, Row

LEMMA SeenFillPlaces ==
    ASSUME EntryFillSeen
    PROVE  \E levels \in SUBSET Weighted, failing \in SUBSET Calls :
              /\ leg' = PlanRow /\ Fails(failing)
              /\ exits' \subseteq exits \cup StopFor(PlanRow, exits)
                    \cup {[kind |-> k, at |-> PlanTargets[k],
                           lots |-> Split(Lots, Priced(PlanRow))[k]] : k \in levels}
<1> DEFINE ladder == {k \in Levels : Weights[k] > 0 /\ Split(Lots, Priced(PlanRow))[k] > 0}
           targets == {[kind |-> k, at |-> PlanTargets[k],
                        lots |-> Split(Lots, Priced(PlanRow))[k]] : k \in ladder}
<1>1. PICK failing \in SUBSET Calls :
        /\ Fails(failing)
        /\ exits' = exits \cup (IF "stop" \in failing THEN {} ELSE StopFor(PlanRow, exits))
                          \cup (IF failing \cap {"stop", "targets"} # {} THEN {} ELSE targets)
  BY DEF EntryFillSeen, PlanRow
<1>2. leg' = PlanRow
  BY DEF EntryFillSeen, PlanRow
<1>3. ladder \in SUBSET Weighted
  BY DEF Weighted
<1> HIDE DEF ladder
<1> QED
  BY <1>1, <1>2, <1>3

LEMMA SeenFillBook ==
    ASSUME LadderShape, EntryFillSeen
    PROVE  leg' = PlanRow /\ Book(exits') /\ ladderFaults' \in 0..MaxLadderFaults
<1>1. PICK levels \in SUBSET Weighted, failing \in SUBSET Calls :
              /\ leg' = PlanRow /\ Fails(failing)
              /\ exits' \subseteq exits \cup StopFor(PlanRow, exits)
                    \cup {[kind |-> k, at |-> PlanTargets[k],
                           lots |-> Split(Lots, Priced(PlanRow))[k]] : k \in levels}
  BY SeenFillPlaces
<1>2. Priced(PlanRow) = Weighted
  BY LadderAssumption DEF LadderAssumption, Priced, PlanRow, Weighted
<1>3. ASSUME NEW k \in levels
      PROVE  [kind |-> k, at |-> PlanTargets[k], lots |-> Split(Lots, Priced(PlanRow))[k]] \in Order
             /\ k # 0
  <2>1. k \in Levels /\ k \in Weighted /\ Weighted \in SUBSET Weighted /\ Lots \in Nat
    BY LadderAssumption DEF LadderAssumption, Weighted
  <2>2. Split(Lots, Weighted)[k] \in 0..Lots
    BY <2>1, SplitBounds
  <2>3. PlanTargets[k] \in Nat /\ k \in 0..3 /\ k # 0
    BY <2>1, LevelsAre, LadderAssumption DEF LadderAssumption
  <2> QED
    BY <1>2, <2>2, <2>3 DEF Order
<1>4. \A o \in StopFor(PlanRow, exits) : o \in Order /\ o.lots = 0
  <2>1. PlanRow.stop \in Nat
    BY PlanRowIsRow DEF Row
  <2> QED
    BY <2>1, StopIsOrder DEF StopFor
<1>5. Book(exits)
  BY DEF LadderShape
<1>6. ASSUME NEW o \in exits'
      PROVE  o \in Order /\ (o.kind = 0 => o.lots = 0)
  BY <1>1, <1>3, <1>4, <1>5, <1>6 DEF Book
<1> QED
  BY <1>1, <1>6, FailsCounted DEF Book

LEMMA ExitFiresShape ==
    ASSUME LadderShape, ExitFires
    PROVE  LadderShape'
<1>1. PICK o \in exits :
        LET n == IF o.kind = 0 \/ o.lots > held THEN held ELSE o.lots IN
        /\ held > 0
        /\ held' = held - n
        /\ exits' \in BookOf(held', exits \ {o})
        /\ sold' = [k \in Levels |-> IF o.kind = k /\ o.at = PlanTargets[k] THEN sold[k] + n
                                     ELSE sold[k]]
        /\ Quiet
        /\ UNCHANGED <<mark, leg, plan, hits, ahead, ladderFaults>>
  BY DEF ExitFires
<1>2. PICK n \in 0..held : n = IF o.kind = 0 \/ o.lots > held THEN held ELSE o.lots
  BY LadderAssumption DEF LadderAssumption, LadderShape, Book, Order
<1>3. held' = held - n /\ held \in 0..Lots /\ held' \in 0..Lots
  BY <1>1, <1>2, LadderAssumption DEF LadderAssumption, LadderShape
<1>4. exits' \subseteq exits
  BY <1>1 DEF BookOf
<1>5. /\ sold \in [Levels -> 0..Lots] /\ held + sold[1] + sold[2] + sold[3] <= Lots
      /\ Lots \in Nat /\ \A k \in {1, 2, 3} : sold[k] \in 0..Lots
  BY LevelsAre, LadderAssumption DEF LadderAssumption, LadderShape
<1>6. \A k \in {1, 2, 3} : sold'[k] = IF o.kind = k /\ o.at = PlanTargets[k] THEN sold[k] + n
                                      ELSE sold[k]
  BY <1>1, <1>2, LevelsAre
<1>7. held' + sold'[1] + sold'[2] + sold'[3] <= Lots
      /\ \A k \in {1, 2, 3} : sold'[k] \in 0..Lots
  BY <1>2, <1>3, <1>5, <1>6
<1>8. sold' \in [Levels -> 0..Lots]
  <2>1. sold' = [k \in Levels |-> sold'[k]]
    BY <1>1
  <2> QED
    BY <1>7, <2>1, LevelsAre
<1>9. plan # "resting"
  BY <1>1 DEF LadderShape
<1>10. Book(exits')
  BY <1>4 DEF LadderShape, Book
<1> QED
  BY <1>1, <1>3, <1>7, <1>8, <1>9, <1>10 DEF LadderShape, Quiet, Book

LEMMA ReconcileShape ==
    ASSUME LadderShape, ReconcileLeg
    PROVE  LadderShape'
<1>1. plan # "resting" /\ UNCHANGED <<mark, held, plan, hits, sold>>
  BY DEF ReconcileLeg
<1>2. CASE held = 0
  <2>1. leg' = NoLeg /\ UNCHANGED <<exits, ahead, ladderFaults>> /\ restored' = FALSE
    BY <1>2 DEF ReconcileLeg, Quiet
  <2>2. leg' \in Row
    BY <2>1 DEF NoLeg, Row
  <2> QED
    BY <1>1, <2>1, <2>2 DEF LadderShape, Book
<1>3. CASE held # 0
  <2>1. PICK row \in IF leg = NoLeg THEN Recovered(exits) ELSE {leg}, failing \in SUBSET Calls :
            /\ leg' = Backfilled(row)
            /\ Fails(failing)
            /\ exits' = Ensured(leg', exits, failing)
            /\ restored' = (failing = {} /\ leg'.linked)
            /\ ahead' = (ahead \/ FilledUnseen)
    BY <1>3 DEF ReconcileLeg
  <2>2. row \in Row
    BY <2>1, RecoveredRow DEF LadderShape
  <2>3. leg' \in Row
    BY <2>1, <2>2, BackfilledRow
  <2>4. Book(exits')
    BY <2>1, <2>3, EnsuredBook DEF LadderShape
  <2>5. ahead' \in BOOLEAN /\ restored' \in BOOLEAN
    BY <2>1, <2>3 DEF LadderShape, Row
  <2>6. ladderFaults' \in 0..MaxLadderFaults
    BY <2>1, FailsCounted
  <2> QED
    BY <1>1, <2>3, <2>4, <2>5, <2>6 DEF LadderShape, Book
<1> QED
  BY <1>2, <1>3

LEMMA LadderShapeStep == LadderShape /\ [LadderNext]_ladderVars => LadderShape'
<1> SUFFICES ASSUME LadderShape, [LadderNext]_ladderVars PROVE LadderShape'
  OBVIOUS
<1>1. CASE EntryFills
  <2>1. plan = "resting" /\ plan' = "open" /\ held' = Lots /\ restored' = FALSE
        /\ UNCHANGED <<mark, exits, leg, hits, sold, ahead, ladderFaults>>
    BY <1>1 DEF EntryFills, Quiet
  <2>2. Lots + sold'[1] + sold'[2] + sold'[3] <= Lots /\ Lots \in 0..Lots
    BY <2>1, LevelsAre, LadderAssumption DEF LadderAssumption, LadderShape
  <2> QED
    BY <2>1, <2>2 DEF LadderShape, Book
<1>2. CASE EntryFillSeen
  <2>1. leg' \in Row /\ Book(exits') /\ ladderFaults' \in 0..MaxLadderFaults
    BY <1>2, SeenFillBook, PlanRowIsRow
  <2>2. plan = "resting" /\ plan' = "open" /\ held' = Lots /\ restored' = FALSE
        /\ UNCHANGED <<mark, hits, sold, ahead>>
    BY <1>2 DEF EntryFillSeen, Quiet
  <2>3. Lots + sold'[1] + sold'[2] + sold'[3] <= Lots /\ Lots \in 0..Lots
    BY <2>2, LevelsAre, LadderAssumption DEF LadderAssumption, LadderShape
  <2> QED
    BY <2>1, <2>2, <2>3 DEF LadderShape, Book
<1>3. CASE ExitFires
  BY <1>3, ExitFiresShape
<1>4. CASE MarkMoves
  BY <1>4 DEF MarkMoves, LadderShape, Book, Quiet
<1>5. CASE TickSees
  BY <1>5 DEF TickSees, LadderShape, Book, Quiet
<1>6. CASE CloseHandled
  <2>1. CASE leg.linked
    <3>1. /\ plan' = "closed" /\ leg' = NoLeg /\ held' = 0 /\ exits' \subseteq exits
          /\ restored' = FALSE /\ UNCHANGED <<mark, hits, sold, ahead, ladderFaults>>
      BY <1>6, <2>1 DEF CloseHandled, BookOf, Quiet
    <3>2. NoLeg \in Row
      BY DEF NoLeg, Row
    <3>3. 0 + sold[1] + sold[2] + sold[3] <= Lots /\ 0 \in 0..Lots
      BY LevelsAre, LadderAssumption DEF LadderAssumption, LadderShape
    <3> QED
      BY <3>1, <3>2, <3>3 DEF LadderShape, Book
  <2>2. CASE ~leg.linked
    BY <1>6, <2>2 DEF CloseHandled, LadderShape, Book, Quiet
  <2> QED
    BY <2>1, <2>2
<1>7. CASE ReconcileLeg
  BY <1>7, ReconcileShape
<1>8. CASE UNCHANGED ladderVars
  BY <1>8 DEF ladderVars, LadderShape, Book
<1> QED
  BY <1>1, <1>2, <1>3, <1>4, <1>5, <1>6, <1>7, <1>8 DEF LadderNext

\* The position, its book and its row keep their types: no order is for more than was
\* bought or for less than nothing, however the shares of the levels were rounded.
THEOREM LadderTypesHold == LadderSpec => []LadderTypeOK
<1>1. LadderShape => LadderTypeOK
  BY LevelsAre DEF LadderShape, LadderTypeOK, Book, Order, Row
<1> QED
  BY <1>1, LadderShapeInit, LadderShapeStep, PTL DEF LadderSpec

-----------------------------------------------------------------------------
(* What a reconciliation leaves behind.                                    *)

\* The targets of the plan, and of an earlier trade's exits, are prices apart.
PricesApart ==
    /\ \A j, k \in Levels : PlanTargets[j] = PlanTargets[k] => j = k
    /\ \A o \in Strays : o.kind # 0 => \A k \in Levels : o.at # PlanTargets[k]
    /\ \A o, p \in Strays : o.kind # 0 /\ p.kind # 0 /\ o.at = p.at => o = p

PricesOf(k) == {PlanTargets[k]} \cup {o.at : o \in {p \in Strays : p.kind = k}}

LEMMA OneLevelPerPrice ==
    ASSUME PricesApart, NEW j \in Levels, NEW k \in Levels, PricesOf(j) \cap PricesOf(k) # {}
    PROVE  j = k
<1>1. j # 0 /\ k # 0
  BY LevelsAre
<1> QED
  BY <1>1 DEF PricesApart, PricesOf

\* No two targets at a price, each at one of its level
TargetsApart(book) ==
    /\ \A o, p \in book : o.kind # 0 /\ p.kind # 0 /\ o.at = p.at => o = p
    /\ \A o \in book : o.kind # 0 => o.kind \in Levels /\ o.at \in PricesOf(o.kind)

RowKnown(row) == \A k \in Levels : row.targets[k] # 0 => row.targets[k] \in PricesOf(k)

LadderInv ==
    /\ LadderShape
    /\ TargetsApart(exits)
    /\ RowKnown(leg)
    /\ ReconcileRestores

LEMMA FewerTargets ==
    ASSUME NEW book, TargetsApart(book), NEW less \in SUBSET book
    PROVE  TargetsApart(less)
BY DEF TargetsApart

LEMMA StraysApart ==
    ASSUME PricesApart
    PROVE  TargetsApart(Strays)
<1>1. \A o \in Strays : o.kind # 0 => o.kind \in Levels
  BY LadderAssumption DEF LadderAssumption, Levels
<1> QED
  BY <1>1 DEF PricesApart, TargetsApart, PricesOf

\* Orders at prices of a known row, where the book has none
LEMMA TargetsAdded ==
    ASSUME PricesApart, NEW book, TargetsApart(book), NEW row, RowKnown(row),
           NEW more,
           \A o \in more : \E k \in Levels :
              /\ o.kind = k /\ o.at = row.targets[k] /\ row.targets[k] # 0
              /\ \A p \in book : p.kind # 0 => p.at # row.targets[k],
           \A o, p \in more : o.kind = p.kind => o = p
    PROVE  TargetsApart(book \cup more)
<1>1. \A o \in more : o.kind \in Levels /\ o.at \in PricesOf(o.kind)
  BY DEF RowKnown
<1>2. ASSUME NEW o \in more, NEW p \in more, o.at = p.at PROVE o = p
  <2>1. o.kind = p.kind
    BY <1>1, <1>2, OneLevelPerPrice
  <2> QED
    BY <2>1
<1>3. ASSUME NEW o \in more, NEW p \in book, p.kind # 0, o.at = p.at PROVE FALSE
  BY <1>3
<1> QED
  BY <1>1, <1>2, <1>3 DEF TargetsApart

\* A stop is no target.
LEMMA StopsAdded ==
    ASSUME NEW book, TargetsApart(book), NEW stops, \A o \in stops : o.kind = 0
    PROVE  TargetsApart(book \cup stops)
BY DEF TargetsApart

LEMMA BackfilledKnown ==
    ASSUME NEW row \in Row, RowKnown(row)
    PROVE  RowKnown(Backfilled(row))
BY BackfilledRow DEF RowKnown, PricesOf

LEMMA RecoveredKnown ==
    ASSUME NEW book, Book(book), TargetsApart(book), NEW row \in Recovered(book)
    PROVE  RowKnown(row)
<1> SUFFICES ASSUME NEW k \in Levels, row.targets[k] # 0 PROVE row.targets[k] \in PricesOf(k)
  BY DEF RowKnown
<1>1. PICK o \in book : o.kind = k /\ o.at = row.targets[k]
  BY RecoveredRow
<1>2. k # 0
  BY LevelsAre
<1> QED
  BY <1>1, <1>2 DEF TargetsApart

LEMMA StopShape ==
    ASSUME NEW book, Book(book), NEW o \in book, o.kind = 0
    PROVE  o = Stop(o.at)
<1>1. o \in [kind : 0..3, at : Nat, lots : 0..Lots] /\ o.lots = 0
  BY DEF Book, Order
<1> QED
  BY <1>1 DEF Stop

LEMMA EnsuredApart ==
    ASSUME PricesApart, LadderShape, NEW row \in Row, RowKnown(row), NEW book, Book(book),
           TargetsApart(book), NEW failing
    PROVE  TargetsApart(Ensured(row, book, failing))
<1>1. PICK tidy : tidy = IF "tidy" \in failing THEN book ELSE Tidied(row, book)
  OBVIOUS
<1>2. tidy \subseteq book
  BY <1>1 DEF Tidied
<1>3. PICK stops, more : /\ stops = IF "stop" \in failing THEN {} ELSE StopFor(row, tidy)
                         /\ more = IF "targets" \in failing THEN {} ELSE TargetsFor(row, tidy)
  OBVIOUS
<1>4. Ensured(row, book, failing) = (tidy \cup more) \cup stops
  BY <1>1, <1>3 DEF Ensured
<1>5. TargetsApart(tidy)
  BY <1>2, FewerTargets
<1>6. \A o \in more : \E k \in Levels :
              /\ o.kind = k /\ o.at = row.targets[k] /\ row.targets[k] # 0
              /\ \A p \in tidy : p.kind # 0 => p.at # row.targets[k]
  BY <1>3, NewTarget, ExpectedLevels
<1>7. ASSUME NEW o \in more, NEW p \in more, o.kind = p.kind PROVE o = p
  <2>1. o \in TargetsFor(row, tidy) /\ p \in TargetsFor(row, tidy)
    BY <1>3
  <2>2. PICK s : s = Split(held, Expected(row, held))
    OBVIOUS
  <2>3. PICK j : o = [kind |-> j, at |-> row.targets[j], lots |-> s[j]]
    BY <2>1, <2>2, NewTarget
  <2>4. PICK k : p = [kind |-> k, at |-> row.targets[k], lots |-> s[k]]
    BY <2>1, <2>2, NewTarget
  <2> QED
    BY <1>7, <2>3, <2>4
<1>8. TargetsApart(tidy \cup more)
  BY <1>5, <1>6, <1>7, TargetsAdded
<1>9. \A o \in stops : o.kind = 0
  <2>1. Stop(row.stop).kind = 0
    BY DEF Stop
  <2> QED
    BY <1>3, <2>1 DEF StopFor
<1> QED
  BY <1>4, <1>8, <1>9, StopsAdded

\* ReconcileRestores of a row and a book
RestoredTo(row, book) ==
    /\ Stops(book) = {o \in {Stop(row.stop)} : Placeable(o) \/ o \in book}
    /\ \A o \in book \ Stops(book) :
          \E k \in Levels : o.at = row.targets[k] /\ \A j \in hits : k > j
    /\ \A k \in Expected(row, held) :
          mark < row.targets[k] =>
              Cardinality({o \in book : o.kind # 0 /\ o.at = row.targets[k]}) = 1

LEMMA RestoresReads ==
    ASSUME UNCHANGED <<mark, held, hits>>, restored' => RestoredTo(leg', exits')
    PROVE  ReconcileRestores'
<1> SUFFICES ASSUME restored' PROVE RestoredTo(leg, exits)'
  BY DEF ReconcileRestores, RestoredTo
<1>1. OpenLevels(leg)' = OpenLevels(leg')
  BY DEF OpenLevels, Priced
<1>2. Expected(leg, held)' = Expected(leg', held)
  BY <1>1 DEF Expected
<1> QED
  BY <1>2 DEF RestoredTo, Placeable, Stops

LEMMA EnsuredStops ==
    ASSUME LadderShape, NEW row \in Row, row.linked, NEW book, Book(book),
           NEW after, after = Ensured(row, book, {})
    PROVE  Stops(after) = {o \in {Stop(row.stop)} : Placeable(o) \/ o \in after}
<1>1. PICK tidy : tidy = Tidied(row, book)
  OBVIOUS
<1>2. after = tidy \cup StopFor(row, tidy) \cup TargetsFor(row, tidy)
  BY <1>1 DEF Ensured
<1>3. PICK stop : stop = Stop(row.stop)
  OBVIOUS
<1>4. stop.kind = 0
  BY <1>3 DEF Stop
<1>5. \A o \in TargetsFor(row, tidy) : o.kind # 0
  BY NewTarget, LevelsAre
<1>6. \A o \in tidy : o.kind = 0 => o = stop
  BY <1>1, <1>3, StopShape DEF Tidied
<1>7. \A o \in StopFor(row, tidy) : o = stop
  BY <1>3 DEF StopFor
<1>8. \A o \in Stops(after) : o = stop
  BY <1>2, <1>5, <1>6, <1>7 DEF Stops
<1>9. stop \in after <=> stop \in Stops(after)
  BY <1>4 DEF Stops
<1>10. Placeable(stop) => stop \in after
  <2>1. CASE Stops(tidy) = {}
    BY <1>2, <1>3, <2>1 DEF StopFor
  <2>2. CASE Stops(tidy) # {}
    BY <1>2, <1>6, <2>2 DEF Stops
  <2> QED
    BY <2>1, <2>2
<1> QED
  BY <1>3, <1>8, <1>9, <1>10

LEMMA EnsuredRestores ==
    ASSUME PricesApart, LadderShape, NEW row \in Row, row.linked, RowKnown(row),
           NEW book, Book(book), TargetsApart(book)
    PROVE  RestoredTo(row, Ensured(row, book, {}))
<1>1. PICK tidy, after : tidy = Tidied(row, book) /\ after = Ensured(row, book, {})
  OBVIOUS
<1>2. after = tidy \cup StopFor(row, tidy) \cup TargetsFor(row, tidy)
  BY <1>1 DEF Ensured
<1>3. PICK levels : levels = Expected(row, held)
  OBVIOUS
<1>4. /\ levels \in SUBSET Levels
      /\ \A k \in levels : row.targets[k] # 0 /\ \A j \in hits : k > j
  BY <1>3, ExpectedLevels DEF Weighted
<1>5. Stops(after) = {o \in {Stop(row.stop)} : Placeable(o) \/ o \in after}
  BY <1>1, EnsuredStops
<1>6. tidy \subseteq book /\ \A o \in tidy : o.kind # 0 => \E k \in levels : o.at = row.targets[k]
  BY <1>1, <1>3 DEF Tidied
<1>7. \A o \in StopFor(row, tidy) : o.kind = 0
  <2>1. Stop(row.stop).kind = 0
    BY DEF Stop
  <2> QED
    BY <2>1 DEF StopFor
<1>8. \A o \in after \ Stops(after) : \E k \in Levels : o.at = row.targets[k] /\ \A j \in hits : k > j
  <2> SUFFICES ASSUME NEW o \in after, o.kind # 0
               PROVE  \E k \in levels : o.at = row.targets[k]
    BY <1>4 DEF Stops
  <2>1. CASE o \in tidy
    BY <1>6, <2>1
  <2>2. CASE o \in TargetsFor(row, tidy)
    BY <1>3, <2>2, NewTarget
  <2> QED
    BY <1>2, <1>7, <2>1, <2>2
<1>9. TargetsApart(after)
  BY <1>1, EnsuredApart
<1>10. ASSUME NEW k \in levels, mark < row.targets[k]
       PROVE  Cardinality({o \in after : o.kind # 0 /\ o.at = row.targets[k]}) = 1
  <2>1. k \in Levels /\ row.targets[k] # 0 /\ k # 0
    BY <1>4, LevelsAre
  <2>2. \E o \in after : o.kind # 0 /\ o.at = row.targets[k]
    <3>1. CASE \E p \in tidy : p.kind # 0 /\ p.at = row.targets[k]
      BY <1>2, <3>1
    <3>2. CASE \E p \in tidy : p.kind = k
      <4>1. PICK p \in tidy : p.kind = k
        BY <3>2
      <4>2. PICK j \in levels : p.at = row.targets[j]
        BY <1>6, <2>1, <4>1
      <4>3. p.at \in PricesOf(k)
        BY <1>6, <2>1, <4>1 DEF TargetsApart
      <4>4. p.at \in PricesOf(j) /\ j \in Levels
        BY <1>4, <4>2 DEF RowKnown
      <4>5. j = k
        BY <2>1, <4>3, <4>4, OneLevelPerPrice
      <4> QED
        BY <1>2, <2>1, <4>1, <4>2, <4>5
    <3>3. CASE \A p \in tidy : p.kind # k /\ (p.kind # 0 => p.at # row.targets[k])
      <4> DEFINE new == [kind |-> k, at |-> row.targets[k], lots |-> Split(held, levels)[k]]
      <4>1. new.kind = k /\ new.at = row.targets[k]
        OBVIOUS
      <4>2. Placeable(new)
        BY <1>10, <2>1 DEF Placeable
      <4>3. new \in TargetsFor(row, tidy)
        BY <1>3, <3>3, <4>2 DEF TargetsFor
      <4> QED
        BY <1>2, <2>1, <4>1, <4>3
    <3> QED
      BY <3>1, <3>2, <3>3
  <2>3. PICK o \in after : o.kind # 0 /\ o.at = row.targets[k]
    BY <2>2
  <2>4. {p \in after : p.kind # 0 /\ p.at = row.targets[k]} = {o}
    BY <1>9, <2>3 DEF TargetsApart
  <2> QED
    BY <2>4, FS_Singleton
<1> QED
  BY <1>1, <1>3, <1>5, <1>8, <1>10 DEF RestoredTo

LEMMA LadderInvInit ==
    ASSUME PricesApart, LadderInit
    PROVE  LadderInv
<1>1. TargetsApart(exits)
  BY StraysApart, FewerTargets DEF LadderInit
<1>2. RowKnown(leg)
  BY DEF LadderInit, NoLeg, RowKnown
<1>3. ReconcileRestores
  BY DEF LadderInit, ReconcileRestores
<1> QED
  BY <1>1, <1>2, <1>3, LadderShapeInit DEF LadderInv

LEMMA LadderInvStep ==
    ASSUME PricesApart, LadderInv, [LadderNext]_ladderVars
    PROVE  LadderInv'
<1>1. LadderShape /\ LadderShape' /\ TargetsApart(exits) /\ RowKnown(leg)
  BY LadderShapeStep DEF LadderInv
<1>2. ASSUME exits' \subseteq exits, leg' = leg \/ leg' = NoLeg, restored' = FALSE
      PROVE  LadderInv'
  <2>1. RowKnown(leg')
    BY <1>1, <1>2 DEF RowKnown, NoLeg
  <2> QED
    BY <1>1, <1>2, <2>1, FewerTargets DEF LadderInv, ReconcileRestores, RowKnown, TargetsApart
<1>3. CASE EntryFills \/ MarkMoves \/ TickSees \/ ExitFires \/ CloseHandled
  <2>1. exits' \subseteq exits /\ (leg' = leg \/ leg' = NoLeg) /\ restored' = FALSE
    BY <1>3 DEF EntryFills, MarkMoves, TickSees, ExitFires, CloseHandled, Quiet, BookOf
  <2> QED
    BY <1>2, <2>1
<1>4. CASE EntryFillSeen
  <2>1. PICK levels \in SUBSET Weighted, failing \in SUBSET Calls :
              /\ leg' = PlanRow /\ Fails(failing)
              /\ exits' \subseteq exits \cup StopFor(PlanRow, exits)
                    \cup {[kind |-> k, at |-> PlanTargets[k],
                           lots |-> Split(Lots, Priced(PlanRow))[k]] : k \in levels}
    BY <1>4, SeenFillPlaces
  <2>2. exits \subseteq Strays /\ restored' = FALSE
    BY <1>1, <1>4 DEF EntryFillSeen, LadderShape, Quiet
  <2>3. RowKnown(PlanRow)
    BY DEF RowKnown, PlanRow, PricesOf
  <2>4. PICK s : s = Split(Lots, Priced(PlanRow))
    OBVIOUS
  <2> DEFINE more == {[kind |-> k, at |-> PlanTargets[k], lots |-> s[k]] : k \in levels}
  <2>5. \A o \in more : \E k \in Levels :
           /\ o.kind = k /\ o.at = PlanRow.targets[k] /\ PlanRow.targets[k] # 0
           /\ \A p \in exits : p.kind # 0 => p.at # PlanRow.targets[k]
    BY <2>2, LadderAssumption DEF LadderAssumption, PlanRow, PricesApart, Weighted
  <2>6. \A o, p \in more : o.kind = p.kind => o = p
    OBVIOUS
  <2>7. exits' \subseteq (exits \cup more) \cup StopFor(PlanRow, exits)
    BY <2>1, <2>4
  <2> HIDE DEF more
  <2>8. TargetsApart(exits \cup more)
    BY <1>1, <2>3, <2>5, <2>6, TargetsAdded
  <2>9. \A o \in StopFor(PlanRow, exits) : o.kind = 0
    BY DEF StopFor, Stop
  <2>10. TargetsApart((exits \cup more) \cup StopFor(PlanRow, exits))
    BY <2>8, <2>9, StopsAdded
  <2>11. TargetsApart(exits')
    BY <2>7, <2>10, FewerTargets
  <2> QED
    BY <1>1, <2>1, <2>2, <2>3, <2>11 DEF LadderInv, ReconcileRestores, TargetsApart, RowKnown
<1>5. CASE ReconcileLeg
  <2>1. UNCHANGED <<mark, held, hits>>
    BY <1>5 DEF ReconcileLeg
  <2>2. CASE held = 0
    <3>1. exits' = exits /\ leg' = NoLeg /\ restored' = FALSE
      BY <1>5, <2>2 DEF ReconcileLeg, Quiet
    <3> QED
      BY <1>2, <3>1
  <2>3. CASE held # 0
    <3>1. PICK row \in IF leg = NoLeg THEN Recovered(exits) ELSE {leg}, failing \in SUBSET Calls :
            /\ leg' = Backfilled(row)
            /\ exits' = Ensured(leg', exits, failing)
            /\ restored' = (failing = {} /\ leg'.linked)
      BY <1>5, <2>3 DEF ReconcileLeg
    <3>2. row \in Row /\ RowKnown(row) /\ Book(exits)
      BY <1>1, <3>1, RecoveredRow, RecoveredKnown DEF LadderShape
    <3>3. PICK made : made = leg'
      OBVIOUS
    <3>4. made \in Row /\ RowKnown(made)
      BY <3>1, <3>2, <3>3, BackfilledRow, BackfilledKnown
    <3>5. TargetsApart(Ensured(made, exits, failing))
      BY <1>1, <3>2, <3>4, EnsuredApart
    <3>6. restored' => RestoredTo(made, Ensured(made, exits, {}))
      BY <1>1, <3>1, <3>2, <3>3, <3>4, EnsuredRestores
    <3>7. restored' => RestoredTo(leg', exits')
      BY <3>1, <3>3, <3>6
    <3>8. ReconcileRestores'
      BY <2>1, <3>7, RestoresReads
    <3> QED
      BY <1>1, <3>1, <3>3, <3>4, <3>5, <3>8 DEF LadderInv, TargetsApart, RowKnown
  <2> QED
    BY <2>2, <2>3
<1>6. CASE UNCHANGED ladderVars
  BY <1>6 DEF ladderVars, LadderInv, LadderShape, TargetsApart, RowKnown, ReconcileRestores, Book,
     Stops, Placeable, Expected, OpenLevels, Priced
<1> QED
  BY <1>3, <1>4, <1>5, <1>6 DEF LadderNext

\* Whatever the market, earlier failures and an earlier trade left on the book: a
\* reconciliation without a failed call leaves one stop, at the price of the row, and
\* one target at each level that is ahead and gets a lot (reconcile_symbol,
\* ensure_protection).  An earlier exit at the very price of a target would be taken
\* for it, which is excluded.
THEOREM ReconciliationRestores ==
    ASSUME PricesApart
    PROVE  LadderSpec => []ReconcileRestores
<1>1. LadderInv => ReconcileRestores
  BY DEF LadderInv
<1>2. LadderInit => LadderInv
  BY LadderInvInit
<1>3. LadderInv /\ [LadderNext]_ladderVars => LadderInv'
  BY LadderInvStep
<1> QED
  BY <1>1, <1>2, <1>3, PTL DEF LadderSpec

-----------------------------------------------------------------------------
(* What the targets sell.  No more than their shares, where the rounding of *)
(* the shares allows it: a reconciliation splits anew what is left, and the *)
(* second level may then get what the first split gave to the third.        *)

Share == Split(Lots, Levels)

\* What a reconciliation gives to a level: it splits the position once to see which
\* levels get anything, and once more over those that do.
Gets(lots, levels, k) ==
    LET some == {j \in levels : Split(lots, levels)[j] > 0}
    IN IF k \in some THEN Split(lots, some)[k] ELSE 0

\* However much is left, splitting it anew gives the two nearest levels no more than
\* their shares; and once the nearest is reached, it gives the second no more than what
\* is left of both, whether the nearest never had an order or was alone with one.
SharesFit ==
    /\ \A k \in Levels : Weights[k] > 0
    /\ \A lots \in 0..Lots : \A k \in {1, 2} : Gets(lots, Levels, k) <= Share[k]
    /\ \A lots \in 0..Lots : Gets(lots, {2, 3}, 2) <= Share[1] + Share[2]
    /\ \A lots \in 0..Lots : Gets(lots, Levels, 2) = 0 =>
          \A done \in 0..Share[1], rest \in Nat : done + rest <= lots =>
             done + Gets(rest, {2, 3}, 2) <= Share[1] + Share[2]

\* The targets of the plan, nearest first
TargetsAscend == PlanTargets[1] < PlanTargets[2]

PlanOrder(o, k) == o.kind = k /\ o.at = PlanTargets[k]

\* What the order of a level, if it has one, would sell
ToSell(book, k) == {0} \cup {o.lots : o \in {p \in book : PlanOrder(p, k)}}

Kept(done, book, seen) ==
    /\ \A x \in ToSell(book, 1) : done[1] + x <= Share[1]
    /\ seen = {} => \A y \in ToSell(book, 2) : done[2] + y <= Share[2]
    /\ \A x \in ToSell(book, 1), y \in ToSell(book, 2) :
          done[1] + x + done[2] + y <= Share[1] + Share[2]

\* The second level has no order, and a reconciliation may place one.
SecondIsOpen(done, book, seen, row) ==
    /\ seen \subseteq {1}
    /\ done[2] = 0
    /\ \A o \in book : ~PlanOrder(o, 2)
    /\ row.linked => row.targets[2] = PlanTargets[2]

\* What it may then be for
NextFits(lots, done, book, seen, row) ==
    lots > 0 /\ SecondIsOpen(done, book, seen, row) =>
        \A x \in ToSell(book, 1), n, rest \in Nat :
            n <= x /\ n + rest <= lots =>
                done[1] + n + Gets(rest, {2, 3}, 2) <= Share[1] + Share[2]

SharesKept ==
    \/ ahead \/ ladderFaults > 0
    \/ Kept(sold, exits, hits) /\ NextFits(held, sold, exits, hits, leg)

\* Orders of the plan belong to a row of the signal, which has all its targets.
PlanNeedsRow == held > 0 /\ (\E o \in exits : \E k \in Levels : PlanOrder(o, k)) => leg.linked

SecondSells(book) == \A o \in book : PlanOrder(o, 2) => o.lots > 0

RowComplete(row) ==
    \A k \in Levels : IF row.linked THEN row.targets[k] # 0 ELSE row.targets[k] # PlanTargets[k]

SellInv ==
    /\ LadderInv
    /\ PlanNeedsRow
    /\ RowComplete(leg)
    /\ SecondSells(exits)
    /\ SharesKept

LEMMA TwoSum ==
    ASSUME NEW f, NEW a, NEW b, a # b, f[a] \in Int, f[b] \in Int
    PROVE  /\ SumFunctionOnSet(f, {a}) = f[a] /\ SumFunctionOnSet(f, {a, b}) = f[a] + f[b]
           /\ IsFiniteSet({a, b})
<1>1. IsFiniteSet({}) /\ a \notin {} /\ \A y \in {} : f[y] \in Int
  BY FS_EmptySet
<1>2. SumFunctionOnSet(f, {} \cup {a}) = f[a] + SumFunctionOnSet(f, {})
  BY <1>1, SumWithout
<1>3. {} \cup {a} = {a} /\ {a} \cup {b} = {a, b} /\ b \notin {a} /\ \A y \in {a} : f[y] \in Int
  OBVIOUS
<1>4. SumFunctionOnSet(f, {a}) = f[a]
  BY <1>2, <1>3, SumEmpty
<1>5. IsFiniteSet({a})
  BY FS_Singleton
<1>6. IsFiniteSet({a} \cup {b})
  BY <1>5, FS_AddElement
<1>7. SumFunctionOnSet(f, {a} \cup {b}) = f[b] + SumFunctionOnSet(f, {a})
  BY <1>3, <1>5, SumWithout
<1>8. SumFunctionOnSet(f, {a, b}) = f[b] + f[a]
  BY <1>3, <1>4, <1>7
<1> QED
  BY <1>3, <1>4, <1>6, <1>8

LEMMA OneSum ==
    ASSUME NEW f, NEW a, f[a] \in Int
    PROVE  SumFunctionOnSet(f, {a}) = f[a]
<1>1. IsFiniteSet({}) /\ a \notin {} /\ \A y \in {} : f[y] \in Int
  BY FS_EmptySet
<1>2. SumFunctionOnSet(f, {} \cup {a}) = f[a] + SumFunctionOnSet(f, {})
  BY <1>1, SumWithout
<1>3. {} \cup {a} = {a}
  OBVIOUS
<1> QED
  BY <1>2, <1>3, SumEmpty

LEMMA LevelSums ==
    ASSUME NEW f, f[1] \in Int, f[2] \in Int, f[3] \in Int
    PROVE  /\ SumFunctionOnSet(f, {1}) = f[1] /\ SumFunctionOnSet(f, {2}) = f[2]
           /\ SumFunctionOnSet(f, {3}) = f[3]
           /\ SumFunctionOnSet(f, {1, 2}) = f[1] + f[2]
           /\ SumFunctionOnSet(f, {1, 3}) = f[1] + f[3]
           /\ SumFunctionOnSet(f, {2, 3}) = f[2] + f[3]
           /\ SumFunctionOnSet(f, {1, 2, 3}) = f[1] + f[2] + f[3]
<1>1. 1 # 2 /\ 1 # 3 /\ 2 # 3 /\ 3 # 1
  OBVIOUS
<1>2. /\ SumFunctionOnSet(f, {1}) = f[1] /\ SumFunctionOnSet(f, {1, 2}) = f[1] + f[2]
      /\ IsFiniteSet({1, 2})
  BY <1>1, TwoSum
<1>3. SumFunctionOnSet(f, {1, 3}) = f[1] + f[3]
  BY <1>1, TwoSum
<1>4. SumFunctionOnSet(f, {2}) = f[2] /\ SumFunctionOnSet(f, {2, 3}) = f[2] + f[3]
  BY <1>1, TwoSum
<1>5. SumFunctionOnSet(f, {3}) = f[3]
  BY <1>1, TwoSum
<1>6. 3 \notin {1, 2} /\ {1, 2} \cup {3} = {1, 2, 3} /\ \A y \in {1, 2} : f[y] \in Int
  OBVIOUS
<1>7. SumFunctionOnSet(f, {1, 2} \cup {3}) = f[3] + SumFunctionOnSet(f, {1, 2})
  BY <1>2, <1>6, SumWithout
<1>8. SumFunctionOnSet(f, {1, 2, 3}) = f[1] + f[2] + f[3]
  <2>1. SumFunctionOnSet(f, {1, 2, 3}) = SumFunctionOnSet(f, {1, 2} \cup {3})
    BY <1>6
  <2>2. PICK s, t \in Int : s = SumFunctionOnSet(f, {1, 2}) /\ t = f[3]
    BY <1>2
  <2>3. SumFunctionOnSet(f, {1, 2, 3}) = t + s
    BY <1>7, <2>1, <2>2
  <2>4. s = f[1] + f[2]
    BY <1>2, <2>2
  <2> QED
    BY <2>2, <2>3, <2>4
<1> QED
  BY <1>2, <1>3, <1>4, <1>5, <1>8

\* The split over each set of levels that may be open
LEMMA SplitsAre ==
    ASSUME NEW lots \in Nat, \A k \in Levels : Weights[k] > 0
    PROVE  /\ Split(lots, {3})[3] = lots
           /\ LET one == (lots * Weights[1]) \div (Weights[1] + Weights[3]) IN
              Split(lots, {1, 3})[1] = one /\ Split(lots, {1, 3})[3] = lots - one
           /\ LET two == (lots * Weights[2]) \div (Weights[2] + Weights[3]) IN
              Split(lots, {2, 3})[2] = two /\ Split(lots, {2, 3})[3] = lots - two
           /\ LET all == Weights[1] + Weights[2] + Weights[3]
                  one == (lots * Weights[1]) \div all
                  two == (lots * Weights[2]) \div all IN
              /\ Split(lots, Levels)[1] = one /\ Split(lots, Levels)[2] = two
              /\ Split(lots, Levels)[3] = lots - (one + two)
<1>1. Weights[1] \in Nat \ {0} /\ Weights[2] \in Nat \ {0} /\ Weights[3] \in Nat \ {0}
  BY LevelsAre, LadderAssumption DEF LadderAssumption
<1>2. /\ Weight({3}) = Weights[3] /\ Weight({1, 3}) = Weights[1] + Weights[3]
      /\ Weight({2, 3}) = Weights[2] + Weights[3]
      /\ Weight({1, 2, 3}) = Weights[1] + Weights[2] + Weights[3]
  <2>1. Weights[1] \in Int /\ Weights[2] \in Int /\ Weights[3] \in Int
    BY <1>1
  <2> QED
    BY <2>1, LevelSums DEF Weight
<1>3. Max({3}) = 3 /\ Max({1, 3}) = 3 /\ Max({2, 3}) = 3 /\ Max({1, 2, 3}) = 3
  <2>1. \A s \in SUBSET Levels : 3 \in s => Max(s) = 3
    <3> SUFFICES ASSUME NEW s \in SUBSET Levels, 3 \in s PROVE Max(s) = 3
      OBVIOUS
    <3>1. PICK m : m = Max(s)
      OBVIOUS
    <3>2. m \in s /\ 3 <= m
      BY <3>1, LevelSets
    <3>3. m \in {1, 2, 3}
      BY <3>2, LevelsAre
    <3> QED
      BY <3>1, <3>2, <3>3
  <2> QED
    BY <2>1, LevelsAre
<1>4. ASSUME NEW levels \in SUBSET Levels, 3 \in levels, Max(levels) = 3
      PROVE  Split(lots, levels)
               = [k \in levels |-> IF k # 3 THEN (lots * Weights[k]) \div Weight(levels)
                                  ELSE lots - SumFunctionOnSet(Down(lots, levels), levels \ {3})]
  BY <1>4 DEF Split, Down
<1>5. \A levels : \A k \in levels : Down(lots, levels)[k] = (lots * Weights[k]) \div Weight(levels)
  BY DEF Down
<1>6. Split(lots, {3})[3] = lots
  <2>1. {3} \ {3} = {} /\ {3} \in SUBSET Levels
    BY LevelsAre
  <2>2. lots - SumFunctionOnSet(Down(lots, {3}), {}) = lots
    BY SumEmpty
  <2> QED
    BY <1>3, <1>4, <2>1, <2>2
<1>7. ASSUME NEW a \in {1, 2}
      PROVE  LET part == (lots * Weights[a]) \div (Weights[a] + Weights[3]) IN
             Split(lots, {a, 3})[a] = part /\ Split(lots, {a, 3})[3] = lots - part
  <2> DEFINE part == (lots * Weights[a]) \div (Weights[a] + Weights[3])
  <2>1. {a, 3} \ {3} = {a} /\ {a, 3} \in SUBSET Levels /\ Max({a, 3}) = 3
        /\ Weight({a, 3}) = Weights[a] + Weights[3]
    BY <1>2, <1>3, LevelsAre
  <2>2. Down(lots, {a, 3})[a] = part
    BY <1>5, <2>1
  <2>3. SumFunctionOnSet(Down(lots, {a, 3}), {a}) = Down(lots, {a, 3})[a]
    <3>1. Weights[a] \in Nat /\ Weights[3] \in Nat \ {0} /\ Weights[a] + Weights[3] \in Nat \ {0}
          /\ Weights[a] <= Weights[a] + Weights[3]
      BY <1>1
    <3>2. part \in 0..lots
      BY <3>1, DownShare
    <3>3. part \in Int
      BY <3>2
    <3> HIDE DEF part
    <3>4. Down(lots, {a, 3})[a] \in Int
      BY <2>2, <3>3
    <3> QED
      BY <3>4, OneSum
  <2>4. Split(lots, {a, 3})
          = [k \in {a, 3} |-> IF k # 3 THEN (lots * Weights[k]) \div Weight({a, 3})
                             ELSE lots - SumFunctionOnSet(Down(lots, {a, 3}), {a, 3} \ {3})]
    BY <1>4, <2>1
  <2> QED
    BY <2>1, <2>2, <2>3, <2>4
<1>8. LET all == Weights[1] + Weights[2] + Weights[3]
          one == (lots * Weights[1]) \div all
          two == (lots * Weights[2]) \div all IN
      /\ Split(lots, Levels)[1] = one /\ Split(lots, Levels)[2] = two
      /\ Split(lots, Levels)[3] = lots - (one + two)
  <2> DEFINE all == Weights[1] + Weights[2] + Weights[3]
             one == (lots * Weights[1]) \div all
             two == (lots * Weights[2]) \div all
             down == Down(lots, Levels)
  <2>1. Levels \ {3} = {1, 2} /\ Max(Levels) = 3 /\ Weight(Levels) = all
    BY <1>2, <1>3, LevelsAre
  <2>2. down[1] = one /\ down[2] = two
    BY <1>5, <2>1, LevelsAre
  <2>3. one \in Int /\ two \in Int
    <3>1. all \in Nat \ {0} /\ Weights[1] <= all /\ Weights[2] <= all
      BY <1>1
    <3>2. Weights[1] \in Nat /\ Weights[2] \in Nat
      BY <1>1
    <3> HIDE DEF all
    <3>3. one \in 0..lots /\ two \in 0..lots
      BY <3>1, <3>2, DownShare
    <3> QED
      BY <3>3
  <2>4. SumFunctionOnSet(down, {1, 2}) = one + two
    <3> HIDE DEF down, one, two
    <3>2. down[1] \in Int /\ down[2] \in Int /\ 1 # 2
      BY <2>2, <2>3
    <3>3. SumFunctionOnSet(down, {1, 2}) = down[1] + down[2]
      BY <3>2, TwoSum
    <3> QED
      BY <2>2, <3>3
  <2>5. Split(lots, Levels)
          = [k \in Levels |-> IF k # 3 THEN (lots * Weights[k]) \div Weight(Levels)
                             ELSE lots - SumFunctionOnSet(down, Levels \ {3})]
    BY <1>4, <2>1, LevelsAre
  <2> QED
    BY <2>1, <2>4, <2>5, LevelsAre
<1> QED
  BY <1>6, <1>7, <1>8

LEMMA QuotientGrows ==
    ASSUME NEW a \in Nat, NEW b \in Nat, a <= b, NEW m \in Nat, NEW n \in Nat \ {0}, n <= m
    PROVE  a \div m <= b \div n
<1>1. PICK q \in Nat : q = a \div m /\ m * q <= a
  <2>1. a \div m \in Nat /\ m * (a \div m) <= a
    OBVIOUS
  <2> QED
    BY <2>1
<1>2. PICK r \in Nat : r = b \div n /\ b < n * r + n
  <2>1. b \div n \in Nat /\ b < n * (b \div n) + n
    OBVIOUS
  <2> QED
    BY <2>1
<1> SUFFICES ASSUME q >= r + 1 PROVE FALSE
  BY <1>1, <1>2
<1>3. PICK x \in Nat : q = r + 1 + x
  <2>1. q - (r + 1) \in Nat /\ q = r + 1 + (q - (r + 1))
    OBVIOUS
  <2> QED
    BY <2>1
<1>4. PICK e \in Nat : m = n + e
  <2>1. m - n \in Nat /\ m = n + (m - n)
    OBVIOUS
  <2> QED
    BY <2>1
<1>5. m * q = n * q + e * q /\ e * q \in Nat
  BY <1>4
<1>6. n * q = n * r + n + n * x /\ n * x \in Nat
  BY <1>3
<1>7. n * q \in Nat /\ n * r \in Nat /\ n * q <= m * q
  BY <1>5
<1> QED
  BY <1>1, <1>2, <1>6, <1>7

\* The last level always gets something.
LEMMA LastGets ==
    ASSUME NEW lots \in Nat \ {0}, NEW w \in Nat, NEW v \in Nat, NEW rest \in Nat \ {0},
           NEW total \in Nat, total = w + v + rest
    PROVE  (lots * w) \div total + (lots * v) \div total < lots
<1>1. total \in Nat \ {0} /\ w <= total /\ v <= total
  OBVIOUS
<1>2. PICK q, r \in Nat : /\ q = (lots * w) \div total /\ r = (lots * v) \div total
                          /\ total * q <= lots * w /\ total * r <= lots * v
  <2>1. /\ (lots * w) \div total \in 0..lots /\ total * ((lots * w) \div total) <= lots * w
        /\ (lots * v) \div total \in 0..lots /\ total * ((lots * v) \div total) <= lots * v
    BY <1>1, DownShare
  <2> QED
    BY <2>1
<1> SUFFICES ASSUME q + r >= lots PROVE FALSE
  BY <1>2
<1>3. PICK x \in Nat : q + r = lots + x
  <2>1. (q + r) - lots \in Nat /\ q + r = lots + ((q + r) - lots)
    OBVIOUS
  <2> QED
    BY <2>1
<1>4. total * q + total * r = total * (q + r)
  OBVIOUS
<1>5. total * (lots + x) = total * lots + total * x /\ total * x \in Nat
  OBVIOUS
<1>6. total * lots = lots * w + lots * v + lots * rest
  OBVIOUS
<1>7. lots * rest \in Nat \ {0} /\ lots * w \in Nat /\ lots * v \in Nat
  OBVIOUS
<1>8. total * q \in Nat /\ total * r \in Nat /\ total * lots \in Nat
  OBVIOUS
<1> QED
  BY <1>2, <1>3, <1>4, <1>5, <1>6, <1>7, <1>8

\* What the two nearest levels get
LEMMA GetsAre ==
    ASSUME NEW lots \in Nat, \A k \in Levels : Weights[k] > 0
    PROVE  LET all == Weights[1] + Weights[2] + Weights[3]
               one == (lots * Weights[1]) \div all
               two == (lots * Weights[2]) \div all IN
           /\ one \in Nat /\ two \in Nat
           /\ Gets(lots, {2, 3}, 2) = (lots * Weights[2]) \div (Weights[2] + Weights[3])
           /\ Gets(lots, Levels, 1) = IF one = 0 THEN 0 ELSE
                 IF two = 0 THEN (lots * Weights[1]) \div (Weights[1] + Weights[3]) ELSE one
           /\ Gets(lots, Levels, 2) = IF two = 0 THEN 0 ELSE
                 IF one = 0 THEN (lots * Weights[2]) \div (Weights[2] + Weights[3]) ELSE two
<1>1. PICK w1, w2, w3 \in Nat \ {0} : w1 = Weights[1] /\ w2 = Weights[2] /\ w3 = Weights[3]
  BY LevelsAre, LadderAssumption DEF LadderAssumption
<1>2. PICK all \in Nat \ {0} : all = w1 + w2 + w3
  OBVIOUS
<1>3. PICK one, two \in Nat : one = (lots * w1) \div all /\ two = (lots * w2) \div all
  <2>1. w1 <= all /\ w2 <= all
    BY <1>2
  <2>2. (lots * w1) \div all \in 0..lots /\ (lots * w2) \div all \in 0..lots
    BY <2>1, DownShare
  <2> QED
    BY <2>2
<1>4. PICK part \in Nat : part = (lots * w2) \div (w2 + w3)
  <2>1. w2 <= w2 + w3 /\ w2 + w3 \in Nat \ {0} /\ w2 \in Nat
    OBVIOUS
  <2>2. (lots * w2) \div (w2 + w3) \in 0..lots
    BY <2>1, DownShare
  <2> QED
    BY <2>2
<1>5. PICK near \in Nat : near = (lots * w1) \div (w1 + w3)
  <2>1. w1 <= w1 + w3 /\ w1 + w3 \in Nat \ {0} /\ w1 \in Nat
    OBVIOUS
  <2>2. (lots * w1) \div (w1 + w3) \in 0..lots
    BY <2>1, DownShare
  <2> QED
    BY <2>2
<1>6. /\ Split(lots, {1, 3})[1] = near
      /\ Split(lots, {2, 3})[2] = part /\ Split(lots, {2, 3})[3] = lots - part
      /\ Split(lots, Levels)[1] = one /\ Split(lots, Levels)[2] = two
      /\ Split(lots, Levels)[3] = lots - (one + two)
  BY <1>1, <1>2, <1>3, <1>4, <1>5, SplitsAre
<1>7. lots # 0 => part < lots /\ one + two < lots
  <2> SUFFICES ASSUME lots # 0 PROVE part < lots /\ one + two < lots
    OBVIOUS
  <2>1. lots \in Nat \ {0} /\ w1 \in Nat /\ w2 \in Nat /\ 0 \in Nat /\ all \in Nat /\ w2 + w3 \in Nat
        /\ w2 + w3 = w2 + 0 + w3
    OBVIOUS
  <2>2. one + two < lots
    BY <1>2, <1>3, <2>1, LastGets
  <2>3. (lots * w2) \div (w2 + w3) + (lots * 0) \div (w2 + w3) < lots
    BY <2>1, LastGets
  <2>4. (lots * 0) \div (w2 + w3) = 0
    BY <2>1
  <2> QED
    BY <1>4, <2>2, <2>3, <2>4
<1>8. lots = 0 => part = 0 /\ one = 0 /\ two = 0
  <2> SUFFICES ASSUME lots = 0 PROVE part = 0 /\ one = 0 /\ two = 0
    OBVIOUS
  <2>1. /\ (lots * w1) \div all \in 0..lots /\ (lots * w2) \div all \in 0..lots
        /\ (lots * w2) \div (w2 + w3) \in 0..lots
    <3>1. w1 <= all /\ w2 <= all /\ w2 <= w2 + w3 /\ w2 + w3 \in Nat \ {0} /\ w1 \in Nat /\ w2 \in Nat
      BY <1>2
    <3> QED
      BY <3>1, DownShare
  <2> QED
    BY <1>3, <1>4, <2>1
<1>9. Gets(lots, {2, 3}, 2) = part
  <2>1. PICK some : some = {j \in {2, 3} : Split(lots, {2, 3})[j] > 0}
    OBVIOUS
  <2>2. (2 \in some <=> part > 0) /\ (3 \in some <=> lots - part > 0) /\ some \subseteq {2, 3}
    BY <1>6, <2>1
  <2>3. Gets(lots, {2, 3}, 2) = IF 2 \in some THEN Split(lots, some)[2] ELSE 0
    BY <2>1 DEF Gets
  <2>4. lots # 0 => lots - part > 0
    BY <1>7
  <2>5. 2 \in some => 3 \in some
    BY <1>8, <2>2, <2>4
  <2>6. 2 \in some => some = {2, 3}
    BY <2>2, <2>5
  <2> QED
    BY <1>6, <2>2, <2>3, <2>6
<1>10. PICK some : some = {j \in Levels : Split(lots, Levels)[j] > 0}
  OBVIOUS
<1>11. /\ 1 \in some <=> one > 0
       /\ 2 \in some <=> two > 0
       /\ 3 \in some <=> lots - (one + two) > 0
       /\ some \subseteq {1, 2, 3}
  BY <1>6, <1>10, LevelsAre
<1>12. /\ Gets(lots, Levels, 1) = IF 1 \in some THEN Split(lots, some)[1] ELSE 0
       /\ Gets(lots, Levels, 2) = IF 2 \in some THEN Split(lots, some)[2] ELSE 0
  BY <1>10 DEF Gets
<1>13. (1 \in some => 3 \in some) /\ (2 \in some => 3 \in some)
  <2>1. lots # 0 => lots - (one + two) > 0
    BY <1>7
  <2> QED
    BY <1>8, <1>11, <2>1
<1>14. CASE one = 0
  <2>1. 1 \notin some /\ (2 \in some => some = {2, 3})
    <3>1. 1 \notin some
      BY <1>11, <1>14
    <3> QED
      BY <1>11, <1>13, <3>1
  <2>2. Gets(lots, Levels, 1) = 0 /\ Gets(lots, Levels, 2) = IF two = 0 THEN 0 ELSE part
    BY <1>6, <1>11, <1>12, <2>1
  <2> QED
    BY <1>1, <1>2, <1>3, <1>4, <1>9, <1>14, <2>2
<1>15. CASE one # 0 /\ two = 0
  <2>1. some = {1, 3}
    <3>1. 1 \in some /\ 2 \notin some
      BY <1>11, <1>15
    <3> QED
      BY <1>11, <1>13, <3>1
  <2>2. Gets(lots, Levels, 1) = near /\ Gets(lots, Levels, 2) = 0
    BY <1>6, <1>12, <2>1
  <2> QED
    BY <1>1, <1>2, <1>3, <1>4, <1>5, <1>9, <1>15, <2>2
<1>16. CASE one # 0 /\ two # 0
  <2>1. some = {1, 2, 3}
    <3>1. 1 \in some /\ 2 \in some
      BY <1>11, <1>16
    <3> QED
      BY <1>11, <1>13, <3>1
  <2>2. Gets(lots, Levels, 1) = one /\ Gets(lots, Levels, 2) = two
    BY <1>6, <1>12, <2>1, LevelsAre
  <2> QED
    BY <1>1, <1>2, <1>3, <1>4, <1>9, <1>16, <2>2
<1> QED
  BY <1>14, <1>15, <1>16

\* A level that is to have an order has one for something.
LEMMA SecondGets ==
    ASSUME SharesFit, NEW lots \in Nat, NEW open \in {Levels, {2, 3}},
           2 \in open, Split(lots, open)[2] > 0
    PROVE  Gets(lots, open, 2) > 0
<1>1. PICK w1, w2, w3 \in Nat \ {0} : w1 = Weights[1] /\ w2 = Weights[2] /\ w3 = Weights[3]
  BY LevelsAre, LadderAssumption DEF LadderAssumption, SharesFit
<1>2. \A k \in Levels : Weights[k] > 0
  BY DEF SharesFit
<1>3. PICK p, m \in Nat, n \in Nat \ {0} : /\ n = w2 + w3 /\ m = w1 + w2 + w3 /\ n <= m
                                           /\ p = lots * w2
  <2>1. lots * w2 \in Nat /\ w2 + w3 \in Nat \ {0} /\ w1 + w2 + w3 \in Nat /\ w2 + w3 <= w1 + w2 + w3
    OBVIOUS
  <2> QED
    BY <2>1
<1>4. PICK q \in Nat : q = p \div n
  <2>1. p \div n \in Nat
    OBVIOUS
  <2> QED
    BY <2>1
<1>5. PICK r \in Nat : r = p \div m /\ r <= q
  <2>1. p \div m \in Nat
    BY <1>3
  <2>2. p <= p
    OBVIOUS
  <2>3. p \div m <= p \div n
    BY <1>3, <2>2, QuotientGrows
  <2> QED
    BY <1>4, <2>1, <2>3
<1>6. /\ q = (lots * Weights[2]) \div (Weights[2] + Weights[3])
      /\ r = (lots * Weights[2]) \div (Weights[1] + Weights[2] + Weights[3])
  BY <1>1, <1>3, <1>4, <1>5
<1>7. Gets(lots, {2, 3}, 2) = q
  BY <1>2, <1>6, GetsAre, Zenon
<1>8. CASE open = {2, 3}
  <2>1. Split(lots, {2, 3})[2] = q
    BY <1>2, <1>6, SplitsAre, Zenon
  <2> QED
    BY <1>7, <1>8, <2>1
<1>9. CASE open = Levels
  <2>1. PICK one : one = (lots * Weights[1]) \div (Weights[1] + Weights[2] + Weights[3])
    OBVIOUS
  <2>2. Split(lots, Levels)[2] = r
    BY <1>2, <1>6, SplitsAre, Zenon
  <2>3. r > 0
    BY <1>9, <2>2, LevelsAre
  <2>4. Gets(lots, Levels, 2) = IF r = 0 THEN 0 ELSE IF one = 0 THEN q ELSE r
    BY <1>2, <1>6, <2>1, GetsAre, Zenon
  <2> QED
    BY <1>5, <1>9, <2>3, <2>4
<1> QED
  BY <1>8, <1>9

\* With less left, the second level does not get more.
LEMMA GetsLess ==
    ASSUME SharesFit, NEW lots \in Nat, NEW rest \in Nat, rest <= lots
    PROVE  /\ Gets(rest, {2, 3}, 2) \in Nat
           /\ Gets(rest, {2, 3}, 2) <= Gets(lots, {2, 3}, 2)
<1>1. PICK w2, w3 \in Nat \ {0} : w2 = Weights[2] /\ w3 = Weights[3]
  BY LevelsAre, LadderAssumption DEF LadderAssumption, SharesFit
<1>2. \A k \in Levels : Weights[k] > 0
  BY DEF SharesFit
<1>3. PICK n \in Nat \ {0} : n = w2 + w3 /\ n <= n
  OBVIOUS
<1>4. PICK a, b \in Nat : a = rest * w2 /\ b = lots * w2 /\ a <= b
  <2>1. PICK e \in Nat : lots = rest + e
    <3>1. lots - rest \in Nat /\ lots = rest + (lots - rest)
      OBVIOUS
    <3> QED
      BY <3>1
  <2>2. lots * w2 = rest * w2 + e * w2 /\ rest * w2 \in Nat /\ e * w2 \in Nat
    BY <2>1
  <2> QED
    BY <2>2
<1>5. a \div n <= b \div n /\ a \div n \in Nat
  <2>1. a \div n \in Nat
    OBVIOUS
  <2> QED
    BY <1>3, <1>4, <2>1, QuotientGrows
<1>6. Gets(rest, {2, 3}, 2) = a \div n /\ Gets(lots, {2, 3}, 2) = b \div n
  BY <1>1, <1>2, <1>3, <1>4, GetsAre
<1> QED
  BY <1>5, <1>6

LEMMA SharesAre ==
    ASSUME SharesFit
    PROVE  /\ Weighted = Levels /\ Lots \in Nat
           /\ Share[1] \in Nat /\ Share[2] \in Nat /\ Share[3] \in Nat
           /\ SumFunctionOnSet(Share, 1..1) = Share[1]
           /\ SumFunctionOnSet(Share, 1..2) = Share[1] + Share[2]
           /\ SumFunctionOnSet(Share, 1..3) = Lots
<1>1. Weighted = Levels /\ Lots \in Nat /\ Levels \in SUBSET Weighted
  BY LadderAssumption DEF SharesFit, Weighted, LadderAssumption
<1>2. \A k \in Levels : Share[k] \in 0..Lots
  BY <1>1, SplitBounds DEF Share
<1>3. Share[1] \in Nat /\ Share[2] \in Nat /\ Share[3] \in Nat
  BY <1>1, <1>2, LevelsAre
<1>4. Share[1] + Share[2] + Share[3] = Lots
  <2>1. PICK one, two \in Nat : Share[1] = one /\ Share[2] = two /\ Share[3] = Lots - (one + two)
    <3> DEFINE all == Weights[1] + Weights[2] + Weights[3]
               one == (Lots * Weights[1]) \div all
               two == (Lots * Weights[2]) \div all
    <3>1. Share[1] = one /\ Share[2] = two /\ Share[3] = Lots - (one + two)
      BY <1>1, SplitsAre DEF SharesFit, Share
    <3> HIDE DEF one, two
    <3> QED
      BY <1>3, <3>1
  <2> QED
    BY <1>1, <2>1, LevelsAre
<1>5. 1..1 = {1} /\ 1..2 = {1, 2} /\ 1..3 = {1, 2, 3}
  OBVIOUS
<1>6. /\ SumFunctionOnSet(Share, {1}) = Share[1]
      /\ SumFunctionOnSet(Share, {1, 2}) = Share[1] + Share[2]
      /\ SumFunctionOnSet(Share, {1, 2, 3}) = Share[1] + Share[2] + Share[3]
  BY <1>3, LevelSums
<1> QED
  BY <1>1, <1>3, <1>4, <1>5, <1>6

LEMMA NoPlanAmongStrays ==
    ASSUME PricesApart, NEW o \in Strays, NEW k \in Levels
    PROVE  ~PlanOrder(o, k)
BY LevelsAre DEF PricesApart, PlanOrder

LEMMA LessWaiting ==
    ASSUME NEW book, NEW less \in SUBSET book, NEW k
    PROVE  ToSell(less, k) \subseteq ToSell(book, k)
BY DEF ToSell

LEMMA WaitingIsNat ==
    ASSUME NEW book, Book(book), NEW k
    PROVE  \A x \in ToSell(book, k) : x \in Nat
<1>1. \A o \in book : o.lots \in Nat
  BY LadderAssumption DEF Book, Order, LadderAssumption
<1> QED
  BY <1>1 DEF ToSell

\* An order of the level sells what it waited with, or less.
LEMMA KeptFewer ==
    ASSUME NEW done, NEW book, NEW less \in SUBSET book, NEW seen, NEW more, seen \subseteq more,
           Kept(done, book, seen)
    PROVE  Kept(done, less, more)
<1>1. ToSell(less, 1) \subseteq ToSell(book, 1) /\ ToSell(less, 2) \subseteq ToSell(book, 2)
  BY LessWaiting
<1>2. more = {} => seen = {}
  OBVIOUS
<1> QED
  BY <1>1, <1>2 DEF Kept

LEMMA FiresReads ==
    ASSUME LadderShape, ExitFires
    PROVE  \E o \in exits, n \in 0..held :
              /\ n = IF o.kind = 0 \/ o.lots > held THEN held ELSE o.lots
              /\ held > 0 /\ held' = held - n
              /\ exits' \subseteq exits \ {o}
              /\ held' # 0 => exits' = exits \ {o}
              /\ sold' = [k \in Levels |-> IF PlanOrder(o, k) THEN sold[k] + n ELSE sold[k]]
<1>1. PICK o \in exits :
        LET n == IF o.kind = 0 \/ o.lots > held THEN held ELSE o.lots IN
        /\ held > 0 /\ held' = held - n
        /\ exits' \in BookOf(held', exits \ {o})
        /\ sold' = [k \in Levels |-> IF o.kind = k /\ o.at = PlanTargets[k] THEN sold[k] + n
                                     ELSE sold[k]]
  BY DEF ExitFires
<1>2. PICK n \in 0..held : n = IF o.kind = 0 \/ o.lots > held THEN held ELSE o.lots
  BY LadderAssumption DEF LadderAssumption, LadderShape, Book, Order
<1>3. exits' \subseteq exits \ {o} /\ (held' # 0 => exits' = exits \ {o})
  BY <1>1 DEF BookOf
<1> QED
  BY <1>1, <1>2, <1>3 DEF PlanOrder

LEMMA KeptFires ==
    ASSUME SharesFit, LadderShape, TargetsApart(exits), ExitFires, Kept(sold, exits, hits)
    PROVE  Kept(sold', exits', hits)
<1>1. PICK o \in exits, n \in 0..held :
        /\ n = IF o.kind = 0 \/ o.lots > held THEN held ELSE o.lots
        /\ exits' \subseteq exits \ {o}
        /\ sold' = [k \in Levels |-> IF PlanOrder(o, k) THEN sold[k] + n ELSE sold[k]]
  BY FiresReads
<1>2. /\ \A k \in {1, 2} : sold'[k] = IF PlanOrder(o, k) THEN sold[k] + n ELSE sold[k]
      /\ \A k \in {1, 2} : sold[k] \in Nat
      /\ n \in Nat
  BY <1>1, LevelsAre, LadderAssumption DEF LadderShape, LadderAssumption
<1>3. \A k \in {1, 2} : PlanOrder(o, k) =>
        /\ \E x \in ToSell(exits, k) : n <= x
        /\ ToSell(exits', k) = {0}
  <2> SUFFICES ASSUME NEW k \in {1, 2}, PlanOrder(o, k)
               PROVE  n <= o.lots /\ o.lots \in ToSell(exits, k) /\ ToSell(exits', k) = {0}
    OBVIOUS
  <2>1. o.kind # 0
    BY DEF PlanOrder
  <2>2. n <= o.lots
    BY <1>1, <2>1, LadderAssumption DEF LadderShape, Book, Order, LadderAssumption
  <2>3. \A p \in exits' : ~PlanOrder(p, k)
    BY <1>1, <2>1 DEF PlanOrder, TargetsApart
  <2> QED
    BY <2>2, <2>3 DEF ToSell
<1>4. \A k \in {1, 2} : /\ ToSell(exits', k) \subseteq ToSell(exits, k) /\ 0 \in ToSell(exits, k)
                        /\ \A x \in ToSell(exits, k) : x \in Nat
  <2>1. exits' \subseteq exits /\ Book(exits)
    BY <1>1 DEF LadderShape
  <2> QED
    BY <2>1, LessWaiting, WaitingIsNat DEF ToSell
<1>5. ~(PlanOrder(o, 1) /\ PlanOrder(o, 2))
  BY DEF PlanOrder
<1>6. PICK s1, s2 \in Nat : s1 = Share[1] /\ s2 = Share[2]
  BY SharesAre
<1> QED
  <2>1. \A x \in ToSell(exits', 1) : sold'[1] + x <= s1
    BY <1>2, <1>3, <1>4, <1>6 DEF Kept
  <2>2. hits = {} => \A y \in ToSell(exits', 2) : sold'[2] + y <= s2
    BY <1>2, <1>3, <1>4, <1>6 DEF Kept
  <2>3. ASSUME NEW x \in ToSell(exits', 1), NEW y \in ToSell(exits', 2)
        PROVE  sold'[1] + x + sold'[2] + y <= s1 + s2
    <3>1. CASE PlanOrder(o, 1)
      <4>1. PICK z \in ToSell(exits, 1) : n <= z
        BY <1>3, <3>1
      <4>2. sold[1] + z + sold[2] + y <= s1 + s2 /\ x = 0
        BY <1>3, <1>4, <1>6, <3>1, <4>1 DEF Kept
      <4> QED
        BY <1>2, <1>4, <1>5, <3>1, <4>1, <4>2
    <3>2. CASE PlanOrder(o, 2)
      <4>1. PICK z \in ToSell(exits, 2) : n <= z
        BY <1>3, <3>2
      <4>2. sold[1] + x + sold[2] + z <= s1 + s2 /\ y = 0
        BY <1>3, <1>4, <1>6, <3>2, <4>1 DEF Kept
      <4> QED
        BY <1>2, <1>4, <1>5, <3>2, <4>1, <4>2
    <3>3. CASE ~PlanOrder(o, 1) /\ ~PlanOrder(o, 2)
      BY <1>2, <1>4, <1>6, <3>3 DEF Kept
    <3> QED
      BY <3>1, <3>2, <3>3
  <2> QED
    BY <1>6, <2>1, <2>2, <2>3 DEF Kept

\* The levels that are open of a complete linked row
LEMMA OpenAre ==
    ASSUME SharesFit, NEW row, row.linked, RowComplete(row), hits \subseteq Levels
    PROVE  /\ OpenLevels(row) = {k \in Levels : \A j \in hits : k > j}
           /\ hits = {} => OpenLevels(row) = Levels
           /\ hits = {1} => OpenLevels(row) = {2, 3}
           /\ hits # {} /\ hits # {1} => 1 \notin OpenLevels(row) /\ 2 \notin OpenLevels(row)
<1>1. Priced(row) = Levels
  BY DEF Priced, RowComplete, SharesFit
<1>2. OpenLevels(row) = {k \in Levels : \A j \in hits : k > j}
  BY <1>1 DEF OpenLevels
<1>3. ASSUME hits = {1} PROVE OpenLevels(row) = {2, 3}
  <2>1. \A k \in {1, 2, 3} : k > 1 <=> k \in {2, 3}
    OBVIOUS
  <2> QED
    BY <1>2, <1>3, <2>1, LevelsAre
<1>4. ASSUME hits # {}, hits # {1} PROVE 1 \notin OpenLevels(row) /\ 2 \notin OpenLevels(row)
  <2>1. PICK j \in hits : j = 2 \/ j = 3
    BY <1>4, LevelsAre
  <2>2. ~(1 > j) /\ ~(2 > j)
    BY <2>1
  <2> QED
    BY <1>2, <2>2
<1> QED
  BY <1>2, <1>3, <1>4

\* What waits after a reconciliation waited before, or is what the level gets of what is left.
LEMMA EnsuredWaits ==
    ASSUME PricesApart, LadderShape, NEW row \in Row, row.linked, RowComplete(row), RowKnown(row),
           NEW book, Book(book), TargetsApart(book), NEW k \in Levels,
           NEW x \in ToSell(Ensured(row, book, {}), k), x # 0
    PROVE  /\ k \in Expected(row, held)
           /\ \/ x \in ToSell(book, k)
              \/ /\ x = Split(held, Expected(row, held))[k]
                 /\ row.targets[k] = PlanTargets[k] /\ mark < PlanTargets[k]
                 /\ \A o \in book : ~PlanOrder(o, k)
<1>1. PICK tidy : tidy = Tidied(row, book)
  OBVIOUS
<1>2. PICK o \in tidy \cup StopFor(row, tidy) \cup TargetsFor(row, tidy) : PlanOrder(o, k) /\ x = o.lots
  BY <1>1 DEF ToSell, Ensured
<1>3. k # 0
  BY LevelsAre
<1>4. CASE o \in tidy
  <2>1. o \in book /\ \E j \in Expected(row, held) : o.at = row.targets[j]
    BY <1>1, <1>2, <1>3, <1>4 DEF Tidied, PlanOrder
  <2>2. PICK j \in Expected(row, held) : o.at = row.targets[j]
    BY <2>1
  <2>3. j \in Levels /\ row.targets[j] # 0
    BY ExpectedLevels DEF Weighted
  <2>4. PlanTargets[k] \in PricesOf(j) /\ PlanTargets[k] \in PricesOf(k)
    BY <1>2, <2>2, <2>3 DEF RowKnown, PlanOrder, PricesOf
  <2>5. j = k
    BY <2>3, <2>4, OneLevelPerPrice
  <2> QED
    BY <1>2, <2>1, <2>2, <2>5 DEF ToSell
<1>5. CASE o \in StopFor(row, tidy)
  BY <1>2, <1>3, <1>5 DEF StopFor, Stop, PlanOrder
<1>6. CASE o \in TargetsFor(row, tidy)
  <2>1. PICK split : split = Split(held, Expected(row, held))
    OBVIOUS
  <2>2. PICK j \in Expected(row, held) : o = [kind |-> j, at |-> row.targets[j], lots |-> split[j]]
    BY <1>6, <2>1, NewTarget
  <2>3. j = k /\ row.targets[k] = PlanTargets[k]
    BY <1>2, <2>2 DEF PlanOrder
  <2>4. mark < PlanTargets[k]
    BY <1>2, <1>3, <1>6, <2>2, <2>3 DEF TargetsFor, Placeable, PlanOrder
  <2>5. \A p \in tidy : p.kind # k
    <3>1. PICK i \in Expected(row, held) : o.kind = i /\ \A p \in tidy : p.kind # i
      BY <1>6, NewTarget
    <3> QED
      BY <1>2, <3>1 DEF PlanOrder
  <2>6. \A p \in book : ~PlanOrder(p, k)
    <3> SUFFICES ASSUME NEW p \in book, PlanOrder(p, k) PROVE FALSE
      OBVIOUS
    <3>1. p \in tidy
      BY <1>1, <1>3, <2>2, <2>3 DEF Tidied, PlanOrder
    <3> QED
      BY <2>5, <3>1 DEF PlanOrder
  <2> QED
    BY <1>2, <2>1, <2>2, <2>3, <2>4, <2>6
<1> QED
  BY <1>2, <1>4, <1>5, <1>6

LEMMA ExpectedGets ==
    ASSUME NEW row, NEW lots, NEW k \in Expected(row, lots)
    PROVE  Split(lots, Expected(row, lots))[k] = Gets(lots, OpenLevels(row), k)
<1>1. PICK open : open = OpenLevels(row)
  OBVIOUS
<1>2. PICK some : some = {j \in open : Split(lots, open)[j] > 0}
  OBVIOUS
<1>3. Expected(row, lots) = some
  BY <1>1, <1>2 DEF Expected
<1> QED
  BY <1>1, <1>2, <1>3 DEF Gets

\* No order of the plan waits after a reconciliation of a row that is not of the signal.
LEMMA EnsuredUnlinked ==
    ASSUME LadderShape, NEW row \in Row, ~row.linked, RowComplete(row), NEW book,
           \A o \in book : \A k \in Levels : ~PlanOrder(o, k), NEW failing
    PROVE  \A o \in Ensured(row, book, failing) : \A k \in Levels : ~PlanOrder(o, k)
<1>1. PICK tidy : tidy = IF "tidy" \in failing THEN book ELSE Tidied(row, book)
  OBVIOUS
<1>2. tidy \subseteq book
  BY <1>1 DEF Tidied
<1>3. Ensured(row, book, failing) \subseteq tidy \cup StopFor(row, tidy) \cup TargetsFor(row, tidy)
  BY <1>1 DEF Ensured
<1>4. ASSUME NEW o \in StopFor(row, tidy), NEW k \in Levels PROVE ~PlanOrder(o, k)
  BY LevelsAre DEF StopFor, Stop, PlanOrder
<1>5. ASSUME NEW o \in TargetsFor(row, tidy), NEW k \in Levels PROVE ~PlanOrder(o, k)
  <2>1. PICK j \in Levels : o.kind = j /\ o.at = row.targets[j]
    BY NewTarget
  <2> QED
    BY <2>1 DEF PlanOrder, RowComplete
<1> QED
  BY <1>2, <1>3, <1>4, <1>5

LEMMA NothingWaits ==
    ASSUME NEW book, NEW k, \A o \in book : ~PlanOrder(o, k)
    PROVE  ToSell(book, k) = {0}
BY DEF ToSell

LEMMA RowMade ==
    ASSUME LadderShape, PlanNeedsRow, RowComplete(leg), held > 0,
           NEW row \in IF leg = NoLeg THEN Recovered(exits) ELSE {leg}
    PROVE  /\ Backfilled(row) \in Row
           /\ RowComplete(Backfilled(row))
           /\ ~Backfilled(row).linked => \A o \in exits : \A k \in Levels : ~PlanOrder(o, k)
           /\ ~Backfilled(row).linked => ~leg.linked
           /\ leg.linked => \A k \in Levels : Backfilled(row).targets[k] = leg.targets[k]
<1>1. row \in Row
  BY RecoveredRow DEF LadderShape
<1>2. Backfilled(row) \in Row
  BY <1>1, BackfilledRow
<1>3. \A k \in Levels : PlanTargets[k] # 0
  BY LadderAssumption DEF LadderAssumption
<1>4. CASE plan = "open"
  <2> DEFINE t == [k \in Levels |-> IF row.targets[k] = 0 THEN PlanTargets[k] ELSE row.targets[k]]
  <2>1. \A k \in Levels : t[k] # 0
    BY <1>3
  <2>2. Backfilled(row) = [linked |-> TRUE, stop |-> row.stop, targets |-> t]
    BY <1>4 DEF Backfilled
  <2> HIDE DEF t
  <2>3. Backfilled(row).linked /\ Backfilled(row).targets = t
    BY <2>2
  <2>4. leg.linked => \A k \in Levels : t[k] = leg.targets[k]
    BY DEF t, NoLeg, RowComplete
  <2> QED
    BY <1>2, <2>1, <2>3, <2>4 DEF RowComplete
<1>5. CASE plan # "open"
  <2>1. Backfilled(row) = row
    BY <1>5 DEF Backfilled
  <2>2. CASE leg = NoLeg
    <3>1. ~leg.linked
      BY <2>2 DEF NoLeg
    <3>2. \A o \in exits : \A k \in Levels : ~PlanOrder(o, k)
      BY <3>1 DEF PlanNeedsRow
    <3>3. ~row.linked /\ \A k \in Levels : \/ row.targets[k] = 0
                                           \/ \E o \in exits : o.kind = k /\ o.at = row.targets[k]
      BY <2>2, RecoveredRow DEF LadderShape
    <3>4. \A k \in Levels : row.targets[k] # PlanTargets[k]
      BY <1>3, <3>2, <3>3 DEF PlanOrder
    <3> QED
      BY <1>2, <2>1, <3>1, <3>2, <3>3, <3>4 DEF RowComplete
  <2>3. CASE leg # NoLeg
    <3>1. row = leg
      BY <2>3
    <3> QED
      BY <1>2, <2>1, <3>1 DEF PlanNeedsRow
  <2> QED
    BY <2>2, <2>3
<1> QED
  BY <1>4, <1>5

\* An order of the plan for the second level stays, or is placed, if that is ahead.
LEMMA EnsuredSecond ==
    ASSUME PricesApart, LadderShape, NEW row \in Row, row.linked, RowKnown(row),
           NEW book, Book(book), TargetsApart(book),
           2 \in Expected(row, held), row.targets[2] = PlanTargets[2],
           mark < PlanTargets[2] \/ \E o \in book : PlanOrder(o, 2)
    PROVE  \E o \in Ensured(row, book, {}) : PlanOrder(o, 2)
<1>1. PICK after : after = Ensured(row, book, {})
  OBVIOUS
<1>2. CASE mark < PlanTargets[2]
  <2>1. Cardinality({o \in after : o.kind # 0 /\ o.at = row.targets[2]}) = 1
    BY <1>1, <1>2, EnsuredRestores DEF RestoredTo
  <2>2. {o \in after : o.kind # 0 /\ o.at = row.targets[2]} # {}
    <3>1. Cardinality({}) = 0
      BY FS_EmptySet
    <3> QED
      BY <2>1, <3>1
  <2>3. PICK o \in after : o.kind # 0 /\ o.at = PlanTargets[2]
    BY <2>2
  <2>4. o.kind \in Levels /\ o.at \in PricesOf(o.kind)
    BY <1>1, <2>3, EnsuredApart DEF TargetsApart
  <2>5. 2 \in Levels /\ o.at \in PricesOf(2)
    BY <2>3, LevelsAre DEF PricesOf
  <2>6. o.kind = 2
    BY <2>4, <2>5, OneLevelPerPrice
  <2> QED
    BY <1>1, <2>3, <2>6 DEF PlanOrder
<1>3. CASE \E o \in book : PlanOrder(o, 2)
  <2>1. PICK o \in book : o.kind = 2 /\ o.at = row.targets[2]
    BY <1>3 DEF PlanOrder
  <2>2. o \in Tidied(row, book)
    BY <2>1 DEF Tidied
  <2>3. o \in after
    BY <1>1, <2>2 DEF Ensured
  <2> QED
    BY <1>1, <2>1, <2>3 DEF PlanOrder
<1> QED
  BY <1>2, <1>3

LEMMA EnsuredSells ==
    ASSUME SharesFit, LadderShape, NEW row \in Row, row.linked, RowComplete(row),
           NEW book, SecondSells(book), NEW failing
    PROVE  SecondSells(Ensured(row, book, failing))
<1> SUFFICES ASSUME NEW o \in Ensured(row, book, failing), PlanOrder(o, 2) PROVE o.lots > 0
  BY DEF SecondSells
<1>1. PICK tidy : tidy = IF "tidy" \in failing THEN book ELSE Tidied(row, book)
  OBVIOUS
<1>2. tidy \subseteq book
  BY <1>1 DEF Tidied
<1>3. Ensured(row, book, failing) \subseteq tidy \cup StopFor(row, tidy) \cup TargetsFor(row, tidy)
  BY <1>1 DEF Ensured
<1>4. CASE o \in tidy
  BY <1>2, <1>4 DEF SecondSells
<1>5. CASE o \in StopFor(row, tidy)
  BY <1>5 DEF StopFor, Stop, PlanOrder
<1>6. CASE o \in TargetsFor(row, tidy)
  <2>1. PICK split : split = Split(held, Expected(row, held))
    OBVIOUS
  <2>2. PICK j \in Expected(row, held) : o = [kind |-> j, at |-> row.targets[j], lots |-> split[j]]
    BY <1>6, <2>1, NewTarget
  <2>3. j = 2
    BY <2>2 DEF PlanOrder
  <2>4. o.lots = Gets(held, OpenLevels(row), 2)
    BY <2>1, <2>2, <2>3, ExpectedGets
  <2>5. 2 \in OpenLevels(row) /\ Split(held, OpenLevels(row))[2] > 0
    BY <2>2, <2>3 DEF Expected
  <2>6. OpenLevels(row) \in {Levels, {2, 3}}
    BY <2>5, OpenAre DEF LadderShape
  <2>7. held \in Nat
    BY LadderAssumption DEF LadderAssumption, LadderShape
  <2> QED
    BY <2>4, <2>5, <2>6, <2>7, SecondGets
<1> QED
  BY <1>3, <1>4, <1>5, <1>6

LEMMA NothingIn ==
    ASSUME NEW book, NEW k
    PROVE  0 \in ToSell(book, k)
BY DEF ToSell

\* What a reconciliation starts from
LEMMA BeforeReconcile ==
    ASSUME SharesFit, LadderInv, Kept(sold, exits, hits), ~FilledUnseen
    PROVE  /\ Share[1] \in Nat /\ Share[2] \in Nat
           /\ sold[1] \in Nat /\ sold[2] \in Nat
           /\ held \in 0..Lots /\ held + sold[1] + sold[2] <= Lots /\ Lots \in Nat
           /\ sold[1] <= Share[1] /\ sold[1] + sold[2] <= Share[1] + Share[2]
           /\ \A x \in ToSell(exits, 1) : x \in Nat /\ sold[1] + x <= Share[1]
           /\ \A y \in ToSell(exits, 2) :
                 y \in Nat /\ sold[1] + sold[2] + y <= Share[1] + Share[2]
           /\ hits = {} => /\ sold[1] = 0 /\ sold[2] = 0
                           /\ \A y \in ToSell(exits, 2) : y <= Share[2]
           /\ hits = {1} => sold[2] = 0
<1>1. PICK s1, s2 \in Nat : s1 = Share[1] /\ s2 = Share[2]
  BY SharesAre
<1>2. 1 \in Levels /\ 2 \in Levels /\ LadderShape /\ Book(exits)
  BY LevelsAre DEF LadderInv, LadderShape
<1>3. PICK d1, d2 \in Nat : d1 = sold[1] /\ d2 = sold[2] /\ held + d1 + d2 <= Lots /\ held \in 0..Lots
  <2>1. sold[1] \in 0..Lots /\ sold[2] \in 0..Lots /\ sold[3] \in 0..Lots /\ Lots \in Nat
        /\ held \in 0..Lots /\ held + sold[1] + sold[2] + sold[3] <= Lots
    BY <1>2, LevelsAre, LadderAssumption DEF LadderAssumption, LadderShape
  <2> QED
    BY <2>1
<1>4. Lots \in Nat
  BY LadderAssumption DEF LadderAssumption
<1>5. \A k : 0 \in ToSell(exits, k) /\ \A x \in ToSell(exits, k) : x \in Nat
  BY <1>2, WaitingIsNat, NothingIn
<1>6. /\ \A x \in ToSell(exits, 1) : d1 + x <= s1
      /\ \A x \in ToSell(exits, 1), y \in ToSell(exits, 2) : d1 + x + d2 + y <= s1 + s2
      /\ hits = {} => \A y \in ToSell(exits, 2) : d2 + y <= s2
  BY <1>1, <1>3 DEF Kept
<1>7. \A y \in ToSell(exits, 2) : d1 + 0 + d2 + y <= s1 + s2
  BY <1>5, <1>6
<1>8. \A y \in ToSell(exits, 2) : d1 + d2 + y <= s1 + s2
  BY <1>5, <1>7
<1>9. d1 + 0 <= s1 /\ d1 + d2 + 0 <= s1 + s2
  BY <1>5, <1>6, <1>8
<1>10. hits = {} => d1 = 0 /\ d2 = 0
  BY <1>2, <1>3 DEF FilledUnseen
<1>11. hits = {1} => d2 = 0
  <2> SUFFICES ASSUME hits = {1} PROVE d2 = 0
    OBVIOUS
  <2>1. \A j \in hits : 2 > j
    OBVIOUS
  <2> QED
    BY <1>2, <1>3, <2>1 DEF FilledUnseen
<1>12. d1 <= s1 /\ d1 + d2 <= s1 + s2
  BY <1>9
<1>13. hits = {} => \A y \in ToSell(exits, 2) : y <= s2
  BY <1>5, <1>6, <1>10
<1> QED
  BY <1>1, <1>3, <1>4, <1>5, <1>6, <1>8, <1>10, <1>11, <1>12, <1>13

\* The row and the orders a reconciliation makes
LEMMA AfterReconcile ==
    ASSUME PricesApart, SharesFit, LadderInv, RowComplete(leg), PlanNeedsRow, held > 0,
           NEW row \in IF leg = NoLeg THEN Recovered(exits) ELSE {leg},
           NEW made, made = Backfilled(row), NEW after, after = Ensured(made, exits, {})
    PROVE  /\ made \in Row /\ RowComplete(made) /\ RowKnown(made) /\ hits \subseteq Levels
           /\ \A k : 0 \in ToSell(after, k) /\ \A x \in ToSell(after, k) : x \in Nat
           /\ ~made.linked => /\ \A o \in exits : \A k \in Levels : ~PlanOrder(o, k)
                              /\ \A k \in Levels : ToSell(after, k) = {0}
           /\ \A k \in {1, 2} : \A x \in ToSell(after, k) :
                 \/ x = 0
                 \/ x \in ToSell(exits, k) /\ (made.linked => k \in Expected(made, held))
                 \/ /\ made.linked /\ k \in Expected(made, held)
                    /\ x = Gets(held, OpenLevels(made), k)
                    /\ made.targets[k] = PlanTargets[k] /\ mark < PlanTargets[k]
                    /\ \A o \in exits : ~PlanOrder(o, k)
<1>1. LadderShape /\ Book(exits) /\ TargetsApart(exits) /\ RowKnown(leg) /\ hits \subseteq Levels
  BY DEF LadderInv, LadderShape
<1>2. /\ made \in Row /\ RowComplete(made)
      /\ ~made.linked => \A o \in exits : \A k \in Levels : ~PlanOrder(o, k)
  BY <1>1, RowMade
<1>3. RowKnown(made)
  <2>1. row \in Row /\ RowKnown(row)
    BY <1>1, RecoveredRow, RecoveredKnown DEF LadderShape
  <2> QED
    BY <2>1, BackfilledKnown
<1>4. \A k : 0 \in ToSell(after, k) /\ \A x \in ToSell(after, k) : x \in Nat
  <2>1. Book(after)
    BY <1>1, <1>2, EnsuredBook
  <2> QED
    BY <2>1, WaitingIsNat, NothingIn
<1>5. ASSUME ~made.linked, NEW k \in Levels PROVE ToSell(after, k) = {0}
  <2>1. \A o \in after : ~PlanOrder(o, k)
    BY <1>1, <1>2, <1>5, EnsuredUnlinked
  <2> QED
    BY <2>1, NothingWaits
<1>6. ASSUME NEW k \in {1, 2}, NEW x \in ToSell(after, k), x # 0, made.linked
      PROVE  /\ k \in Expected(made, held)
             /\ \/ x \in ToSell(exits, k)
                \/ /\ x = Gets(held, OpenLevels(made), k)
                   /\ made.targets[k] = PlanTargets[k] /\ mark < PlanTargets[k]
                   /\ \A o \in exits : ~PlanOrder(o, k)
  <2>1. k \in Levels
    BY LevelsAre
  <2>2. /\ k \in Expected(made, held)
        /\ \/ x \in ToSell(exits, k)
           \/ /\ x = Split(held, Expected(made, held))[k]
              /\ made.targets[k] = PlanTargets[k] /\ mark < PlanTargets[k]
              /\ \A o \in exits : ~PlanOrder(o, k)
    BY <1>1, <1>2, <1>3, <1>6, <2>1, EnsuredWaits
  <2> QED
    BY <2>2, ExpectedGets
<1>7. {1, 2} \subseteq Levels
  BY LevelsAre
<1> QED
  BY <1>1, <1>2, <1>3, <1>4, <1>5, <1>6, <1>7

LEMMA ReconciledKept ==
    ASSUME PricesApart, SharesFit, LadderInv, RowComplete(leg), PlanNeedsRow,
           Kept(sold, exits, hits), NextFits(held, sold, exits, hits, leg), ~FilledUnseen, held > 0,
           NEW row \in IF leg = NoLeg THEN Recovered(exits) ELSE {leg},
           NEW made, made = Backfilled(row), NEW after, after = Ensured(made, exits, {})
    PROVE  Kept(sold, after, hits)
<1>1. PICK s1, s2, d1, d2 \in Nat :
        /\ s1 = Share[1] /\ s2 = Share[2] /\ d1 = sold[1] /\ d2 = sold[2]
  BY BeforeReconcile
<1>2. /\ held \in 0..Lots /\ held + d1 + d2 <= Lots /\ Lots \in Nat
      /\ d1 <= s1 /\ d1 + d2 <= s1 + s2
      /\ \A x \in ToSell(exits, 1) : x \in Nat /\ d1 + x <= s1
      /\ \A y \in ToSell(exits, 2) : y \in Nat /\ d1 + d2 + y <= s1 + s2
      /\ hits = {} => d1 = 0 /\ d2 = 0 /\ \A y \in ToSell(exits, 2) : y <= s2
      /\ hits = {1} => d2 = 0
  BY <1>1, BeforeReconcile
<1>3. /\ made \in Row /\ RowComplete(made) /\ hits \subseteq Levels
      /\ \A k : 0 \in ToSell(after, k) /\ \A x \in ToSell(after, k) : x \in Nat
      /\ ~made.linked => \A k \in Levels : ToSell(after, k) = {0}
      /\ \A k \in {1, 2} : \A x \in ToSell(after, k) :
            \/ x = 0
            \/ x \in ToSell(exits, k) /\ (made.linked => k \in Expected(made, held))
            \/ /\ made.linked /\ k \in Expected(made, held)
               /\ x = Gets(held, OpenLevels(made), k)
               /\ made.targets[k] = PlanTargets[k] /\ mark < PlanTargets[k]
               /\ \A o \in exits : ~PlanOrder(o, k)
  BY AfterReconcile
<1>4. 1 \in {1, 2} /\ 2 \in {1, 2} /\ 1 \in Levels /\ 2 \in Levels
  BY LevelsAre
<1>5. Expected(made, held) \subseteq OpenLevels(made)
  BY DEF Expected
<1>6. ASSUME ToSell(after, 1) = {0}, ToSell(after, 2) = {0}
      PROVE  Kept(sold, after, hits)
  <2>1. hits = {} => d2 + 0 <= s2
    BY <1>2
  <2>2. d1 + 0 <= s1 /\ d1 + 0 + d2 + 0 <= s1 + s2
    BY <1>2
  <2> QED
    BY <1>1, <1>6, <2>1, <2>2 DEF Kept
<1>7. CASE ~made.linked
  BY <1>3, <1>4, <1>6, <1>7
<1>8. CASE made.linked
  <2>1. /\ hits = {} => OpenLevels(made) = Levels
        /\ hits = {1} => OpenLevels(made) = {2, 3}
        /\ hits # {} /\ hits # {1} => 1 \notin OpenLevels(made) /\ 2 \notin OpenLevels(made)
    BY <1>3, <1>8, OpenAre
  <2>2. CASE hits = {}
    <3>1. Gets(held, Levels, 1) <= s1 /\ Gets(held, Levels, 2) <= s2
      BY <1>1, <1>2, <1>4 DEF SharesFit
    <3>2. /\ \A x \in ToSell(after, 1) : x = 0 \/ x \in ToSell(exits, 1) \/ x = Gets(held, Levels, 1)
          /\ \A y \in ToSell(after, 2) : y = 0 \/ y \in ToSell(exits, 2) \/ y = Gets(held, Levels, 2)
      BY <1>3, <1>4, <2>1, <2>2
    <3>3. \A x \in ToSell(exits, 1) : x \in Nat /\ x <= s1
      BY <1>2, <2>2
    <3>4. /\ \A x \in ToSell(after, 1) : x \in Nat /\ x <= s1
          /\ \A y \in ToSell(after, 2) : y \in Nat /\ y <= s2
      BY <1>2, <1>3, <2>2, <3>1, <3>2, <3>3
    <3>5. d1 = 0 /\ d2 = 0
      BY <1>2, <2>2
    <3>6. \A x \in ToSell(after, 1), y \in ToSell(after, 2) : d1 + x + d2 + y <= s1 + s2
      BY <3>4, <3>5
    <3> QED
      BY <1>1, <3>4, <3>5, <3>6 DEF Kept
  <2>3. CASE hits = {1}
    <3>1. d2 = 0
      BY <1>2, <2>3
    <3>2. ToSell(after, 1) = {0}
      <4>1. 1 \notin OpenLevels(made)
        BY <2>1, <2>3
      <4>2. \A x \in ToSell(after, 1) : x = 0
        BY <1>3, <1>4, <1>5, <1>8, <4>1
      <4> QED
        BY <1>3, <4>2
    <3>3. ASSUME \A o \in exits : ~PlanOrder(o, 2), made.targets[2] = PlanTargets[2]
          PROVE  d1 + Gets(held, {2, 3}, 2) <= s1 + s2
      <4>1. leg.linked => leg.targets[2] = PlanTargets[2]
        BY <1>4, <3>3, RowMade DEF LadderInv
      <4>2. SecondIsOpen(sold, exits, hits, leg)
        BY <1>1, <2>3, <3>1, <3>3, <4>1 DEF SecondIsOpen
      <4>3. 0 \in ToSell(exits, 1) /\ 0 \in Nat /\ held \in Nat /\ 0 <= 0 /\ 0 + held <= held
        BY <1>2, NothingIn
      <4>4. d1 + 0 + Gets(held, {2, 3}, 2) <= s1 + s2
        BY <1>1, <4>2, <4>3 DEF NextFits
      <4> QED
        BY <4>4
    <3>4. \A y \in ToSell(after, 2) :
             \/ y = 0 \/ y \in ToSell(exits, 2)
             \/ /\ y = Gets(held, {2, 3}, 2) /\ made.targets[2] = PlanTargets[2]
                /\ \A o \in exits : ~PlanOrder(o, 2)
      BY <1>3, <1>4, <2>1, <2>3
    <3>5. \A y \in ToSell(after, 2) : y \in Nat /\ d1 + y <= s1 + s2
      <4>1. \A y \in ToSell(exits, 2) : y \in Nat /\ d1 + y <= s1 + s2
        BY <1>2, <3>1
      <4>2. d1 + 0 <= s1 + s2
        BY <1>2
      <4> QED
        BY <1>3, <3>3, <3>4, <4>1, <4>2
    <3>6. \A x \in ToSell(after, 1), y \in ToSell(after, 2) : d1 + x + d2 + y <= s1 + s2
      BY <3>1, <3>2, <3>5
    <3>7. \A x \in ToSell(after, 1) : d1 + x <= s1
      BY <1>2, <3>2
    <3> QED
      BY <1>1, <2>3, <3>6, <3>7 DEF Kept
  <2>4. CASE hits # {} /\ hits # {1}
    <3>1. 1 \notin OpenLevels(made) /\ 2 \notin OpenLevels(made)
      BY <2>1, <2>4
    <3>2. \A k \in {1, 2} : \A x \in ToSell(after, k) : x = 0
      BY <1>3, <1>5, <1>8, <3>1
    <3> QED
      BY <1>3, <1>4, <1>6, <3>2
  <2> QED
    BY <2>2, <2>3, <2>4
<1> QED
  BY <1>7, <1>8

\* A level that gets nothing is not expected.
LEMMA NotExpected ==
    ASSUME SharesFit, NEW row, NEW lots, 2 \in OpenLevels(row), 2 \notin Expected(row, lots)
    PROVE  Gets(lots, OpenLevels(row), 2) = 0
BY DEF Expected, Gets

LEMMA ReconciledFits ==
    ASSUME PricesApart, TargetsAscend, SharesFit, LadderInv, RowComplete(leg), PlanNeedsRow,
           Kept(sold, exits, hits), NextFits(held, sold, exits, hits, leg), ~FilledUnseen, held > 0,
           NEW row \in IF leg = NoLeg THEN Recovered(exits) ELSE {leg},
           NEW made, made = Backfilled(row), NEW after, after = Ensured(made, exits, {})
    PROVE  NextFits(held, sold, after, hits, made)
<1>1. PICK s1, s2, d1, d2 \in Nat :
        /\ s1 = Share[1] /\ s2 = Share[2] /\ d1 = sold[1] /\ d2 = sold[2]
  BY BeforeReconcile
<1>2. /\ held \in 0..Lots /\ Lots \in Nat /\ d1 <= s1
      /\ hits = {} => d1 = 0 /\ d2 = 0
      /\ hits = {1} => d2 = 0
  BY <1>1, BeforeReconcile
<1>3. /\ made \in Row /\ RowComplete(made) /\ RowKnown(made) /\ hits \subseteq Levels
      /\ \A k : 0 \in ToSell(after, k) /\ \A x \in ToSell(after, k) : x \in Nat
      /\ ~made.linked => /\ \A o \in exits : \A k \in Levels : ~PlanOrder(o, k)
                         /\ \A k \in Levels : ToSell(after, k) = {0}
      /\ \A k \in {1, 2} : \A x \in ToSell(after, k) :
            \/ x = 0
            \/ x \in ToSell(exits, k) /\ (made.linked => k \in Expected(made, held))
            \/ /\ made.linked /\ k \in Expected(made, held)
               /\ x = Gets(held, OpenLevels(made), k)
               /\ made.targets[k] = PlanTargets[k] /\ mark < PlanTargets[k]
               /\ \A o \in exits : ~PlanOrder(o, k)
  BY AfterReconcile
<1>4. 1 \in {1, 2} /\ 2 \in {1, 2} /\ 1 \in Levels /\ 2 \in Levels
  BY LevelsAre
<1>5. Expected(made, held) \subseteq OpenLevels(made)
  BY DEF Expected
<1>6. SUFFICES ASSUME hits \subseteq {1}, d2 = 0, \A o \in after : ~PlanOrder(o, 2),
                      made.linked => made.targets[2] = PlanTargets[2],
                      NEW x \in ToSell(after, 1), NEW n \in Nat, NEW rest \in Nat,
                      n <= x, n + rest <= held
               PROVE  d1 + n + Gets(rest, {2, 3}, 2) <= s1 + s2
  BY <1>1 DEF NextFits, SecondIsOpen
<1>7. PICK g \in Nat : g = Gets(rest, {2, 3}, 2) /\ g <= Gets(held, {2, 3}, 2)
  <2>1. held \in Nat /\ rest <= held
    BY <1>2, <1>6
  <2> QED
    BY <2>1, GetsLess
\* If the second level had no order before either
<1>8. ASSUME \A o \in exits : ~PlanOrder(o, 2), x \in ToSell(exits, 1)
      PROVE  d1 + n + g <= s1 + s2
  <2>1. leg.linked => leg.targets[2] = PlanTargets[2]
    BY <1>4, <1>6, RowMade DEF LadderInv
  <2>2. SecondIsOpen(sold, exits, hits, leg)
    BY <1>1, <1>6, <1>8, <2>1 DEF SecondIsOpen
  <2> QED
    BY <1>1, <1>6, <1>7, <1>8, <2>2 DEF NextFits
<1>9. CASE ~made.linked
  <2>1. x = 0
    BY <1>3, <1>4, <1>9
  <2>2. \A o \in exits : ~PlanOrder(o, 2)
    BY <1>3, <1>4, <1>9
  <2> QED
    BY <1>7, <1>8, <2>1, <2>2, NothingIn
<1>10. CASE made.linked
  <2>1. /\ hits = {} => OpenLevels(made) = Levels
        /\ hits = {1} => OpenLevels(made) = {2, 3}
    BY <1>3, <1>10, OpenAre
  <2>2. hits = {} \/ hits = {1}
    BY <1>6
  <2>3. 2 \in OpenLevels(made)
    BY <1>4, <2>1, <2>2
  <2>4. CASE 2 \notin Expected(made, held)
    <3>1. Gets(held, OpenLevels(made), 2) = 0
      BY <2>3, <2>4, NotExpected
    <3>2. CASE hits = {}
      <4>1. Kept(sold, after, hits)
        BY ReconciledKept
      <4>2. d1 + x <= s1
        BY <1>1, <1>6, <4>1 DEF Kept
      <4>3. d1 = 0 /\ x \in Nat
        BY <1>2, <1>3, <3>2
      <4>4. n \in 0..s1
        BY <1>6, <4>2, <4>3
      <4>5. n + g <= s1 + s2
        BY <1>1, <1>2, <1>6, <1>7, <2>1, <3>1, <3>2, <4>4 DEF SharesFit
      <4> QED
        BY <1>7, <4>3, <4>5
    <3>3. CASE hits = {1}
      <4>1. 1 \notin OpenLevels(made)
        BY <2>1, <3>3
      <4>2. x = 0
        BY <1>3, <1>4, <1>5, <1>10, <4>1
      <4>3. g = 0 /\ n = 0
        BY <1>6, <1>7, <2>1, <3>1, <3>3, <4>2
      <4> QED
        BY <1>2, <1>7, <4>3
    <3> QED
      BY <2>2, <3>2, <3>3
  <2>5. CASE 2 \in Expected(made, held)
    <3>1. ~(mark < PlanTargets[2]) /\ \A o \in exits : ~PlanOrder(o, 2)
      BY <1>3, <1>6, <1>10, <2>5, EnsuredSecond DEF LadderInv, LadderShape
    <3>2. ~(mark < PlanTargets[1])
      <4>1. mark \in Nat /\ PlanTargets[1] \in Nat /\ PlanTargets[2] \in Nat
        BY <1>4, LadderAssumption DEF LadderAssumption, LadderInv, LadderShape
      <4> QED
        BY <3>1, <4>1 DEF TargetsAscend
    <3>3. x = 0 \/ x \in ToSell(exits, 1)
      BY <1>3, <1>4, <3>2
    <3> QED
      BY <1>7, <1>8, <3>1, <3>3, NothingIn
  <2> QED
    BY <2>4, <2>5
<1> QED
  BY <1>9, <1>10

LEMMA FitsFires ==
    ASSUME SharesFit, LadderShape, TargetsApart(exits), SecondSells(exits), ExitFires,
           NextFits(held, sold, exits, hits, leg)
    PROVE  NextFits(held', sold', exits', hits, leg)
<1>1. PICK o \in exits, m \in 0..held :
        /\ m = IF o.kind = 0 \/ o.lots > held THEN held ELSE o.lots
        /\ held > 0 /\ held' = held - m
        /\ held' # 0 => exits' = exits \ {o}
        /\ sold' = [k \in Levels |-> IF PlanOrder(o, k) THEN sold[k] + m ELSE sold[k]]
  BY FiresReads
<1>2. PICK d1, d2 \in Nat : d1 = sold[1] /\ d2 = sold[2]
  BY LevelsAre, LadderAssumption DEF LadderAssumption, LadderShape
<1>3. /\ sold'[1] = IF PlanOrder(o, 1) THEN d1 + m ELSE d1
      /\ sold'[2] = IF PlanOrder(o, 2) THEN d2 + m ELSE d2
      /\ m \in Nat /\ held \in Nat
  BY <1>1, <1>2, LevelsAre, LadderAssumption DEF LadderAssumption, LadderShape
<1>4. PICK s1, s2 \in Nat : s1 = Share[1] /\ s2 = Share[2]
  BY SharesAre
<1> SUFFICES ASSUME held' > 0, SecondIsOpen(sold', exits', hits, leg),
                    NEW x \in ToSell(exits', 1), NEW n \in Nat, NEW rest \in Nat,
                    n <= x, n + rest <= held'
             PROVE  sold'[1] + n + Gets(rest, {2, 3}, 2) <= s1 + s2
  BY <1>4 DEF NextFits
<1>5. exits' = exits \ {o}
  BY <1>1
<1>6. ~PlanOrder(o, 2) /\ d2 = 0
  <2>1. PlanOrder(o, 2) => m > 0
    <3> SUFFICES ASSUME PlanOrder(o, 2) PROVE m > 0
      OBVIOUS
    <3>1. o.lots > 0
      BY DEF SecondSells
    <3> QED
      BY <1>1, <1>3, <3>1
  <2>2. sold'[2] = 0
    BY DEF SecondIsOpen
  <2> QED
    BY <1>2, <1>3, <2>1, <2>2
<1>7. \A p \in exits : ~PlanOrder(p, 2)
  BY <1>5, <1>6 DEF SecondIsOpen
<1>8. SecondIsOpen(sold, exits, hits, leg)
  BY <1>2, <1>6, <1>7 DEF SecondIsOpen
<1>9. \A y \in ToSell(exits, 1), i, j \in Nat :
         i <= y /\ i + j <= held => d1 + i + Gets(j, {2, 3}, 2) <= s1 + s2
  BY <1>1, <1>2, <1>4, <1>8 DEF NextFits
<1>10. CASE PlanOrder(o, 1)
  <2>1. \A p \in exits' : ~PlanOrder(p, 1)
    BY <1>5, <1>10 DEF PlanOrder, TargetsApart
  <2>2. x = 0
    BY <2>1, NothingWaits
  <2>3. n = 0
    BY <2>2
  <2>4. o.lots \in ToSell(exits, 1)
    BY <1>10 DEF ToSell
  <2>5. o.kind # 0 /\ o.lots \in Nat
    BY <1>10, LadderAssumption DEF PlanOrder, LadderAssumption, LadderShape, Book, Order
  <2>6. m <= o.lots /\ m + rest <= held
    BY <1>1, <1>3, <2>3, <2>5
  <2>7. d1 + m + Gets(rest, {2, 3}, 2) <= s1 + s2
    BY <1>3, <1>9, <2>4, <2>6
  <2>8. sold'[1] + n = d1 + m
    BY <1>3, <1>10, <2>3
  <2> QED
    BY <2>7, <2>8
<1>11. CASE ~PlanOrder(o, 1)
  <2>1. x \in ToSell(exits, 1)
    BY <1>5, LessWaiting
  <2>2. n + rest <= held
    BY <1>1, <1>3
  <2> QED
    BY <1>3, <1>9, <1>11, <2>1, <2>2
<1> QED
  BY <1>10, <1>11

\* With more seen, less is open.
LEMMA FitsSeen ==
    ASSUME NEW lots, NEW done, NEW book, NEW seen, NEW row, NEW more, seen \subseteq more,
           NextFits(lots, done, book, seen, row)
    PROVE  NextFits(lots, done, book, more, row)
<1>1. SecondIsOpen(done, book, more, row) => SecondIsOpen(done, book, seen, row)
  BY DEF SecondIsOpen
<1> QED
  BY <1>1 DEF NextFits

\* The targets open_from_signal places: each for the share of its level
PlanLadder ==
    {[kind |-> k, at |-> PlanTargets[k], lots |-> Share[k]] : k \in {j \in Levels : Share[j] > 0}}

LEMMA SeenFillMakes ==
    ASSUME SharesFit, EntryFillSeen
    PROVE  \E failing \in SUBSET Calls :
              /\ leg' = PlanRow /\ Fails(failing)
              /\ exits' \subseteq exits \cup StopFor(PlanRow, exits) \cup PlanLadder
              /\ failing = {} => PlanLadder \subseteq exits'
<1>1. Priced(PlanRow) = Levels
  BY LadderAssumption DEF LadderAssumption, Priced, PlanRow, SharesFit
<1>2. Split(Lots, Priced(PlanRow)) = Share
  BY <1>1 DEF Share
<1> DEFINE ladder == {k \in Levels : Weights[k] > 0 /\ Split(Lots, Priced(PlanRow))[k] > 0}
           targets == {[kind |-> k, at |-> PlanTargets[k],
                        lots |-> Split(Lots, Priced(PlanRow))[k]] : k \in ladder}
<1>3. PICK failing \in SUBSET Calls :
        /\ Fails(failing)
        /\ exits' = exits \cup (IF "stop" \in failing THEN {} ELSE StopFor(PlanRow, exits))
                          \cup (IF failing \cap {"stop", "targets"} # {} THEN {} ELSE targets)
  BY DEF EntryFillSeen, PlanRow
<1>4. ladder = {j \in Levels : Share[j] > 0}
  BY <1>2 DEF SharesFit
<1>5. targets = PlanLadder
  <2> HIDE DEF ladder
  <2> QED
    BY <1>2, <1>4 DEF PlanLadder
<1> HIDE DEF targets
<1>6. /\ exits' \subseteq exits \cup StopFor(PlanRow, exits) \cup PlanLadder
      /\ failing = {} => PlanLadder \subseteq exits'
  BY <1>3, <1>5
<1>7. leg' = PlanRow
  BY DEF EntryFillSeen, PlanRow
<1> QED
  BY <1>3, <1>6, <1>7

LEMMA NoFaultNoFailure ==
    ASSUME LadderShape, NEW failing, Fails(failing), ladderFaults' = 0
    PROVE  failing = {} /\ ladderFaults = 0
<1>1. ladderFaults' = ladderFaults + Cardinality(failing)
  BY DEF Fails
<1>2. failing = {} \/ Cardinality(failing) = 1
  BY FS_Singleton DEF Fails
<1>3. Cardinality({}) = 0
  BY FS_EmptySet
<1>4. ladderFaults \in Nat
  BY DEF LadderShape
<1> QED
  BY <1>1, <1>2, <1>3, <1>4

LEMMA GetsNat ==
    ASSUME NEW lots \in Nat, \A k \in Levels : Weights[k] > 0
    PROVE  Gets(lots, Levels, 2) \in Nat
<1>1. PICK some : some = {j \in Levels : Split(lots, Levels)[j] > 0}
  OBVIOUS
<1>2. some \in SUBSET Weighted
  BY <1>1 DEF Weighted
<1>3. 2 \in some => Split(lots, some)[2] \in 0..lots
  BY <1>2, SplitBounds
<1>4. Gets(lots, Levels, 2) = IF 2 \in some THEN Split(lots, some)[2] ELSE 0
  BY <1>1 DEF Gets
<1> QED
  BY <1>3, <1>4

LEMMA SeenFillKept ==
    ASSUME PricesApart, SharesFit, LadderInv, EntryFillSeen
    PROVE  /\ SecondSells(exits')
           /\ ladderFaults' = 0 =>
                 Kept(sold, exits', hits) /\ NextFits(Lots, sold, exits', hits, leg')
<1>1. PICK failing \in SUBSET Calls :
              /\ Fails(failing)
              /\ exits' \subseteq exits \cup StopFor(PlanRow, exits) \cup PlanLadder
              /\ failing = {} => PlanLadder \subseteq exits'
  BY SeenFillMakes
<1>2. exits \subseteq Strays /\ \A k \in Levels : sold[k] = 0
  BY DEF EntryFillSeen, LadderInv, LadderShape
<1>3. ASSUME NEW k \in Levels, NEW o \in exits', PlanOrder(o, k)
      PROVE  o.lots = Share[k] /\ o.lots > 0
  <2>1. o \notin exits
    BY <1>2, <1>3, NoPlanAmongStrays
  <2>2. o \notin StopFor(PlanRow, exits)
    BY <1>3, LevelsAre DEF StopFor, Stop, PlanOrder
  <2>3. PICK j \in Levels : o = [kind |-> j, at |-> PlanTargets[j], lots |-> Share[j]] /\ Share[j] > 0
    BY <1>1, <2>1, <2>2 DEF PlanLadder
  <2>4. j = k
    BY <1>3, <2>3 DEF PlanOrder
  <2> QED
    BY <2>3, <2>4
<1>4. \A k \in Levels : \A x \in ToSell(exits', k) : x = 0 \/ x = Share[k]
  BY <1>3 DEF ToSell
<1>5. PICK s1, s2 \in Nat : s1 = Share[1] /\ s2 = Share[2]
  BY SharesAre
<1>6. 1 \in Levels /\ 2 \in Levels
  BY LevelsAre
<1>7. /\ \A x \in ToSell(exits', 1) : x = 0 \/ x = s1
      /\ \A y \in ToSell(exits', 2) : y = 0 \/ y = s2
      /\ sold[1] = 0 /\ sold[2] = 0
  BY <1>2, <1>4, <1>5, <1>6
<1>8. Kept(sold, exits', hits)
  <2>1. /\ \A x \in ToSell(exits', 1) : sold[1] + x <= s1
        /\ \A y \in ToSell(exits', 2) : sold[2] + y <= s2
        /\ \A x \in ToSell(exits', 1), y \in ToSell(exits', 2) :
              sold[1] + x + sold[2] + y <= s1 + s2
    BY <1>5, <1>7
  <2> QED
    BY <1>5, <2>1 DEF Kept
<1>9. SecondSells(exits')
  BY <1>3, <1>6 DEF SecondSells
<1>10. ASSUME ladderFaults' = 0 PROVE NextFits(Lots, sold, exits', hits, leg')
  <2>1. failing = {}
    BY <1>1, <1>10, NoFaultNoFailure DEF LadderInv
  <2> SUFFICES ASSUME \A o \in exits' : ~PlanOrder(o, 2),
                      NEW x \in ToSell(exits', 1), NEW n \in Nat, NEW rest \in Nat,
                      n <= x, n + rest <= Lots
               PROVE  sold[1] + n + Gets(rest, {2, 3}, 2) <= s1 + s2
    BY <1>5 DEF NextFits, SecondIsOpen
  <2>2. s2 = 0
    <3> SUFFICES ASSUME s2 > 0 PROVE FALSE
      BY <1>5
    <3>1. [kind |-> 2, at |-> PlanTargets[2], lots |-> Share[2]] \in PlanLadder
      BY <1>5, <1>6 DEF PlanLadder
    <3> QED
      BY <1>1, <2>1, <3>1 DEF PlanOrder
  <2>3. Lots \in Nat /\ Lots \in 0..Lots
    BY LadderAssumption DEF LadderAssumption
  <2>4. Gets(Lots, Levels, 2) = 0
    <3>1. Gets(Lots, Levels, 2) <= 0
      BY <1>5, <2>2, <2>3 DEF SharesFit
    <3>2. Gets(Lots, Levels, 2) \in Nat
      <4>1. \A k \in Levels : Weights[k] > 0
        BY DEF SharesFit
      <4> QED
        BY <2>3, <4>1, GetsNat
    <3> QED
      BY <3>1, <3>2
  <2>5. n \in 0..s1
    BY <1>5, <1>7
  <2>6. n + Gets(rest, {2, 3}, 2) <= s1 + s2
    BY <1>5, <2>3, <2>4, <2>5 DEF SharesFit
  <2>7. PICK g \in Nat : g = Gets(rest, {2, 3}, 2)
    <3>1. rest <= Lots
      BY <2>3
    <3> QED
      BY <2>3, <3>1, GetsLess
  <2> QED
    BY <1>7, <2>6, <2>7
<1> QED
  BY <1>8, <1>9, <1>10

LEMMA SellInvInit ==
    ASSUME PricesApart, SharesFit, LadderInit
    PROVE  SellInv
<1>1. LadderInv
  BY LadderInvInit
<1>2. held = 0 /\ exits \subseteq Strays /\ leg = NoLeg /\ \A k \in Levels : sold[k] = 0
  BY DEF LadderInit
<1>3. PlanNeedsRow
  BY <1>2 DEF PlanNeedsRow
<1>4. RowComplete(leg)
  BY <1>2, LadderAssumption DEF LadderAssumption, RowComplete, NoLeg
<1>5. ToSell(exits, 1) = {0} /\ ToSell(exits, 2) = {0}
  <2>1. 1 \in Levels /\ 2 \in Levels
    BY LevelsAre
  <2> QED
    BY <1>2, <2>1, NoPlanAmongStrays, NothingWaits
<1>6. PICK s1, s2 \in Nat : s1 = Share[1] /\ s2 = Share[2]
  BY SharesAre
<1>7. sold[1] = 0 /\ sold[2] = 0
  BY <1>2, LevelsAre
<1>8. SharesKept
  BY <1>2, <1>5, <1>6, <1>7 DEF SharesKept, Kept, NextFits
<1>9. SecondSells(exits)
  BY <1>2, LevelsAre, NoPlanAmongStrays DEF SecondSells
<1> QED
  BY <1>1, <1>3, <1>4, <1>8, <1>9 DEF SellInv

LEMMA SellReads ==
    ASSUME LadderInv', RowComplete(leg'), SecondSells(exits'),
           held' > 0 /\ (\E o \in exits' : \E k \in Levels : PlanOrder(o, k)) => leg'.linked,
           \/ ahead' \/ ladderFaults' > 0
           \/ Kept(sold', exits', hits') /\ NextFits(held', sold', exits', hits', leg')
    PROVE  SellInv'
<1>1. RowComplete(leg)'
  BY DEF RowComplete
<1>2. PlanNeedsRow'
  BY DEF PlanNeedsRow, PlanOrder
<1>3. SharesKept'
  BY DEF SharesKept, Kept, NextFits, SecondIsOpen, ToSell, PlanOrder, Share, Gets, Split, Weight
<1>4. SecondSells(exits)'
  BY DEF SecondSells, PlanOrder
<1> QED
  BY <1>1, <1>2, <1>3, <1>4 DEF SellInv

LEMMA SellInvReconcile ==
    ASSUME PricesApart, TargetsAscend, SharesFit, SellInv, LadderInv', ReconcileLeg
    PROVE  SellInv'
<1>1. /\ LadderInv /\ LadderShape /\ PlanNeedsRow /\ RowComplete(leg) /\ SharesKept
      /\ Book(exits) /\ SecondSells(exits) /\ held \in Nat
      /\ UNCHANGED <<held, hits, sold>>
  BY LadderAssumption DEF LadderAssumption, SellInv, LadderInv, LadderShape, ReconcileLeg
<1>2. CASE held = 0
  <2>1. leg' = NoLeg /\ UNCHANGED <<exits, ahead, ladderFaults>>
    BY <1>2 DEF ReconcileLeg
  <2>2. RowComplete(NoLeg)
    BY LadderAssumption DEF LadderAssumption, RowComplete, NoLeg
  <2>3. ~(held' > 0)
    BY <1>1, <1>2
  <2>4. NextFits(held', sold', exits', hits', leg')
    BY <2>3 DEF NextFits
  <2>5. \/ ahead' \/ ladderFaults' > 0
        \/ Kept(sold', exits', hits') /\ NextFits(held', sold', exits', hits', leg')
    BY <1>1, <2>1, <2>4 DEF SharesKept
  <2> QED
    BY <1>1, <2>1, <2>2, <2>3, <2>5, SellReads
<1>3. CASE held # 0
  <2>1. PICK row \in IF leg = NoLeg THEN Recovered(exits) ELSE {leg}, failing \in SUBSET Calls :
            /\ leg' = Backfilled(row)
            /\ Fails(failing)
            /\ exits' = Ensured(leg', exits, failing)
            /\ ahead' = (ahead \/ FilledUnseen)
    BY <1>3 DEF ReconcileLeg
  <2>2. PICK made : made = leg'
    OBVIOUS
  <2>3. /\ made \in Row /\ RowComplete(made) /\ made = Backfilled(row)
        /\ ~made.linked => \A o \in exits : \A k \in Levels : ~PlanOrder(o, k)
    BY <1>1, <1>3, <2>1, <2>2, RowMade
  <2>4. made.linked \/ \A o \in exits' : \A k \in Levels : ~PlanOrder(o, k)
    BY <1>1, <2>1, <2>2, <2>3, EnsuredUnlinked
  <2>5. SecondSells(exits')
    <3>1. CASE made.linked
      BY <1>1, <2>1, <2>2, <2>3, <3>1, EnsuredSells
    <3>2. CASE ~made.linked
      BY <2>4, <3>2, LevelsAre DEF SecondSells
    <3> QED
      BY <3>1, <3>2
  <2>6. ladderFaults' \in Nat
    BY DEF LadderInv, LadderShape
  <2>7. \/ ahead' \/ ladderFaults' > 0
        \/ Kept(sold', exits', hits') /\ NextFits(held', sold', exits', hits', leg')
    <3> SUFFICES ASSUME ~ahead', ladderFaults' = 0
                 PROVE  Kept(sold', exits', hits') /\ NextFits(held', sold', exits', hits', leg')
      BY <2>6
    <3>1. ~ahead /\ ~FilledUnseen /\ failing = {} /\ ladderFaults = 0
      BY <1>1, <2>1, NoFaultNoFailure
    <3>2. Kept(sold, exits, hits) /\ NextFits(held, sold, exits, hits, leg)
      BY <1>1, <3>1 DEF SharesKept
    <3>3. PICK after : after = Ensured(made, exits, {})
      OBVIOUS
    <3>4. Kept(sold, after, hits)
      BY <1>1, <1>3, <2>3, <3>1, <3>2, <3>3, ReconciledKept
    <3>5. NextFits(held, sold, after, hits, made)
      BY <1>1, <1>3, <2>3, <3>1, <3>2, <3>3, ReconciledFits
    <3>6. exits' = after /\ leg' = made
      BY <2>1, <2>2, <3>1, <3>3
    <3> QED
      BY <1>1, <3>4, <3>5, <3>6
  <2> QED
    BY <2>2, <2>3, <2>4, <2>5, <2>7, SellReads
<1> QED
  BY <1>2, <1>3

LEMMA SellInvStep ==
    ASSUME PricesApart, TargetsAscend, SharesFit, SellInv, [LadderNext]_ladderVars
    PROVE  SellInv'
<1>1. /\ LadderInv /\ LadderInv' /\ LadderShape /\ PlanNeedsRow /\ RowComplete(leg) /\ SharesKept
      /\ SecondSells(exits) /\ TargetsApart(exits)
  BY LadderInvStep DEF SellInv, LadderInv
<1>2. RowComplete(NoLeg)
  BY LadderAssumption DEF LadderAssumption, RowComplete, NoLeg
<1>3. exits' \subseteq exits => SecondSells(exits')
  BY <1>1 DEF SecondSells
<1>4. CASE EntryFills
  <2>1. /\ exits \subseteq Strays /\ UNCHANGED <<exits, leg, hits, sold, ahead, ladderFaults>>
        /\ held' = Lots /\ \A k \in Levels : sold[k] = 0
    BY <1>1, <1>4 DEF EntryFills, LadderShape
  <2>2. \A o \in exits' : \A k \in Levels : ~PlanOrder(o, k)
    BY <2>1, NoPlanAmongStrays
  <2>3. 1 \in Levels /\ ToSell(exits', 1) = {0} /\ sold'[1] = 0
    BY <2>1, <2>2, LevelsAre, NothingWaits
  <2>4. PICK s1, s2 \in Nat : s1 = Share[1] /\ s2 = Share[2]
    BY SharesAre
  <2>5. ASSUME NEW x \in ToSell(exits', 1), NEW n \in Nat, NEW rest \in Nat,
               n <= x, n + rest <= Lots
        PROVE  sold'[1] + n + Gets(rest, {2, 3}, 2) <= s1 + s2
    <3>1. n = 0 /\ rest \in 0..Lots /\ Lots \in Nat
      BY <2>3, <2>5, LadderAssumption DEF LadderAssumption
    <3>2. PICK g \in Nat : g = Gets(rest, {2, 3}, 2)
      BY <3>1, GetsLess
    <3>3. g <= s1 + s2
      BY <2>4, <3>1, <3>2 DEF SharesFit
    <3> QED
      BY <2>3, <3>1, <3>2, <3>3
  <2>6. NextFits(held', sold', exits', hits', leg')
    BY <2>1, <2>4, <2>5 DEF NextFits
  <2>7. \/ ahead' \/ ladderFaults' > 0
        \/ Kept(sold', exits', hits') /\ NextFits(held', sold', exits', hits', leg')
    BY <1>1, <2>1, <2>6 DEF SharesKept
  <2> QED
    BY <1>1, <1>3, <2>1, <2>2, <2>7, SellReads
<1>5. CASE EntryFillSeen
  <2>1. leg' = PlanRow /\ held' = Lots /\ UNCHANGED <<hits, sold>>
    BY <1>1, <1>5, SeenFillBook DEF EntryFillSeen
  <2>2. RowComplete(PlanRow) /\ PlanRow.linked
    BY LadderAssumption DEF LadderAssumption, RowComplete, PlanRow
  <2>3. ladderFaults' \in Nat
    BY <1>1 DEF LadderInv, LadderShape
  <2>4. SecondSells(exits') /\ (ladderFaults' = 0 =>
              Kept(sold', exits', hits') /\ NextFits(held', sold', exits', hits', leg'))
    BY <1>1, <1>5, <2>1, SeenFillKept
  <2>5. \/ ahead' \/ ladderFaults' > 0
        \/ Kept(sold', exits', hits') /\ NextFits(held', sold', exits', hits', leg')
    BY <2>3, <2>4
  <2> QED
    BY <1>1, <2>1, <2>2, <2>4, <2>5, SellReads
<1>6. CASE ExitFires
  <2>1. exits' \subseteq exits /\ held > 0 /\ UNCHANGED <<leg, hits, ahead, ladderFaults>>
    BY <1>6 DEF ExitFires, BookOf
  <2>2. Kept(sold, exits, hits) => Kept(sold', exits', hits)
    BY <1>1, <1>6, KeptFires
  <2>3. NextFits(held, sold, exits, hits, leg) => NextFits(held', sold', exits', hits, leg)
    BY <1>1, <1>6, FitsFires
  <2>4. \/ ahead' \/ ladderFaults' > 0
        \/ Kept(sold', exits', hits') /\ NextFits(held', sold', exits', hits', leg')
    BY <1>1, <2>1, <2>2, <2>3 DEF SharesKept
  <2>5. (\E o \in exits' : \E k \in Levels : PlanOrder(o, k)) => leg'.linked
    BY <1>1, <2>1 DEF PlanNeedsRow
  <2> QED
    BY <1>1, <1>3, <2>1, <2>4, <2>5, SellReads
<1>7. CASE MarkMoves \/ UNCHANGED ladderVars
  <2>1. UNCHANGED <<held, exits, leg, hits, sold, ahead, ladderFaults>>
    BY <1>7 DEF MarkMoves, ladderVars
  <2>2. \/ ahead' \/ ladderFaults' > 0
        \/ Kept(sold', exits', hits') /\ NextFits(held', sold', exits', hits', leg')
    BY <1>1, <2>1 DEF SharesKept
  <2>3. held' > 0 /\ (\E o \in exits' : \E k \in Levels : PlanOrder(o, k)) => leg'.linked
    BY <1>1, <2>1 DEF PlanNeedsRow
  <2> QED
    BY <1>1, <1>3, <2>1, <2>2, <2>3, SellReads
<1>8. CASE TickSees
  <2>1. hits \subseteq hits' /\ UNCHANGED <<held, exits, leg, sold, ahead, ladderFaults>>
    BY <1>8 DEF TickSees
  <2>2. Kept(sold, exits, hits) => Kept(sold, exits, hits')
    BY <2>1, KeptFewer
  <2>3. NextFits(held, sold, exits, hits, leg) => NextFits(held, sold, exits, hits', leg)
    BY <2>1, FitsSeen
  <2>4. \/ ahead' \/ ladderFaults' > 0
        \/ Kept(sold', exits', hits') /\ NextFits(held', sold', exits', hits', leg')
    BY <1>1, <2>1, <2>2, <2>3 DEF SharesKept
  <2>5. held' > 0 /\ (\E o \in exits' : \E k \in Levels : PlanOrder(o, k)) => leg'.linked
    BY <1>1, <2>1 DEF PlanNeedsRow
  <2> QED
    BY <1>1, <1>3, <2>1, <2>4, <2>5, SellReads
<1>9. CASE CloseHandled
  <2>1. /\ exits' \subseteq exits /\ UNCHANGED <<hits, sold, ahead, ladderFaults>>
        /\ (leg' = NoLeg /\ held' = 0) \/ UNCHANGED <<leg, held, exits>>
    BY <1>9 DEF CloseHandled, BookOf
  <2>2. Kept(sold, exits, hits) => Kept(sold, exits', hits)
    BY <2>1, KeptFewer
  <2>3. NextFits(held, sold, exits, hits, leg) => NextFits(held', sold', exits', hits', leg')
    <3>1. CASE held' = 0
      BY <3>1 DEF NextFits
    <3>2. CASE UNCHANGED <<leg, held, exits>>
      BY <2>1, <3>2
    <3> QED
      BY <2>1, <3>1, <3>2
  <2>4. \/ ahead' \/ ladderFaults' > 0
        \/ Kept(sold', exits', hits') /\ NextFits(held', sold', exits', hits', leg')
    BY <1>1, <2>1, <2>2, <2>3 DEF SharesKept
  <2>5. held' > 0 /\ (\E o \in exits' : \E k \in Levels : PlanOrder(o, k)) => leg'.linked
    BY <1>1, <2>1 DEF PlanNeedsRow
  <2>6. RowComplete(leg')
    BY <1>1, <1>2, <2>1
  <2> QED
    BY <1>1, <1>3, <2>1, <2>4, <2>5, <2>6, SellReads
<1>10. CASE ReconcileLeg
  BY <1>1, <1>10, SellInvReconcile
<1> QED
  BY <1>4, <1>5, <1>6, <1>7, <1>8, <1>9, <1>10 DEF LadderNext

LEMMA SharesHold ==
    ASSUME SharesFit, SellInv
    PROVE  TargetsSellTheirShare
<1>1. LadderShape /\ SharesKept
  BY DEF SellInv, LadderInv
<1> SUFFICES ASSUME ~ahead, ~(ladderFaults > 0), NEW k \in Levels
             PROVE  SumFunctionOnSet(sold, 1..k) <= SumFunctionOnSet(Share, 1..k)
  <2>1. {j \in Levels : Weights[j] > 0} = Levels
    BY DEF SharesFit
  <2> QED
    BY <2>1 DEF TargetsSellTheirShare, Share
<1>2. PICK s1, s2 \in Nat : /\ s1 = Share[1] /\ s2 = Share[2]
                            /\ SumFunctionOnSet(Share, 1..1) = s1
                            /\ SumFunctionOnSet(Share, 1..2) = s1 + s2
                            /\ SumFunctionOnSet(Share, 1..3) = Lots
  BY SharesAre
<1>3. PICK d1, d2, d3 \in Nat : /\ d1 = sold[1] /\ d2 = sold[2] /\ d3 = sold[3]
                                /\ d1 + d2 + d3 <= Lots
  <2>1. sold[1] \in 0..Lots /\ sold[2] \in 0..Lots /\ sold[3] \in 0..Lots /\ Lots \in Nat
        /\ held \in 0..Lots /\ held + sold[1] + sold[2] + sold[3] <= Lots
    BY <1>1, LevelsAre, LadderAssumption DEF LadderAssumption, LadderShape
  <2> QED
    BY <2>1
<1>4. /\ SumFunctionOnSet(sold, 1..1) = d1 /\ SumFunctionOnSet(sold, 1..2) = d1 + d2
      /\ SumFunctionOnSet(sold, 1..3) = d1 + d2 + d3
  <2>1. 1..1 = {1} /\ 1..2 = {1, 2} /\ 1..3 = {1, 2, 3}
    OBVIOUS
  <2>2. /\ SumFunctionOnSet(sold, {1}) = d1 /\ SumFunctionOnSet(sold, {1, 2}) = d1 + d2
        /\ SumFunctionOnSet(sold, {1, 2, 3}) = d1 + d2 + d3
    BY <1>3, LevelSums
  <2> QED
    BY <2>1, <2>2
<1>5. d1 <= s1 /\ d1 + d2 <= s1 + s2
  <2>1. Kept(sold, exits, hits)
    BY <1>1 DEF SharesKept
  <2>2. 0 \in ToSell(exits, 1) /\ 0 \in ToSell(exits, 2)
    BY DEF ToSell
  <2>3. d1 + 0 <= s1 /\ d1 + 0 + d2 + 0 <= s1 + s2
    BY <1>2, <1>3, <2>1, <2>2 DEF Kept
  <2> QED
    BY <2>3
<1>6. k = 1 \/ k = 2 \/ k = 3
  BY LevelsAre
<1> QED
  BY <1>2, <1>3, <1>4, <1>5, <1>6

\* The shares of the code, and of .env.example
LEMMA DefaultSharesFit ==
    ASSUME Weights = <<5, 3, 2>>, Lots # 3
    PROVE  SharesFit
<1>1. Lots \in Nat /\ \A k \in Levels : Weights[k] > 0
  BY LevelsAre, LadderAssumption DEF LadderAssumption
<1>2. ASSUME NEW lots \in Nat
      PROVE  /\ Gets(lots, {2, 3}, 2) = (lots * 3) \div 5
             /\ Gets(lots, Levels, 1) = IF (lots * 5) \div 10 = 0 THEN 0 ELSE
                   IF (lots * 3) \div 10 = 0 THEN (lots * 5) \div 7 ELSE (lots * 5) \div 10
             /\ Gets(lots, Levels, 2) = IF (lots * 3) \div 10 = 0 THEN 0 ELSE
                   IF (lots * 5) \div 10 = 0 THEN (lots * 3) \div 5 ELSE (lots * 3) \div 10
  <2>1. Weights[1] = 5 /\ Weights[2] = 3 /\ Weights[3] = 2
    OBVIOUS
  <2>2. PICK one, two : /\ one = (lots * Weights[1]) \div (Weights[1] + Weights[2] + Weights[3])
                        /\ two = (lots * Weights[2]) \div (Weights[1] + Weights[2] + Weights[3])
    OBVIOUS
  <2>3. one = (lots * 5) \div 10 /\ two = (lots * 3) \div 10
    BY <2>1, <2>2
  <2>4. PICK part, near : /\ part = (lots * Weights[2]) \div (Weights[2] + Weights[3])
                          /\ near = (lots * Weights[1]) \div (Weights[1] + Weights[3])
    OBVIOUS
  <2>5. part = (lots * 3) \div 5 /\ near = (lots * 5) \div 7
    BY <2>1, <2>4
  <2>6. /\ Gets(lots, {2, 3}, 2) = part
        /\ Gets(lots, Levels, 1) = IF one = 0 THEN 0 ELSE IF two = 0 THEN near ELSE one
        /\ Gets(lots, Levels, 2) = IF two = 0 THEN 0 ELSE IF one = 0 THEN part ELSE two
    BY <1>1, <2>2, <2>4, GetsAre, Zenon
  <2> QED
    BY <2>3, <2>5, <2>6
<1>3. Share[1] = (Lots * 5) \div 10 /\ Share[2] = (Lots * 3) \div 10
  <2>1. Weights[1] + Weights[2] + Weights[3] = 10 /\ Weights[1] = 5 /\ Weights[2] = 3
    OBVIOUS
  <2> QED
    BY <1>1, <2>1, SplitsAre DEF Share
<1>4. PICK s1, s2 \in Nat : /\ s1 = Share[1] /\ s2 = Share[2]
                            /\ s1 = (Lots * 5) \div 10 /\ s2 = (Lots * 3) \div 10
  BY <1>1, <1>3
<1>5. ASSUME NEW lots \in 0..Lots
      PROVE  Gets(lots, Levels, 1) <= s1 /\ Gets(lots, Levels, 2) <= s2
             /\ Gets(lots, {2, 3}, 2) <= s1 + s2
  BY <1>1, <1>2, <1>4
<1>6. ASSUME NEW lots \in 0..Lots, Gets(lots, Levels, 2) = 0, NEW done \in 0..s1, NEW rest \in Nat,
             done + rest <= lots
      PROVE  done + Gets(rest, {2, 3}, 2) <= s1 + s2
  BY <1>1, <1>2, <1>4, <1>6
<1> QED
  BY <1>1, <1>4, <1>5, <1>6 DEF SharesFit

LEMMA ExampleSharesFit ==
    ASSUME Weights = <<4, 3, 3>>, Lots # 2, Lots # 3
    PROVE  SharesFit
<1>1. Lots \in Nat /\ \A k \in Levels : Weights[k] > 0
  BY LevelsAre, LadderAssumption DEF LadderAssumption
<1>2. ASSUME NEW lots \in Nat
      PROVE  /\ Gets(lots, {2, 3}, 2) = (lots * 3) \div 6
             /\ Gets(lots, Levels, 1) = IF (lots * 4) \div 10 = 0 THEN 0 ELSE
                   IF (lots * 3) \div 10 = 0 THEN (lots * 4) \div 7 ELSE (lots * 4) \div 10
             /\ Gets(lots, Levels, 2) = IF (lots * 3) \div 10 = 0 THEN 0 ELSE
                   IF (lots * 4) \div 10 = 0 THEN (lots * 3) \div 6 ELSE (lots * 3) \div 10
  <2>1. Weights[1] = 4 /\ Weights[2] = 3 /\ Weights[3] = 3
    OBVIOUS
  <2>2. PICK one, two : /\ one = (lots * Weights[1]) \div (Weights[1] + Weights[2] + Weights[3])
                        /\ two = (lots * Weights[2]) \div (Weights[1] + Weights[2] + Weights[3])
    OBVIOUS
  <2>3. one = (lots * 4) \div 10 /\ two = (lots * 3) \div 10
    BY <2>1, <2>2
  <2>4. PICK part, near : /\ part = (lots * Weights[2]) \div (Weights[2] + Weights[3])
                          /\ near = (lots * Weights[1]) \div (Weights[1] + Weights[3])
    OBVIOUS
  <2>5. part = (lots * 3) \div 6 /\ near = (lots * 4) \div 7
    BY <2>1, <2>4
  <2>6. /\ Gets(lots, {2, 3}, 2) = part
        /\ Gets(lots, Levels, 1) = IF one = 0 THEN 0 ELSE IF two = 0 THEN near ELSE one
        /\ Gets(lots, Levels, 2) = IF two = 0 THEN 0 ELSE IF one = 0 THEN part ELSE two
    BY <1>1, <2>2, <2>4, GetsAre, Zenon
  <2> QED
    BY <2>3, <2>5, <2>6
<1>3. Share[1] = (Lots * 4) \div 10 /\ Share[2] = (Lots * 3) \div 10
  <2>1. Weights[1] + Weights[2] + Weights[3] = 10 /\ Weights[1] = 4 /\ Weights[2] = 3
    OBVIOUS
  <2> QED
    BY <1>1, <2>1, SplitsAre DEF Share
<1>4. PICK s1, s2 \in Nat : /\ s1 = Share[1] /\ s2 = Share[2]
                            /\ s1 = (Lots * 4) \div 10 /\ s2 = (Lots * 3) \div 10
  BY <1>1, <1>3
<1>5. ASSUME NEW lots \in 0..Lots
      PROVE  Gets(lots, Levels, 1) <= s1 /\ Gets(lots, Levels, 2) <= s2
             /\ Gets(lots, {2, 3}, 2) <= s1 + s2
  BY <1>1, <1>2, <1>4
<1>6. ASSUME NEW lots \in 0..Lots, Gets(lots, Levels, 2) = 0, NEW done \in 0..s1, NEW rest \in Nat,
             done + rest <= lots
      PROVE  done + Gets(rest, {2, 3}, 2) <= s1 + s2
  BY <1>1, <1>2, <1>4, <1>6
<1> QED
  BY <1>1, <1>4, <1>5, <1>6 DEF SharesFit

\* When a target is reached, no more of the entry has been sold than the shares of
\* the targets up to it: for any plan with its targets in order, any orders of an
\* earlier trade at other prices, and whatever the market and the tick do first, if
\* splitting what is left anew gives the nearer levels no more than they had
\* (open_from_signal, _expected_tp_levels_for_row, _ensure_take_profits_for_row).
THEOREM TargetsKeepShares ==
    ASSUME PricesApart, TargetsAscend, SharesFit
    PROVE  LadderSpec => []TargetsSellTheirShare
<1>1. SellInv => TargetsSellTheirShare
  BY SharesHold
<1>2. LadderInit => SellInv
  BY SellInvInit
<1>3. SellInv /\ [LadderNext]_ladderVars => SellInv'
  BY SellInvStep
<1> QED
  BY <1>1, <1>2, <1>3, PTL DEF LadderSpec

\* The same for the shares the code has by default and those of .env.example, and a
\* position of any size but the smallest: of two or three lots the rounding gives all
\* or most to the last target, and a later split gives a nearer one what it never had.
THEOREM DeployedTargetsKeepShares ==
    ASSUME PricesApart, TargetsAscend,
           \/ Weights = <<5, 3, 2>> /\ Lots # 3
           \/ Weights = <<4, 3, 3>> /\ Lots # 2 /\ Lots # 3
    PROVE  LadderSpec => []TargetsSellTheirShare
BY DefaultSharesFit, ExampleSharesFit, TargetsKeepShares

-----------------------------------------------------------------------------
(* Limits                                                                  *)

\* The rows that handlers opened
OwnRows == {s \in Symbols : positions[s].open /\ ~positions[s].recovered}

RowCount == Cardinality(OwnRows) <= MaxOpen

RowRisk ==
    OwnRows # {} => RiskOfRows(OwnRows) - checked.risk
                      <= RiskCap(checked.equity) - TradeRisk(checked.equity)

\* At market nothing rests, and only a lost answer leaves a position without a row.
MarketFound ==
    settings.style = "market" /\ lostAnswers = 0 =>
        /\ \A s \in Symbols : entryOrders[s].state = "none"
        /\ \A s \in holdings : positions[s].open
        /\ \A s \in Symbols : ~positions[s].recovered

LimitInv ==
    /\ LimitTypeOK
    /\ \A s \in Symbols : positions[s].recovered => positions[s].open
    /\ RowCount
    /\ RowRisk
    /\ MarketFound

-----------------------------------------------------------------------------
LEMMA ProductGrows ==
    ASSUME NEW a \in Nat, NEW b \in Nat, NEW c \in Nat, b <= c
    PROVE  a * b \in Nat /\ a * b <= a * c
<1>1. PICK d \in Nat : c = b + d
  <2>1. c - b \in Nat /\ c = b + (c - b)
    OBVIOUS
  <2> QED
    BY <2>1
<1>2. a * c = a * b + a * d
  BY <1>1
<1>3. a * b \in Nat /\ a * d \in Nat
  OBVIOUS
<1> QED
  BY <1>2, <1>3

LEMMA ShareOfRisk ==
    ASSUME NEW risk \in Nat, NEW share \in Nat
    PROVE  (risk * share) \div 100 \in Nat
<1>1. 0 <= share
  OBVIOUS
<1>2. risk * share \in Nat
  <2>1. risk * 0 \in Nat /\ risk * 0 <= risk * share
    BY <1>1, ProductGrows
  <2> QED
    BY <2>1
<1> QED
  BY <1>2

LEMMA RowsFinite ==
    /\ IsFiniteSet(Symbols) /\ IsFiniteSet(OpenRows) /\ IsFiniteSet(OwnRows)
    /\ OwnRows \subseteq OpenRows /\ OpenRows \subseteq Symbols
<1>1. IsFiniteSet(Symbols) /\ OpenRows \subseteq Symbols /\ OwnRows \subseteq OpenRows
  BY LimitAssumption DEF LimitAssumption, OpenRows, OwnRows
<1> QED
  BY <1>1, FS_Subset

LEMMA EquityIsInt == LimitTypeOK => Equity \in Int
<1> SUFFICES ASSUME LimitTypeOK PROVE Equity \in Int
  OBVIOUS
<1> DEFINE S == holdings \cup RestingEntries
<1>1. IsFiniteSet(S)
  <2>1. S \subseteq Symbols
    BY DEF LimitTypeOK, RestingEntries
  <2> QED
    BY <2>1, LimitAssumption, FS_Subset DEF LimitAssumption
<1>2. PICK n \in Nat : n = Cardinality(S)
  BY <1>1, FS_CardinalityType
<1>3. wallet \in Nat /\ Margin \in Nat
  BY LimitAssumption DEF LimitAssumption, LimitTypeOK
<1>4. wallet - Margin * n \in Int
  BY <1>3
<1> QED
  BY <1>2, <1>4 DEF Equity

LEMMA MultiplierBounds ==
    ASSUME LimitTypeOK, NEW s \in Symbols, Evaluate(s)
    PROVE  RiskMultiplier \in 0..100
<1>1. /\ Equity \in Int /\ Equity > 0 /\ peakEquity \in Nat /\ settings.deRisk \in BOOLEAN
      /\ peakEquity' = IF settings.deRisk /\ Equity > peakEquity THEN Equity ELSE peakEquity
  BY EquityIsInt DEF Evaluate, LimitTypeOK
<1>2. CASE settings.deRisk /\ ~(Drawdown <= 10) /\ ~(Drawdown >= 30)
  <2>1. peakEquity' \in Nat \ {0} /\ peakEquity' - Equity \in Nat
    BY <1>1, <1>2
  <2>2. PICK d, p \in Nat : d = peakEquity' - Equity /\ p = peakEquity' /\ p > 0
    BY <2>1
  <2>3. (100 * d) \div p \in Int
    BY <2>2
  <2>4. PICK down \in Int : down = Drawdown
    BY <2>2, <2>3 DEF Drawdown
  <2>5. 100 - (75 * (down - 10)) \div 20 \in 0..100
    BY <1>2, <2>4
  <2> QED
    BY <1>2, <2>4, <2>5 DEF RiskMultiplier
<1>3. CASE ~(settings.deRisk /\ ~(Drawdown <= 10) /\ ~(Drawdown >= 30))
  BY <1>3 DEF RiskMultiplier
<1> QED
  BY <1>2, <1>3

LEMMA PlannedRiskIsNat ==
    ASSUME LimitTypeOK, NEW s \in Symbols, Evaluate(s)
    PROVE  PlannedRisk \in Nat
<1>1. PICK equity \in Nat : equity = Equity
  BY EquityIsInt DEF Evaluate
<1>2. PICK share \in Nat : share = RiskPerTrade
  BY LimitAssumption DEF LimitAssumption
<1>3. PICK risk \in Nat : risk = TradeRisk(equity)
  BY <1>2, ShareOfRisk DEF TradeRisk
<1>4. PICK multiplier \in Nat : multiplier = RiskMultiplier
  BY MultiplierBounds
<1> QED
  BY <1>1, <1>3, <1>4, ShareOfRisk DEF PlannedRisk

\* A row that goes lowers the number and the risk.
LEMMA FewerRows ==
    ASSUME LimitTypeOK, RowCount, RowRisk, OwnRows' \subseteq OwnRows, checked' = checked,
           \A s \in OwnRows' : positions'[s].risk = positions[s].risk
    PROVE  RowCount' /\ RowRisk'
<1>1. /\ IsFiniteSet(OwnRows) /\ OwnRows \subseteq Symbols /\ IsFiniteSet(OwnRows')
      /\ checked.equity \in Nat /\ checked.risk \in Nat
  BY RowsFinite, FS_Subset DEF LimitTypeOK
<1>2. RowCount'
  <2>1. Cardinality(OwnRows') <= Cardinality(OwnRows)
    BY <1>1, FS_Subset
  <2>2. Cardinality(OwnRows') \in Nat /\ Cardinality(OwnRows) \in Nat
    BY <1>1, FS_CardinalityType
  <2> QED
    BY <2>1, <2>2, LimitAssumption DEF RowCount, LimitAssumption
<1>3. RowRisk'
  <2> SUFFICES ASSUME OwnRows' # {}
               PROVE  RiskOfRows(OwnRows)' - checked.risk
                        <= RiskCap(checked.equity) - TradeRisk(checked.equity)
    BY DEF RowRisk, RiskCap, TradeRisk
  <2> DEFINE f == [s \in Symbols |-> positions[s].risk]
             g == [s \in Symbols |-> positions'[s].risk]
  <2>1. (\A s \in OwnRows : f[s] \in Nat) /\ (\A s \in OwnRows' : f[s] = g[s])
    BY <1>1 DEF LimitTypeOK
  <2>2. RiskOfRows(OwnRows) = SumFunctionOnSet(f, OwnRows)
        /\ RiskOfRows(OwnRows)' = SumFunctionOnSet(g, OwnRows')
    BY DEF RiskOfRows
  <2> HIDE DEF f, g
  <2>3. PICK own, less : own = OwnRows /\ less = OwnRows'
    OBVIOUS
  <2>4. /\ SumFunctionOnSet(f, less) \in Nat
        /\ SumFunctionOnSet(f, less) <= SumFunctionOnSet(f, own)
        /\ SumFunctionOnSet(f, own) \in Nat
    <3>1. less \in SUBSET own /\ own \in SUBSET own /\ IsFiniteSet(own)
          /\ \A s \in own : f[s] \in Nat
      BY <1>1, <2>1, <2>3
    <3> QED
      BY <3>1, SumSubset
  <2>5. SumFunctionOnSet(f, less) = SumFunctionOnSet(g, less)
    BY <1>1, <2>1, <2>3, SumSame
  <2>6. SumFunctionOnSet(f, own) - checked.risk
          <= RiskCap(checked.equity) - TradeRisk(checked.equity)
    BY <2>2, <2>3 DEF RowRisk
  <2>7. RiskCap(checked.equity) \in Int /\ TradeRisk(checked.equity) \in Int
    <3>1. checked.equity * RiskLimit \in Int /\ checked.equity * RiskPerTrade \in Int
      BY <1>1, LimitAssumption DEF LimitAssumption
    <3> QED
      BY <3>1 DEF RiskCap, TradeRisk
  <2> QED
    BY <1>1, <2>2, <2>3, <2>4, <2>5, <2>6, <2>7
<1> QED
  BY <1>2, <1>3

\* The row of a handler, whatever it was planned at
LEMMA RowLetIn ==
    ASSUME LimitInv, NEW s \in Symbols, NEW planned \in Nat, LetIn(s), OpenRow(s, planned)
    PROVE  /\ RowCount' /\ RowRisk'
           /\ positions' \in [Symbols -> [open : BOOLEAN, recovered : BOOLEAN, risk : Nat]]
           /\ positions'[s].open /\ ~positions'[s].recovered
           /\ \A r \in Symbols \ {s} : positions'[r] = positions[r]
           /\ checked' \in [equity : Nat, risk : Nat]
<1>1. /\ LimitTypeOK /\ WithinLimits /\ ~positions[s].open
      /\ Equity \in Int /\ Equity > 0
  BY EquityIsInt DEF LimitInv, LetIn, Evaluate
<1>2. PICK equity \in Nat : equity = Equity
  BY <1>1
<1>3. PICK trade, cap \in Int : trade = TradeRisk(equity) /\ cap = RiskCap(equity)
  <2>1. equity * RiskPerTrade \in Nat /\ equity * RiskLimit \in Nat
    BY LimitAssumption DEF LimitAssumption
  <2> QED
    BY <2>1 DEF TradeRisk, RiskCap
<1>4. PICK risk \in Nat : /\ positions' = [positions EXCEPT ![s] = Opened(FALSE, risk)]
                          /\ checked' = [equity |-> Equity, risk |-> risk]
  <2>1. PICK fill \in Fills :
            /\ positions' = [positions EXCEPT ![s] = Opened(FALSE, (planned * fill) \div 100)]
            /\ checked' = [equity |-> Equity, risk |-> (planned * fill) \div 100]
    BY DEF OpenRow
  <2>2. fill \in Nat
    BY LimitAssumption DEF LimitAssumption
  <2>3. (planned * fill) \div 100 \in Nat
    BY <2>2, ShareOfRisk
  <2> QED
    BY <2>1, <2>3
<1>5. /\ positions'[s].open = TRUE /\ positions'[s].recovered = FALSE
      /\ positions'[s].risk = risk
      /\ positions' \in [Symbols -> [open : BOOLEAN, recovered : BOOLEAN, risk : Nat]]
      /\ \A r \in Symbols \ {s} : positions'[r] = positions[r]
  BY <1>1, <1>4 DEF LimitTypeOK, Opened
<1>6. checked' \in [equity : Nat, risk : Nat]
  BY <1>2, <1>4
<1>7. s \notin OwnRows /\ s \notin OpenRows /\ OwnRows' = OwnRows \cup {s}
  BY <1>1, <1>5 DEF OwnRows, OpenRows
<1>8. PICK own, rows : own = OwnRows /\ rows = OpenRows
  OBVIOUS
<1>9. IsFiniteSet(own) /\ IsFiniteSet(rows) /\ own \subseteq rows /\ rows \subseteq Symbols
      /\ s \notin own
  BY <1>7, <1>8, RowsFinite
<1>10. RowCount'
  <2>1. Cardinality(own \cup {s}) = Cardinality(own) + 1 /\ Cardinality(own) <= Cardinality(rows)
    BY <1>9, FS_AddElement, FS_Subset
  <2>2. Cardinality(own) \in Nat /\ Cardinality(rows) \in Nat /\ Cardinality(rows) < MaxOpen
    BY <1>1, <1>8, <1>9, FS_CardinalityType DEF WithinLimits
  <2>3. MaxOpen \in Nat
    BY LimitAssumption DEF LimitAssumption
  <2> QED
    BY <1>7, <1>8, <2>1, <2>2, <2>3 DEF RowCount
<1>11. RowRisk'
  <2> DEFINE f == [r \in Symbols |-> positions[r].risk]
             g == [r \in Symbols |-> positions'[r].risk]
  <2>1. /\ \A r \in rows : f[r] \in Nat
        /\ \A r \in own : f[r] = g[r] /\ g[r] \in Int
        /\ g[s] = risk
    BY <1>1, <1>5, <1>9 DEF LimitTypeOK
  <2>2. /\ RiskOfRows(OpenRows) = SumFunctionOnSet(f, rows)
        /\ RiskOfRows(OwnRows)' = SumFunctionOnSet(g, own \cup {s})
    BY <1>7, <1>8 DEF RiskOfRows
  <2> HIDE DEF f, g
  <2>3. /\ SumFunctionOnSet(f, own) \in Nat
        /\ SumFunctionOnSet(f, own) <= SumFunctionOnSet(f, rows)
    BY <1>9, <2>1, SumSubset
  <2>4. SumFunctionOnSet(f, rows) \in Nat
    <3>1. rows \in SUBSET rows
      OBVIOUS
    <3> QED
      BY <1>9, <2>1, <3>1, SumSubset
  <2>5. SumFunctionOnSet(g, own \cup {s}) = risk + SumFunctionOnSet(g, own)
    BY <1>9, <2>1, SumWithout
  <2>6. SumFunctionOnSet(f, own) = SumFunctionOnSet(g, own)
    BY <1>9, <2>1, SumSame
  <2>7. SumFunctionOnSet(f, rows) + trade <= cap
    BY <1>1, <1>2, <1>3, <2>2 DEF WithinLimits
  <2>8. SumFunctionOnSet(g, own \cup {s}) - risk <= cap - trade
    BY <1>3, <2>3, <2>4, <2>5, <2>6, <2>7
  <2>9. /\ RiskCap(checked.equity)' = cap /\ TradeRisk(checked.equity)' = trade
        /\ checked'.risk = risk
    BY <1>2, <1>3, <1>4 DEF RiskCap, TradeRisk
  <2> QED
    BY <2>2, <2>8, <2>9 DEF RowRisk
<1> QED
  BY <1>5, <1>6, <1>10, <1>11

LEMMA LimitInvInit == LimitInit => LimitInv
<1> SUFFICES ASSUME LimitInit PROVE LimitInv
  OBVIOUS
<1>1. /\ \A s \in Symbols : /\ ~positions[s].open /\ ~positions[s].recovered
                            /\ entryOrders[s].state = "none"
      /\ holdings = {}
  BY DEF LimitInit, NoPosition, NoEntry
<1>2. LimitTypeOK
  BY LimitAssumption DEF LimitAssumption, LimitInit, LimitTypeOK, NoPosition, NoEntry, EntryStates
<1>3. OwnRows = {}
  BY <1>1 DEF OwnRows
<1>4. RowCount
  <2>1. Cardinality({}) = 0
    BY FS_EmptySet
  <2> QED
    BY <1>3, <2>1, LimitAssumption DEF RowCount, LimitAssumption
<1> QED
  BY <1>1, <1>2, <1>3, <1>4 DEF LimitInv, RowRisk, MarketFound

LEMMA OpenAtOnceStep ==
    ASSUME LimitInv, NEW s \in Symbols, OpenAtOnce(s)
    PROVE  LimitInv'
<1>1. /\ LimitTypeOK /\ LetIn(s) /\ Evaluate(s) /\ UNCHANGED <<settings, wallet>>
      /\ holdings' = holdings \cup {s}
      /\ entryOrders' = [entryOrders EXCEPT ![s] = NoEntry]
  BY DEF LimitInv, OpenAtOnce, LetIn
<1>2. peakEquity' \in Nat
  BY <1>1, EquityIsInt DEF Evaluate, LimitTypeOK
<1>3. /\ holdings' \subseteq Symbols
      /\ entryOrders' \in [Symbols -> [state : EntryStates, risk : Nat]]
      /\ entryOrders'[s].state = "none"
      /\ \A r \in Symbols \ {s} : entryOrders'[r] = entryOrders[r]
  BY <1>1 DEF LimitTypeOK, NoEntry, EntryStates
<1>4. CASE /\ lostAnswers < MaxLostAnswers
           /\ lostAnswers' = lostAnswers + 1
           /\ UNCHANGED <<positions, checked>>
  <2>1. LimitTypeOK'
    BY <1>1, <1>2, <1>3, <1>4, LimitAssumption DEF LimitAssumption, LimitTypeOK
  <2>2. RowCount' /\ RowRisk'
    BY <1>1, <1>4, FewerRows DEF LimitInv, OwnRows
  <2>3. MarketFound'
    BY <1>1, <1>4 DEF LimitTypeOK, MarketFound
  <2> QED
    BY <1>4, <2>1, <2>2, <2>3 DEF LimitInv
<1>5. CASE OpenRow(s, PlannedRisk) /\ UNCHANGED lostAnswers
  <2>1. PICK planned \in Nat : planned = PlannedRisk
    BY <1>1, PlannedRiskIsNat
  <2>2. /\ RowCount' /\ RowRisk'
        /\ positions' \in [Symbols -> [open : BOOLEAN, recovered : BOOLEAN, risk : Nat]]
        /\ positions'[s].open /\ ~positions'[s].recovered
        /\ \A r \in Symbols \ {s} : positions'[r] = positions[r]
        /\ checked' \in [equity : Nat, risk : Nat]
    BY <1>1, <1>5, <2>1, RowLetIn
  <2>3. LimitTypeOK'
    BY <1>1, <1>2, <1>3, <1>5, <2>2 DEF LimitTypeOK
  <2>4. MarketFound'
    BY <1>1, <1>3, <1>5, <2>2 DEF LimitInv, LimitTypeOK, MarketFound
  <2>5. \A r \in Symbols : positions'[r].recovered => positions'[r].open
    BY <2>2 DEF LimitInv
  <2> QED
    BY <2>2, <2>3, <2>4, <2>5 DEF LimitInv
<1> QED
  BY <1>4, <1>5 DEF OpenAtOnce

LEMMA OpenFilledEntryStep ==
    ASSUME LimitInv, NEW s \in Symbols, OpenFilledEntry(s)
    PROVE  LimitInv'
<1>1. /\ LimitTypeOK /\ LetIn(s) /\ Evaluate(s) /\ OpenRow(s, entryOrders[s].risk)
      /\ entryOrders' = [entryOrders EXCEPT ![s] = NoEntry]
      /\ holdings' \subseteq holdings \cup {s}
      /\ entryOrders[s].state # "none" /\ UNCHANGED <<settings, wallet, lostAnswers>>
  BY DEF LimitInv, OpenFilledEntry, LetIn
<1>2. peakEquity' \in Nat
  BY <1>1, EquityIsInt DEF Evaluate, LimitTypeOK
<1>3. PICK planned \in Nat : planned = entryOrders[s].risk
  BY <1>1 DEF LimitTypeOK
<1>4. /\ RowCount' /\ RowRisk'
      /\ positions' \in [Symbols -> [open : BOOLEAN, recovered : BOOLEAN, risk : Nat]]
      /\ positions'[s].open /\ ~positions'[s].recovered
      /\ \A r \in Symbols \ {s} : positions'[r] = positions[r]
      /\ checked' \in [equity : Nat, risk : Nat]
  BY <1>1, <1>3, RowLetIn
<1>5. LimitTypeOK'
  BY <1>1, <1>2, <1>4 DEF LimitTypeOK, NoEntry, EntryStates
<1>6. MarketFound'
  BY <1>1 DEF LimitInv, MarketFound
<1>7. \A r \in Symbols : positions'[r].recovered => positions'[r].open
  BY <1>4 DEF LimitInv
<1> QED
  BY <1>4, <1>5, <1>6, <1>7 DEF LimitInv

LEMMA PlaceRestingStep ==
    ASSUME LimitInv, NEW s \in Symbols, PlaceResting(s)
    PROVE  LimitInv'
<1>1. /\ LimitTypeOK /\ Evaluate(s) /\ settings.style # "market"
      /\ UNCHANGED <<settings, wallet, holdings, positions, checked>>
  BY DEF LimitInv, PlaceResting, LetIn
<1>2. peakEquity' \in Nat
  BY <1>1, EquityIsInt DEF Evaluate, LimitTypeOK
<1>3. PICK planned \in Nat : planned = PlannedRisk
  BY <1>1, PlannedRiskIsNat
<1>4. entryOrders' \in [Symbols -> [state : EntryStates, risk : Nat]]
  <2>1. PICK state \in {"resting", "unkeyed"} :
            entryOrders' = [entryOrders EXCEPT ![s] = [state |-> state, risk |-> planned]]
    BY <1>3 DEF PlaceResting
  <2>2. [state |-> state, risk |-> planned] \in [state : EntryStates, risk : Nat]
    BY DEF EntryStates
  <2> QED
    BY <1>1, <2>1, <2>2 DEF LimitTypeOK
<1>5. lostAnswers' \in 0..MaxLostAnswers
  BY <1>1, LimitAssumption DEF PlaceResting, LimitTypeOK, LimitAssumption
<1>6. LimitTypeOK'
  BY <1>1, <1>2, <1>4, <1>5 DEF LimitTypeOK
<1>7. RowCount' /\ RowRisk'
  BY <1>1, FewerRows DEF LimitInv, OwnRows
<1> QED
  BY <1>1, <1>6, <1>7 DEF LimitInv, MarketFound

\* Steps that place no entry and open no row of a handler's
LEMMA OtherSteps ==
    ASSUME LimitInv, NEW s \in Symbols,
           \/ OpenTurnedAway(s) \/ ReconcileSymbol(s) \/ CloseForSignal(s)
           \/ RestingFills(s) \/ EntryDropped(s) \/ PositionEnds(s)
    PROVE  LimitInv'
<1>1. /\ LimitTypeOK /\ UNCHANGED <<settings, wallet, checked, lostAnswers>> /\ Equity \in Int
  BY EquityIsInt DEF LimitInv, OpenTurnedAway, ReconcileSymbol, CloseForSignal,
     RestingFills, EntryDropped, PositionEnds
<1>2. peakEquity' \in Nat
  <2>1. peakEquity \in Nat
    BY <1>1 DEF LimitTypeOK
  <2>2. CASE Evaluate(s)
    BY <1>1, <2>1, <2>2 DEF Evaluate
  <2>3. CASE peakEquity' = peakEquity
    BY <2>1, <2>3
  <2> QED
    BY <2>2, <2>3 DEF OpenTurnedAway, ReconcileSymbol, CloseForSignal, RestingFills,
       EntryDropped, PositionEnds
<1>3. /\ entryOrders' \in [Symbols -> [state : EntryStates, risk : Nat]]
      /\ \A r \in Symbols : entryOrders[r].state = "none" => entryOrders'[r].state = "none"
  <2>1. entryOrders \in [Symbols -> [state : EntryStates, risk : Nat]]
    BY <1>1 DEF LimitTypeOK
  <2>2. CASE entryOrders' = entryOrders
    BY <2>1, <2>2
  <2>3. CASE entryOrders' = [entryOrders EXCEPT ![s] = NoEntry]
    BY <2>1, <2>3 DEF NoEntry, EntryStates
  <2>4. CASE RestingFills(s)
    BY <2>1, <2>4 DEF RestingFills, RestingEntries, NoEntry, EntryStates
  <2> QED
    BY <2>2, <2>3, <2>4 DEF OpenTurnedAway, ReconcileSymbol, CloseForSignal, EntryDropped,
       PositionEnds
<1>4. holdings' \subseteq Symbols
  BY <1>1 DEF LimitTypeOK, OpenTurnedAway, ReconcileSymbol, CloseForSignal, RestingFills,
     EntryDropped, PositionEnds
<1>5. /\ positions' \in [Symbols -> [open : BOOLEAN, recovered : BOOLEAN, risk : Nat]]
      /\ \A r \in Symbols \ {s} : positions'[r] = positions[r]
      /\ \/ positions'[s] = positions[s]
         \/ positions'[s] = NoPosition
         \/ positions'[s] = Opened(TRUE, EmergencyRisk) /\ ~positions[s].open
              /\ s \in holdings
  <2>1. NoPosition \in [open : BOOLEAN, recovered : BOOLEAN, risk : Nat]
        /\ Opened(TRUE, EmergencyRisk) \in [open : BOOLEAN, recovered : BOOLEAN, risk : Nat]
    BY LimitAssumption DEF LimitAssumption, NoPosition, Opened
  <2>2. positions \in [Symbols -> [open : BOOLEAN, recovered : BOOLEAN, risk : Nat]]
    BY <1>1 DEF LimitTypeOK
  <2> HIDE DEF NoPosition, Opened
  <2>3. CASE positions' = positions
    BY <2>2, <2>3
  <2>4. CASE positions' = [positions EXCEPT ![s] = NoPosition]
    BY <2>1, <2>2, <2>4
  <2>5. CASE /\ positions' = [positions EXCEPT ![s] = Opened(TRUE, EmergencyRisk)]
             /\ ~positions[s].open /\ s \in holdings
    BY <2>1, <2>2, <2>5
  <2> QED
    BY <2>3, <2>4, <2>5 DEF OpenTurnedAway, ReconcileSymbol, CloseForSignal, RestingFills,
       EntryDropped, PositionEnds
<1>6. \/ positions'[s] = positions[s]
      \/ ~positions'[s].open /\ ~positions'[s].recovered
      \/ /\ positions'[s].open /\ positions'[s].recovered
         /\ ~positions[s].open /\ s \in holdings
  BY <1>5 DEF NoPosition, Opened
<1>7. LimitTypeOK'
  BY <1>1, <1>2, <1>3, <1>4, <1>5 DEF LimitTypeOK
<1>8. OwnRows' \subseteq OwnRows /\ \A r \in OwnRows' : positions'[r].risk = positions[r].risk
  BY <1>5, <1>6 DEF OwnRows
<1>9. RowCount' /\ RowRisk'
  BY <1>1, <1>8, FewerRows DEF LimitInv
<1>10. MarketFound'
  <2> SUFFICES ASSUME settings.style = "market", lostAnswers = 0
               PROVE  /\ \A r \in Symbols : entryOrders'[r].state = "none"
                      /\ \A r \in holdings' : positions'[r].open
                      /\ \A r \in Symbols : ~positions'[r].recovered
    BY <1>1 DEF MarketFound
  <2>1. /\ \A r \in Symbols : entryOrders[r].state = "none"
        /\ \A r \in holdings : positions[r].open
        /\ \A r \in Symbols : ~positions[r].recovered
    BY DEF LimitInv, MarketFound
  <2>2. \A r \in Symbols : entryOrders'[r].state = "none"
    BY <1>3, <2>1
  <2>3. \A r \in holdings' : positions'[r].open
    <3>1. ~RestingFills(s)
      BY <2>1 DEF RestingFills, RestingEntries
    <3>2. CASE ReconcileSymbol(s)
      BY <1>1, <1>5, <2>1, <3>2 DEF ReconcileSymbol, LimitTypeOK, Opened
    <3>3. CASE ~ReconcileSymbol(s)
      BY <1>1, <2>1, <3>1, <3>3 DEF LimitTypeOK, OpenTurnedAway, CloseForSignal,
         EntryDropped, PositionEnds
    <3> QED
      BY <3>2, <3>3
  <2>4. \A r \in Symbols : ~positions'[r].recovered
    BY <1>5, <1>6, <2>1
  <2> QED
    BY <2>2, <2>3, <2>4
<1>11. \A r \in Symbols : positions'[r].recovered => positions'[r].open
  BY <1>5, <1>6 DEF LimitInv
<1> QED
  BY <1>7, <1>9, <1>10, <1>11 DEF LimitInv

LEMMA LimitInvStep == LimitInv /\ [LimitNext]_limitVars => LimitInv'
<1>1. ASSUME LimitInv, UNCHANGED limitVars PROVE LimitInv'
  <2>1. OwnRows' \subseteq OwnRows /\ \A s \in OwnRows' : positions'[s].risk = positions[s].risk
    BY <1>1 DEF OwnRows, limitVars
  <2>2. RowCount' /\ RowRisk'
    BY <1>1, <2>1, FewerRows DEF LimitInv, limitVars
  <2> QED
    BY <1>1, <2>2 DEF LimitInv, LimitTypeOK, MarketFound, limitVars
<1>2. ASSUME LimitInv, LimitNext PROVE LimitInv'
  <2>1. ASSUME NEW s \in Symbols, PlaceResting(s) \/ OpenAtOnce(s) \/ OpenFilledEntry(s)
        PROVE  LimitInv'
    BY <1>2, <2>1, PlaceRestingStep, OpenAtOnceStep, OpenFilledEntryStep
  <2>2. ASSUME NEW s \in Symbols,
               \/ OpenTurnedAway(s) \/ ReconcileSymbol(s) \/ CloseForSignal(s)
               \/ RestingFills(s) \/ EntryDropped(s) \/ PositionEnds(s)
        PROVE  LimitInv'
    BY <1>2, <2>2, OtherSteps
  <2>3. ASSUME BalanceMoves PROVE LimitInv'
    <3>1. UNCHANGED <<settings, holdings, entryOrders, positions, peakEquity, checked, lostAnswers>>
          /\ wallet' \in Wallets
      BY <2>3 DEF BalanceMoves
    <3>2. OwnRows' \subseteq OwnRows /\ \A s \in OwnRows' : positions'[s].risk = positions[s].risk
      BY <3>1 DEF OwnRows
    <3>3. RowCount' /\ RowRisk'
      BY <1>2, <3>1, <3>2, FewerRows DEF LimitInv
    <3> QED
      BY <1>2, <3>1, <3>3 DEF LimitInv, LimitTypeOK, MarketFound
  <2> QED
    BY <1>2, <2>1, <2>2, <2>3 DEF LimitNext
<1> QED
  BY <1>1, <1>2

\* The rows that handlers opened, at once or when a resting entry is found filled, keep
\* to the number of positions, and to the risk cap at the equity the newest was let in
\* at but for what its own fill is more than the trade the limits were shown, whatever
\* entries fill at; at market, without a lost answer, the reconciler never finds a
\* position (evaluate_new_position, open_from_signal, reconcile_symbol).
THEOREM LimitsHold == LimitSpec => []LimitsHoldButForRecovered
<1>1. LimitInv => LimitsHoldButForRecovered
  <2> SUFFICES ASSUME LimitInv PROVE LimitsHoldButForRecovered
    OBVIOUS
  <2>1. OpenRows \ RecoveredRows = OwnRows
    BY DEF OpenRows, RecoveredRows, OwnRows
  <2>2. settings.style = "market" /\ lostAnswers = 0 => RecoveredRows = {}
    BY DEF LimitInv, MarketFound, RecoveredRows, OpenRows
  <2> QED
    BY <2>1, <2>2 DEF LimitInv, RowCount, RowRisk, LimitsHoldButForRecovered
<1> QED
  BY <1>1, LimitInvInit, LimitInvStep, PTL DEF LimitSpec

\* The account and its rows keep their types.
THEOREM LimitTypesHold == LimitSpec => []LimitTypeOK
<1>1. LimitInv => LimitTypeOK
  BY DEF LimitInv
<1> QED
  BY <1>1, LimitInvInit, LimitInvStep, PTL DEF LimitSpec
=============================================================================
