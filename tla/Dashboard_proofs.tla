-------------------------- MODULE Dashboard_proofs --------------------------
(***************************************************************************)
(* The stores of the dashboard.  The pooled fund, for any members,         *)
(* amounts, rates and months and any number of handlers working at once:   *)
(* who took part in a closed trade has got its rate, and a balance is the  *)
(* deposit and what the months have settled.  The accounts, for any        *)
(* addresses, threads and payments: no paid month is lost by one request   *)
(* at a time.                                                              *)
(***************************************************************************)
EXTENDS FundStore, Accounts, SumTheorems

-----------------------------------------------------------------------------
(* The fund: what is closed is paid.                                       *)

\* The columns keep their types.
FundShape ==
    /\ member \in [Members -> Member]
    /\ trade \in Seq(Trade)
    /\ part \in Seq(SUBSET Participation)
    /\ Len(part) = Len(trade)
    /\ request \in [Handlers -> Request]
    /\ \A h \in Handlers : request[h].at # "idle" => request[h].of \in TradeIds
    /\ rough \subseteq TradeIds

Busy(h, t) == request[h].at # "idle" /\ request[h].of = t

\* A second request about the same trade makes it a rough one.
OneWorker ==
    \A t \in TradeIds \ rough : \A h, g \in Handlers : Busy(h, t) /\ Busy(g, t) => h = g

\* The rate a handler is about to pay is the one the trade shows: close_trade
\* commits it before _apply_pnl, and nobody writes it in between.
AppliesShownRate ==
    \A h \in Handlers :
        request[h].at = "apply" /\ request[h].of \notin rough =>
            request[h].rate = trade[request[h].of].rate

\* The participations are written before the trade is closed.
OpenersComeFirst ==
    \A h \in Handlers :
        request[h].at \in {"select", "insert"} /\ request[h].of \notin rough =>
            ~Closed(request[h].of)

PaidOut(t) == \A p \in part[t] : p.paid = TRUE /\ p.pnl = p.atOpen * trade[t].rate

PaidOrDue ==
    \A t \in TradeIds \ rough :
        Closed(t) => PaidOut(t) \/ \E h \in Handlers : Busy(h, t) /\ request[h].at = "apply"

FundInv ==
    /\ FundShape
    /\ OneWorker
    /\ AppliesShownRate
    /\ OpenersComeFirst
    /\ PaidOrDue

-----------------------------------------------------------------------------
LEMMA IdleShape == Idle \in Request /\ Idle.at = "idle"
BY DEF Idle, Request

LEMMA OpenerShape ==
    ASSUME NEW t \in Nat
    PROVE  /\ [Idle EXCEPT !.at = "select", !.of = t] \in Request
           /\ [Idle EXCEPT !.at = "select", !.of = t].at = "select"
           /\ [Idle EXCEPT !.at = "select", !.of = t].of = t
BY IdleShape DEF Request

LEMMA FundInvInit == FundInit => FundInv
BY IdleShape DEF FundInit, FundInv, FundShape, OneWorker, AppliesShownRate, OpenersComeFirst,
   PaidOrDue, TradeIds, Busy, NoMember, Member, MemberStatus

\* The argument reads the table of members for its types only.
LEMMA MembersOnly ==
    ASSUME FundInv, member' \in [Members -> Member],
           UNCHANGED <<trade, part, request, rough>>
    PROVE  FundInv'
BY DEF FundInv, FundShape, OneWorker, AppliesShownRate, OpenersComeFirst, PaidOrDue, PaidOut,
   TradeIds, Busy, Closed

LEMMA MemberSteps ==
    ASSUME FundInv,
           \/ \E m \in Members, amount \in Amounts, day \in Days : AddMember(m, amount, day)
           \/ \E m \in Members, amount \in Amounts : UpdateMemberBalance(m, amount)
           \/ \E m \in Members : DeactivateMember(m)
           \/ \E m \in Members : DeleteMember(m)
    PROVE  FundInv'
<1>1. Amounts \subseteq Nat /\ Days \subseteq Nat /\ member \in [Members -> Member]
  BY FundAssumption DEF FundAssumption, FundInv, FundShape
<1>2. member' \in [Members -> Member] /\ UNCHANGED <<trade, part, request, rough>>
  <2>1. ASSUME NEW m \in Members, NEW amount \in Amounts, NEW day \in Days,
               AddMember(m, amount, day)
        PROVE  member' \in [Members -> Member]
    BY <1>1, <2>1 DEF AddMember, Member, MemberStatus
  <2>2. ASSUME NEW m \in Members, NEW amount \in Amounts, UpdateMemberBalance(m, amount)
        PROVE  member' \in [Members -> Member]
    BY <1>1, <2>2 DEF UpdateMemberBalance, Member
  <2>3. ASSUME NEW m \in Members, DeactivateMember(m)
        PROVE  member' \in [Members -> Member]
    BY <1>1, <2>3 DEF DeactivateMember, Member, MemberStatus
  <2>4. ASSUME NEW m \in Members, DeleteMember(m)
        PROVE  member' \in [Members -> Member]
    BY <1>1, <2>4 DEF DeleteMember, Member, MemberStatus
  <2>5. UNCHANGED <<trade, part, request, rough>>
    BY DEF AddMember, UpdateMemberBalance, DeactivateMember, DeleteMember
  <2> QED
    BY <2>1, <2>2, <2>3, <2>4, <2>5
<1> QED
  BY <1>2, MembersOnly

-----------------------------------------------------------------------------
(* Opening a trade                                                         *)

LEMMA AddTradeStep ==
    ASSUME FundInv, NEW h \in Handlers, NEW day \in Days, AddTrade(h, day)
    PROVE  FundInv'
<1> DEFINE n == Len(trade)
           born == [opened |-> day, rate |-> 0, month |-> 0]
           job == [Idle EXCEPT !.at = "select", !.of = n + 1]
<1>1. /\ trade \in Seq(Trade) /\ part \in Seq(SUBSET Participation) /\ Len(part) = n
      /\ n \in Nat /\ request \in [Handlers -> Request]
  BY DEF FundInv, FundShape
<1>2. born \in Trade /\ born.month = 0
  BY FundAssumption DEF FundAssumption, Trade
<1>3. job \in Request /\ job.at = "select" /\ job.of = n + 1
  <2>1. n + 1 \in Nat
    BY <1>1
  <2> QED
    BY <2>1, OpenerShape
<1>4. /\ trade' = Append(trade, born) /\ part' = Append(part, {})
      /\ request' = [request EXCEPT ![h] = job] /\ request[h].at = "idle"
      /\ member' = member /\ rough' = rough
  BY DEF AddTrade
<1> HIDE DEF born, job
<1>5. /\ trade' \in Seq(Trade) /\ part' \in Seq(SUBSET Participation)
      /\ Len(trade') = n + 1 /\ Len(part') = n + 1
      /\ trade'[n + 1] = born /\ \A t \in TradeIds : trade'[t] = trade[t] /\ part'[t] = part[t]
      /\ TradeIds' = TradeIds \cup {n + 1} /\ n + 1 \notin TradeIds
  BY <1>1, <1>2, <1>4 DEF TradeIds
<1>6. /\ request' \in [Handlers -> Request] /\ request'[h] = job
      /\ \A g \in Handlers \ {h} : request'[g] = request[g]
  BY <1>1, <1>3, <1>4
<1>7. FundShape'
  BY <1>3, <1>4, <1>5, <1>6 DEF FundInv, FundShape
<1>8. \A g \in Handlers, t \in TradeIds : Busy(g, t)' <=> Busy(g, t)
  BY <1>3, <1>4, <1>5, <1>6 DEF Busy
<1>9. ASSUME NEW t \in {n + 1}, NEW g \in Handlers, Busy(g, t)'
      PROVE  g = h
  BY <1>5, <1>6, <1>9 DEF FundInv, FundShape, Busy
<1>10. OneWorker'
  <2> SUFFICES ASSUME NEW t \in TradeIds' \ rough', NEW f \in Handlers, NEW g \in Handlers,
                      Busy(f, t)', Busy(g, t)'
               PROVE  f = g
    BY DEF OneWorker
  <2>1. CASE t \in TradeIds
    BY <1>4, <1>8, <2>1 DEF FundInv, OneWorker
  <2>2. CASE t \in {n + 1}
    BY <1>9, <2>2
  <2> QED
    BY <1>5, <2>1, <2>2
<1>11. AppliesShownRate'
  <2> SUFFICES ASSUME NEW g \in Handlers, request'[g].at = "apply", request'[g].of \notin rough'
               PROVE  request'[g].rate = trade'[request'[g].of].rate
    BY DEF AppliesShownRate
  <2>1. g # h
    BY <1>3, <1>6
  <2>2. request'[g] = request[g] /\ request[g].of \in TradeIds
    BY <1>6, <2>1 DEF FundInv, FundShape
  <2>3. trade'[request[g].of] = trade[request[g].of]
    BY <1>5, <2>2
  <2>4. request[g].rate = trade[request[g].of].rate
    BY <1>4, <2>2 DEF FundInv, AppliesShownRate
  <2> QED
    BY <2>2, <2>3, <2>4
<1>12. OpenersComeFirst'
  <2> SUFFICES ASSUME NEW g \in Handlers, request'[g].at \in {"select", "insert"},
                      request'[g].of \notin rough'
               PROVE  trade'[request'[g].of].month = 0
    BY DEF OpenersComeFirst, Closed
  <2>1. CASE g = h
    BY <1>2, <1>3, <1>5, <1>6, <2>1
  <2>2. CASE g # h
    <3>1. request'[g] = request[g] /\ request[g].of \in TradeIds
      BY <1>6, <2>2 DEF FundInv, FundShape
    <3>2. trade'[request[g].of] = trade[request[g].of]
      BY <1>5, <3>1
    <3>3. trade[request[g].of].month = 0
      BY <1>4, <3>1 DEF FundInv, OpenersComeFirst, Closed
    <3> QED
      BY <3>1, <3>2, <3>3
  <2> QED
    BY <2>1, <2>2
<1>13. PaidOrDue'
  <2> SUFFICES ASSUME NEW t \in TradeIds' \ rough, Closed(t)'
               PROVE  PaidOut(t)' \/ \E g \in Handlers : Busy(g, t)' /\ request'[g].at = "apply"
    BY <1>4 DEF PaidOrDue
  <2>1. t \in TradeIds /\ Closed(t)
    BY <1>2, <1>5 DEF Closed
  <2>2. CASE PaidOut(t)
    BY <1>5, <2>1, <2>2 DEF PaidOut
  <2>3. ASSUME NEW g \in Handlers, Busy(g, t), request[g].at = "apply"
        PROVE  Busy(g, t)' /\ request'[g].at = "apply"
    BY <1>4, <1>6, <2>1, <2>3 DEF Busy
  <2> QED
    BY <2>1, <2>2, <2>3 DEF FundInv, PaidOrDue
<1> QED
  BY <1>7, <1>10, <1>11, <1>12, <1>13 DEF FundInv

LEMMA SnapshotShape ==
    ASSUME FundShape, NEW t
    PROVE  Snapshot(t) \in SUBSET (Members \X Int)
BY DEF Snapshot, FundShape, Member

LEMMA SelectMembersStep ==
    ASSUME FundInv, NEW h \in Handlers, SelectMembers(h)
    PROVE  FundInv'
<1> DEFINE job == [request[h] EXCEPT !.at = "insert", !.seen = Snapshot(request[h].of)]
<1>1. request \in [Handlers -> Request] /\ request[h].at = "select"
  BY DEF FundInv, FundShape, SelectMembers
<1>2. Snapshot(request[h].of) \in SUBSET (Members \X Int)
  BY SnapshotShape DEF FundInv
<1>3. job \in Request /\ job.at = "insert" /\ job.of = request[h].of
  BY <1>1, <1>2 DEF Request
<1>4. request' = [request EXCEPT ![h] = job] /\ UNCHANGED <<member, trade, part, rough>>
  BY <1>1 DEF SelectMembers
<1> HIDE DEF job
<1>5. /\ request' \in [Handlers -> Request] /\ request'[h] = job
      /\ \A g \in Handlers \ {h} : request'[g] = request[g]
  BY <1>1, <1>3, <1>4
<1>6. \A g \in Handlers : /\ request'[g].of = request[g].of
                          /\ request'[g].at # "idle" <=> request[g].at # "idle"
                          /\ request'[g].at = "apply" <=> request[g].at = "apply"
                          /\ request'[g].at \in {"select", "insert"}
                               <=> request[g].at \in {"select", "insert"}
                          /\ request'[g].at = "apply" => request'[g].rate = request[g].rate
  BY <1>1, <1>3, <1>5
<1>7. FundShape'
  BY <1>4, <1>5, <1>6 DEF FundInv, FundShape, TradeIds
<1>8. \A g \in Handlers, t \in TradeIds : Busy(g, t)' <=> Busy(g, t)
  BY <1>6 DEF Busy
<1>9. OneWorker' /\ PaidOrDue'
  BY <1>4, <1>6, <1>8 DEF FundInv, OneWorker, PaidOrDue, PaidOut, TradeIds, Closed
<1>10. AppliesShownRate' /\ OpenersComeFirst'
  BY <1>4, <1>6 DEF FundInv, AppliesShownRate, OpenersComeFirst, Closed
<1> QED
  BY <1>7, <1>9, <1>10 DEF FundInv

\* A handler becomes idle, and of the trade it worked on only the participations
\* may have changed; those are paid out, or the trade is still open or rough.
LEMMA RequestEnds ==
    ASSUME FundInv, NEW h \in Handlers, request[h].at # "idle",
           NEW of, of = request[h].of,
           request' = [request EXCEPT ![h] = Idle],
           trade' = trade,
           member' \in [Members -> Member],
           part' \in Seq(SUBSET Participation), Len(part') = Len(part),
           \A t \in TradeIds \ {of} : part'[t] = part[t],
           rough' \subseteq TradeIds, rough \subseteq rough',
           of \in rough' \/ ~Closed(of) \/ PaidOut(of)'
    PROVE  FundInv'
<1>1. request \in [Handlers -> Request] /\ of \in TradeIds
  BY DEF FundInv, FundShape
<1>2. /\ request' \in [Handlers -> Request] /\ request'[h].at = "idle"
      /\ \A g \in Handlers \ {h} : request'[g] = request[g]
  BY <1>1, IdleShape
<1>3. TradeIds' = TradeIds /\ \A t : Closed(t)' <=> Closed(t)
  BY DEF TradeIds, Closed
<1>4. FundShape'
  BY <1>2, <1>3 DEF FundInv, FundShape
<1>5. \A g \in Handlers, t \in TradeIds : Busy(g, t)' => g # h /\ Busy(g, t)
  BY <1>2 DEF Busy
<1>6. OneWorker'
  BY <1>3, <1>5 DEF FundInv, OneWorker
<1>7. AppliesShownRate' /\ OpenersComeFirst'
  BY <1>2, <1>3 DEF FundInv, AppliesShownRate, OpenersComeFirst
<1>8. PaidOrDue'
  <2> SUFFICES ASSUME NEW t \in TradeIds \ rough', Closed(t)
               PROVE  PaidOut(t)' \/ \E g \in Handlers : Busy(g, t)' /\ request'[g].at = "apply"
    BY <1>3 DEF PaidOrDue
  <2>1. CASE t = of
    BY <2>1
  <2>2. CASE t # of
    <3>1. CASE PaidOut(t)
      BY <2>2, <3>1 DEF PaidOut
    <3>2. ASSUME NEW g \in Handlers, Busy(g, t), request[g].at = "apply"
          PROVE  Busy(g, t)' /\ request'[g].at = "apply"
      BY <1>2, <2>2, <3>2 DEF Busy
    <3> QED
      BY <3>1, <3>2 DEF FundInv, PaidOrDue
  <2> QED
    BY <2>1, <2>2
<1> QED
  BY <1>4, <1>6, <1>7, <1>8 DEF FundInv

LEMMA InsertParticipationsStep ==
    ASSUME FundInv, NEW h \in Handlers, InsertParticipations(h)
    PROVE  FundInv'
<1> DEFINE of == request[h].of
           rows == {[member |-> s[1], atOpen |-> s[2], paid |-> FALSE, pnl |-> 0] :
                       s \in request[h].seen}
<1>1. /\ request[h].at = "insert" /\ part' = [part EXCEPT ![of] = rows]
      /\ request' = [request EXCEPT ![h] = Idle] /\ UNCHANGED <<member, trade, rough>>
  BY DEF InsertParticipations
<1>2. request[h] \in Request /\ of \in TradeIds /\ part \in Seq(SUBSET Participation)
      /\ Len(part) = Len(trade)
  BY <1>1 DEF FundInv, FundShape
<1>3. rows \in SUBSET Participation
  <2>1. request[h].seen \in SUBSET (Members \X Int)
    BY <1>2 DEF Request
  <2> QED
    <3>1. ASSUME NEW s \in Members \X Int
          PROVE  [member |-> s[1], atOpen |-> s[2], paid |-> FALSE, pnl |-> 0] \in Participation
      <4>1. s[1] \in Members /\ s[2] \in Int
        OBVIOUS
      <4> QED
        BY <4>1 DEF Participation
    <3> QED
      BY <2>1, <3>1
<1> HIDE DEF rows
<1>4. /\ part' \in Seq(SUBSET Participation) /\ Len(part') = Len(part)
      /\ \A t \in TradeIds \ {of} : part'[t] = part[t]
  BY <1>1, <1>2, <1>3 DEF TradeIds
<1>5. of \in rough' \/ ~Closed(of)
  BY <1>1 DEF FundInv, OpenersComeFirst
<1>6. member' \in [Members -> Member] /\ rough' \subseteq TradeIds /\ rough \subseteq rough'
  BY <1>1 DEF FundInv, FundShape
<1> QED
  BY <1>1, <1>4, <1>5, <1>6, RequestEnds

-----------------------------------------------------------------------------
(* Closing it                                                              *)

LEMMA CloseTradeStep ==
    ASSUME FundInv, NEW h \in Handlers, NEW t \in TradeIds, NEW rate \in Rates,
           NEW month \in Months, CloseTrade(h, t, rate, month)
    PROVE  FundInv'
<1> DEFINE shut == [trade[t] EXCEPT !.rate = rate, !.month = month]
           job == [Idle EXCEPT !.at = "apply", !.of = t, !.rate = rate]
<1>1. /\ trade \in Seq(Trade) /\ request \in [Handlers -> Request] /\ trade[t] \in Trade
      /\ t \in Nat
  BY DEF FundInv, FundShape, TradeIds
<1>2. rate \in Int
  BY FundAssumption DEF FundAssumption
<1>3. shut \in Trade /\ shut.rate = rate
  BY <1>1, <1>2 DEF Trade
<1>4. job \in Request /\ job.at = "apply" /\ job.of = t /\ job.rate = rate
  BY <1>1, <1>2 DEF Idle, Request
<1>5. /\ trade' = [trade EXCEPT ![t] = shut] /\ request' = [request EXCEPT ![h] = job]
      /\ request[h].at = "idle" /\ UNCHANGED <<member, part>>
      /\ rough' = rough \cup (IF Closed(t) \/ Working(t) THEN {t} ELSE {})
  BY <1>1 DEF CloseTrade, TradeIds
<1> HIDE DEF shut, job
<1>6. /\ trade' \in Seq(Trade) /\ Len(trade') = Len(trade) /\ TradeIds' = TradeIds
      /\ trade'[t] = shut /\ \A u \in TradeIds \ {t} : trade'[u] = trade[u]
  BY <1>1, <1>3, <1>5 DEF TradeIds
<1>7. /\ request' \in [Handlers -> Request] /\ request'[h] = job
      /\ \A g \in Handlers \ {h} : request'[g] = request[g]
  BY <1>1, <1>4, <1>5
<1>8. /\ rough \subseteq rough' /\ rough' \subseteq TradeIds
      /\ \A u \in TradeIds \ {t} : u \in rough' <=> u \in rough
  BY <1>5 DEF FundInv, FundShape
<1>9. FundShape'
  BY <1>4, <1>5, <1>6, <1>7, <1>8 DEF FundInv, FundShape
<1>10. ASSUME t \notin rough'
       PROVE  ~Closed(t) /\ \A g \in Handlers : ~Busy(g, t)
  BY <1>5, <1>10 DEF Working, Busy
<1>11. ASSUME NEW u \in TradeIds, u # t, NEW g \in Handlers
       PROVE  /\ Busy(g, u)' <=> Busy(g, u)
              /\ Busy(g, u) => request'[g] = request[g]
  BY <1>4, <1>5, <1>7, <1>11 DEF Busy
<1>12. OneWorker'
  <2> SUFFICES ASSUME NEW u \in TradeIds \ rough', NEW f \in Handlers, NEW g \in Handlers,
                      Busy(f, u)', Busy(g, u)'
               PROVE  f = g
    BY <1>6 DEF OneWorker
  <2>1. CASE u = t
    BY <1>7, <1>10, <2>1 DEF Busy
  <2>2. CASE u # t
    BY <1>8, <1>11, <2>2 DEF FundInv, OneWorker
  <2> QED
    BY <2>1, <2>2
<1>13. AppliesShownRate'
  <2> SUFFICES ASSUME NEW g \in Handlers, request'[g].at = "apply", request'[g].of \notin rough'
               PROVE  request'[g].rate = trade'[request'[g].of].rate
    BY DEF AppliesShownRate
  <2>1. CASE g = h
    BY <1>3, <1>4, <1>6, <1>7, <2>1
  <2>2. CASE g # h
    <3>1. request'[g] = request[g] /\ request[g].of \in TradeIds
      BY <1>7, <2>2 DEF FundInv, FundShape
    <3>2. request[g].of # t
      BY <1>10, <3>1 DEF Busy
    <3> QED
      BY <1>6, <1>8, <3>1, <3>2 DEF FundInv, AppliesShownRate
  <2> QED
    BY <2>1, <2>2
<1>14. OpenersComeFirst'
  <2> SUFFICES ASSUME NEW g \in Handlers, request'[g].at \in {"select", "insert"},
                      request'[g].of \notin rough'
               PROVE  trade'[request'[g].of].month = 0
    BY DEF OpenersComeFirst, Closed
  <2>1. g # h
    BY <1>4, <1>7
  <2>2. request'[g] = request[g] /\ request[g].of \in TradeIds
    BY <1>7, <2>1 DEF FundInv, FundShape
  <2>3. request[g].of # t
    BY <1>10, <2>2 DEF Busy
  <2>4. ~Closed(request[g].of)
    BY <1>8, <2>2, <2>3 DEF FundInv, OpenersComeFirst
  <2> QED
    BY <1>6, <2>2, <2>3, <2>4 DEF Closed
<1>15. PaidOrDue'
  <2> SUFFICES ASSUME NEW u \in TradeIds \ rough', Closed(u)'
               PROVE  PaidOut(u)' \/ \E g \in Handlers : Busy(g, u)' /\ request'[g].at = "apply"
    BY <1>6 DEF PaidOrDue
  <2>1. CASE u = t
    BY <1>4, <1>7, <2>1 DEF Busy
  <2>2. CASE u # t
    <3>1. Closed(u) /\ u \in TradeIds \ rough
      BY <1>6, <1>8, <2>2 DEF Closed
    <3>2. CASE PaidOut(u)
      BY <1>5, <1>6, <2>2, <3>2 DEF PaidOut
    <3>3. ASSUME NEW g \in Handlers, Busy(g, u), request[g].at = "apply"
          PROVE  Busy(g, u)' /\ request'[g].at = "apply"
      BY <1>11, <2>2, <3>3
    <3> QED
      BY <3>1, <3>2, <3>3 DEF FundInv, PaidOrDue
  <2> QED
    BY <2>1, <2>2
<1> QED
  BY <1>9, <1>12, <1>13, <1>14, <1>15 DEF FundInv

LEMMA PaidFields ==
    ASSUME NEW p \in Participation, NEW rate \in Int
    PROVE  /\ Paid(p, rate) \in Participation
           /\ Paid(p, rate).paid = TRUE
           /\ Paid(p, rate).pnl = p.atOpen * rate
           /\ Paid(p, rate).atOpen = p.atOpen
<1>1. p.atOpen \in Int
  BY DEF Participation
<1>2. p.atOpen * rate \in Int
  BY <1>1
<1> DEFINE pnl == p.atOpen * rate
<1>3. Paid(p, rate) = [p EXCEPT !.paid = TRUE, !.pnl = pnl]
  BY DEF Paid
<1> HIDE DEF pnl
<1>4. pnl \in Int
  BY <1>2 DEF pnl
<1>5. /\ Paid(p, rate) \in Participation /\ Paid(p, rate).paid = TRUE
      /\ Paid(p, rate).pnl = pnl /\ Paid(p, rate).atOpen = p.atOpen
  BY <1>3, <1>4 DEF Participation
<1> QED
  BY <1>5 DEF pnl

LEMMA BalanceIsInt ==
    ASSUME FundShape, NEW m \in Members, NEW t \in TradeIds, NEW rate \in Int
    PROVE  BalanceAfter(m, t, rate) \in Int
<1>1. member[m].balance \in Int /\ part[t] \in SUBSET Participation
  BY DEF FundShape, Member, TradeIds
<1>2. CASE \E p \in part[t] : p.member = m
  <2> DEFINE q == CHOOSE p \in part[t] : p.member = m
  <2>1. q \in part[t]
    BY <1>2
  <2>2. q.atOpen \in Int
    BY <1>1, <2>1 DEF Participation
  <2> HIDE DEF q
  <2>3. q.atOpen + q.atOpen * rate \in Int
    BY <2>2
  <2> QED
    BY <1>1, <2>3 DEF BalanceAfter, q
<1>3. CASE ~\E p \in part[t] : p.member = m
  BY <1>1, <1>3 DEF BalanceAfter
<1> QED
  BY <1>2, <1>3

LEMMA ApplyPnlStep ==
    ASSUME FundInv, NEW h \in Handlers, ApplyPnl(h)
    PROVE  FundInv'
<1> DEFINE of == request[h].of
           rate == request[h].rate
           rows == {Paid(p, rate) : p \in part[of]}
<1>1. /\ request[h].at = "apply" /\ part' = [part EXCEPT ![of] = rows]
      /\ request' = [request EXCEPT ![h] = Idle] /\ UNCHANGED <<trade, rough>>
      /\ member' = [m \in Members |-> [member[m] EXCEPT !.balance = BalanceAfter(m, of, rate)]]
  BY DEF ApplyPnl
<1>2. /\ request[h] \in Request /\ of \in TradeIds /\ part \in Seq(SUBSET Participation)
      /\ Len(part) = Len(trade) /\ rate \in Int /\ part[of] \in SUBSET Participation
  BY <1>1 DEF FundInv, FundShape, Request, TradeIds
<1>3. rows \in SUBSET Participation
  BY <1>2, PaidFields
<1>4. member' \in [Members -> Member]
  <2>1. \A m \in Members : BalanceAfter(m, of, rate) \in Int /\ member[m] \in Member
    BY <1>2, BalanceIsInt DEF FundInv, FundShape
  <2> QED
    BY <1>1, <2>1 DEF Member
<1>5. ASSUME of \notin rough, NEW t, t = of
      PROVE  PaidOut(t)'
  <2>1. rate = trade[of].rate
    BY <1>1, <1>5 DEF FundInv, AppliesShownRate
  <2>2. part'[of] = rows /\ trade' = trade
    BY <1>1, <1>2 DEF TradeIds
  <2>3. ASSUME NEW p \in rows
        PROVE  p.paid = TRUE /\ p.pnl = p.atOpen * rate
    <3>1. PICK q \in part[of] : p = Paid(q, rate)
      BY <2>3
    <3>2. q \in Participation
      BY <1>2
    <3>3. p.paid = TRUE /\ p.pnl = q.atOpen * rate /\ p.atOpen = q.atOpen
      BY <1>2, <3>1, <3>2, PaidFields
    <3> QED
      BY <3>3
  <2> HIDE DEF rows
  <2> QED
    BY <1>5, <2>1, <2>2, <2>3 DEF PaidOut
<1> HIDE DEF rows
<1>6. /\ part' \in Seq(SUBSET Participation) /\ Len(part') = Len(part)
      /\ \A t \in TradeIds \ {of} : part'[t] = part[t]
  BY <1>1, <1>2, <1>3 DEF TradeIds
<1>7. rough' \subseteq TradeIds /\ rough \subseteq rough'
  BY <1>1 DEF FundInv, FundShape
<1> QED
  BY <1>1, <1>4, <1>5, <1>6, <1>7, RequestEnds

LEMMA HandlerFailsStep ==
    ASSUME FundInv, NEW h \in Handlers, HandlerFails(h)
    PROVE  FundInv'
<1>1. /\ request[h].at # "idle" /\ request' = [request EXCEPT ![h] = Idle]
      /\ rough' = rough \cup {request[h].of} /\ UNCHANGED <<member, trade, part>>
  BY DEF HandlerFails
<1>2. request[h].of \in TradeIds
  BY <1>1 DEF FundInv, FundShape
<1>3. /\ member' \in [Members -> Member] /\ part' \in Seq(SUBSET Participation)
      /\ rough' \subseteq TradeIds /\ rough \subseteq rough' /\ request[h].of \in rough'
  BY <1>1, <1>2 DEF FundInv, FundShape
<1> QED
  BY <1>1, <1>3, RequestEnds

-----------------------------------------------------------------------------
LEMMA FundInvStep == FundInv /\ [FundNext]_fundVars => FundInv'
<1>1. ASSUME FundInv, UNCHANGED fundVars PROVE FundInv'
  BY <1>1, MembersOnly DEF fundVars, FundInv, FundShape
<1>2. ASSUME FundInv, FundNext PROVE FundInv'
  BY <1>2, MemberSteps, AddTradeStep, SelectMembersStep, InsertParticipationsStep,
     CloseTradeStep, ApplyPnlStep, HandlerFailsStep DEF FundNext
<1> QED
  BY <1>1, <1>2

LEMMA PaidFromInv == FundInv => PaidAsClosed
<1> SUFFICES ASSUME FundInv, NEW t \in TradeIds \ rough, Closed(t), ~Working(t)
             PROVE  PaidOut(t)
  BY DEF PaidAsClosed, PaidOut
<1>1. ~\E h \in Handlers : Busy(h, t)
  BY DEF Working, Busy
<1> QED
  BY <1>1 DEF FundInv, PaidOrDue

\* However requests about different trades overlap, whoever joins, leaves or has a
\* balance set by hand meanwhile: once a trade is closed and its handler is done,
\* everybody who took part in it has got its rate on what they held when it was
\* opened (close_trade, _apply_pnl).
THEOREM ClosedIsPaid == FundSpec => []PaidAsClosed
BY FundInvInit, FundInvStep, PaidFromInv, PTL DEF FundSpec

-----------------------------------------------------------------------------
(* The fund: the balances add up                                           *)

\* What the participations pt, one a member, paid to m
Pnl(pt, m) == SumFunctionOnSet([p \in pt |-> p.pnl], {p \in pt : p.member = m})

SettledIn(tr, month) == {t \in 1..Len(tr) : tr[t].month = month}

MonthPnl(tr, pa, m, month) ==
    SumFunctionOnSet([t \in 1..Len(tr) |-> Pnl(pa[t], m)], SettledIn(tr, month))

Ledger(tr, pa, m) ==
    SumFunctionOnSet([month \in Months |-> MonthPnl(tr, pa, m, month)], Months)

OneEach(pt) == \A p, q \in pt : p.member = q.member => p = q

LEMMA LedgerReads ==
    LedgerBalances <=>
        (orderly => \A m \in Members :
            InTable(m) => member[m].balance = member[m].deposit + Ledger(trade, part, m))
BY DEF LedgerBalances, Ledger, MonthPnl, SettledIn, Pnl, GrossPnl, PnlOf, TradeIds

LEMMA LedgerReadsNext ==
    LedgerBalances' <=>
        (orderly' => \A m \in Members :
            InTable(m)' => member'[m].balance = member'[m].deposit + Ledger(trade', part', m))
BY DEF LedgerBalances, Ledger, MonthPnl, SettledIn, Pnl, GrossPnl, PnlOf, TradeIds

LEMMA PnlOfOne ==
    ASSUME NEW pt \in SUBSET Participation, OneEach(pt), NEW p \in pt
    PROVE  Pnl(pt, p.member) = p.pnl
<1>1. {q \in pt : q.member = p.member} = {p}
  BY DEF OneEach
<1>2. [q \in pt |-> q.pnl][p] = p.pnl /\ p.pnl \in Int
  BY DEF Participation
<1> DEFINE f == [q \in pt |-> q.pnl]
<1>3. f[p] = p.pnl
  OBVIOUS
<1> HIDE DEF f
<1>4. SumFunctionOnSet(f, {p}) = f[p] + SumFunctionOnSet(f, {})
  <2>1. IsFiniteSet({}) /\ {p} = {} \cup {p} /\ f[p] \in Int
    BY <1>2, <1>3, FS_EmptySet
  <2> QED
    BY <2>1, SumWithout
<1>5. SumFunctionOnSet(f, {p}) = p.pnl
  BY <1>2, <1>3, <1>4, SumEmpty
<1> QED
  BY <1>1, <1>5 DEF Pnl, f

LEMMA PnlOfNone ==
    ASSUME NEW pt, NEW m, \A p \in pt : p.member # m
    PROVE  Pnl(pt, m) = 0
<1>1. {p \in pt : p.member = m} = {}
  OBVIOUS
<1> QED
  BY <1>1, SumEmpty DEF Pnl

LEMMA PnlIsInt ==
    ASSUME NEW pt \in SUBSET Participation, OneEach(pt), NEW m
    PROVE  Pnl(pt, m) \in Int
<1>1. CASE \E p \in pt : p.member = m
  <2>1. PICK p \in pt : p.member = m
    BY <1>1
  <2> QED
    BY <2>1, PnlOfOne DEF Participation
<1>2. CASE ~\E p \in pt : p.member = m
  BY <1>2, PnlOfNone
<1> QED
  BY <1>1, <1>2

\* The columns, as the sums need them
Columns(tr, pa) ==
    /\ tr \in Seq(Trade) /\ pa \in Seq(SUBSET Participation) /\ Len(pa) = Len(tr)
    /\ \A t \in 1..Len(tr) : OneEach(pa[t])

LEMMA SettledFinite ==
    ASSUME NEW tr \in Seq(Trade), NEW month
    PROVE  IsFiniteSet(SettledIn(tr, month)) /\ SettledIn(tr, month) \subseteq 1..Len(tr)
<1>1. IsFiniteSet(1..Len(tr))
  BY FS_Interval
<1>2. SettledIn(tr, month) \subseteq 1..Len(tr)
  BY DEF SettledIn
<1> QED
  BY <1>1, <1>2, FS_Subset

LEMMA MonthPnlIsInt ==
    ASSUME NEW tr, NEW pa, Columns(tr, pa), NEW m, NEW month
    PROVE  MonthPnl(tr, pa, m, month) \in Int
<1> DEFINE f == [t \in 1..Len(tr) |-> Pnl(pa[t], m)]
<1>1. \A t \in 1..Len(tr) : f[t] \in Int
  BY PnlIsInt DEF Columns
<1>2. IsFiniteSet(SettledIn(tr, month)) /\ SettledIn(tr, month) \subseteq 1..Len(tr)
  BY SettledFinite DEF Columns
<1> HIDE DEF f
<1>3. SumFunctionOnSet(f, SettledIn(tr, month)) \in Int
  BY <1>1, <1>2, SumType
<1> QED
  BY <1>3 DEF MonthPnl, f

LEMMA LedgerIsInt ==
    ASSUME NEW tr, NEW pa, Columns(tr, pa), NEW m
    PROVE  Ledger(tr, pa, m) \in Int
<1> DEFINE g == [month \in Months |-> MonthPnl(tr, pa, m, month)]
<1>1. \A month \in Months : g[month] \in Int
  BY MonthPnlIsInt
<1>2. IsFiniteSet(Months)
  BY FundAssumption DEF FundAssumption
<1> HIDE DEF g
<1>3. SumFunctionOnSet(g, Months) \in Int
  BY <1>1, <1>2, SumType
<1> QED
  BY <1>3 DEF Ledger, g

\* Two trade tables that settle the same for m in every month
LEMMA LedgerSame ==
    ASSUME NEW tr, NEW pa, NEW tr2, NEW pa2, NEW m,
           \A month \in Months : MonthPnl(tr2, pa2, m, month) = MonthPnl(tr, pa, m, month)
    PROVE  Ledger(tr2, pa2, m) = Ledger(tr, pa, m)
<1> DEFINE g == [month \in Months |-> MonthPnl(tr, pa, m, month)]
           h == [month \in Months |-> MonthPnl(tr2, pa2, m, month)]
<1>1. g = h
  OBVIOUS
<1> QED
  BY <1>1 DEF Ledger

\* A month's trades, and what they paid m, stay the same.
LEMMA MonthSame ==
    ASSUME NEW tr, NEW pa, NEW tr2, NEW pa2, NEW m, NEW month,
           Columns(tr, pa), Columns(tr2, pa2),
           SettledIn(tr2, month) = SettledIn(tr, month),
           \A t \in SettledIn(tr, month) : Pnl(pa2[t], m) = Pnl(pa[t], m)
    PROVE  MonthPnl(tr2, pa2, m, month) = MonthPnl(tr, pa, m, month)
<1> DEFINE f == [t \in 1..Len(tr) |-> Pnl(pa[t], m)]
           g == [t \in 1..Len(tr2) |-> Pnl(pa2[t], m)]
           S == SettledIn(tr, month)
<1>1. IsFiniteSet(S) /\ S \subseteq 1..Len(tr) /\ S \subseteq 1..Len(tr2)
  BY SettledFinite DEF Columns
<1>2. \A t \in S : f[t] = g[t]
  BY <1>1
<1> HIDE DEF f, g, S
<1>3. SumFunctionOnSet(f, S) = SumFunctionOnSet(g, S)
  BY <1>1, <1>2, SumSame
<1> QED
  BY <1>3 DEF MonthPnl, f, g, S

\* A trade that paid m nothing yet is settled too.
LEMMA MonthJoined ==
    ASSUME NEW tr, NEW pa, NEW tr2, NEW pa2, NEW m, NEW month, NEW new,
           Columns(tr, pa), Columns(tr2, pa2),
           new \notin SettledIn(tr, month),
           SettledIn(tr2, month) = SettledIn(tr, month) \cup {new},
           \A t \in SettledIn(tr, month) : Pnl(pa2[t], m) = Pnl(pa[t], m),
           Pnl(pa2[new], m) = 0
    PROVE  MonthPnl(tr2, pa2, m, month) = MonthPnl(tr, pa, m, month)
<1> DEFINE f == [t \in 1..Len(tr) |-> Pnl(pa[t], m)]
           g == [t \in 1..Len(tr2) |-> Pnl(pa2[t], m)]
           S == SettledIn(tr, month)
<1>1. IsFiniteSet(S) /\ S \subseteq 1..Len(tr) /\ S \subseteq 1..Len(tr2)
      /\ new \in 1..Len(tr2) /\ new \notin S /\ SettledIn(tr2, month) = S \cup {new}
  BY SettledFinite DEF Columns
<1>2. (\A t \in S : f[t] = g[t]) /\ (\A t \in 1..Len(tr2) : g[t] \in Int) /\ g[new] = 0
  BY <1>1, PnlIsInt DEF Columns
<1> HIDE DEF f, g, S
<1>3. SumFunctionOnSet(f, S) = SumFunctionOnSet(g, S)
  BY <1>1, <1>2, SumSame
<1>4. SumFunctionOnSet(g, S \cup {new}) = g[new] + SumFunctionOnSet(g, S)
  BY <1>1, <1>2, SumWithout
<1>5. SumFunctionOnSet(g, S) \in Int
  BY <1>1, <1>2, SumType
<1>6. SumFunctionOnSet(g, S \cup {new}) = SumFunctionOnSet(f, S)
  BY <1>2, <1>3, <1>4, <1>5
<1> QED
  BY <1>1, <1>6 DEF MonthPnl, f, g, S

\* One settled trade of a month pays differently.
LEMMA MonthPaid ==
    ASSUME NEW tr, NEW pa, NEW pa2, NEW m, NEW month, Columns(tr, pa), Columns(tr, pa2),
           NEW t \in SettledIn(tr, month),
           \A u \in SettledIn(tr, month) \ {t} : Pnl(pa2[u], m) = Pnl(pa[u], m)
    PROVE  MonthPnl(tr, pa2, m, month)
               = MonthPnl(tr, pa, m, month) + Pnl(pa2[t], m) - Pnl(pa[t], m)
<1> DEFINE f == [u \in 1..Len(tr) |-> Pnl(pa[u], m)]
           g == [u \in 1..Len(tr) |-> Pnl(pa2[u], m)]
           S == SettledIn(tr, month)
<1>1. IsFiniteSet(S) /\ S \subseteq 1..Len(tr)
  BY SettledFinite DEF Columns
<1>2. /\ \A u \in S : f[u] \in Int
      /\ g[t] \in Int
      /\ \A u \in S \ {t} : f[u] = g[u]
  <2>1. t \in S
    OBVIOUS
  <2>2. \A u \in S \ {t} : f[u] = g[u]
    BY <1>1
  <2>3. \A u \in 1..Len(tr) : Pnl(pa[u], m) \in Int /\ Pnl(pa2[u], m) \in Int
    BY PnlIsInt DEF Columns
  <2> HIDE DEF S
  <2> QED
    BY <1>1, <2>1, <2>2, <2>3
<1>3. f[t] = Pnl(pa[t], m) /\ g[t] = Pnl(pa2[t], m)
  BY <1>1
<1> HIDE DEF f, g, S
<1>4. t \in S
  BY DEF S
<1>5. SumFunctionOnSet(g, S) = SumFunctionOnSet(f, S) + g[t] - f[t]
  BY <1>1, <1>2, <1>4, SumChange
<1> QED
  BY <1>3, <1>5 DEF MonthPnl, f, g, S

\* The participations of one settled trade change.
LEMMA LedgerPaid ==
    ASSUME NEW tr, NEW pa, NEW pa2, NEW m, NEW t \in 1..Len(tr), tr[t].month \in Months,
           Columns(tr, pa), Columns(tr, pa2),
           \A u \in (1..Len(tr)) \ {t} : pa2[u] = pa[u]
    PROVE  Ledger(tr, pa2, m) = Ledger(tr, pa, m) + Pnl(pa2[t], m) - Pnl(pa[t], m)
<1>1. PICK month \in Months : month = tr[t].month
  OBVIOUS
<1>2. \A other \in Months \ {month} :
         MonthPnl(tr, pa2, m, other) = MonthPnl(tr, pa, m, other)
  <2> SUFFICES ASSUME NEW other \in Months \ {month}
               PROVE  MonthPnl(tr, pa2, m, other) = MonthPnl(tr, pa, m, other)
    OBVIOUS
  <2>1. t \notin SettledIn(tr, other) /\ SettledIn(tr, other) \subseteq 1..Len(tr)
    BY <1>1 DEF SettledIn
  <2>2. \A u \in SettledIn(tr, other) : Pnl(pa2[u], m) = Pnl(pa[u], m)
    BY <2>1
  <2> QED
    BY <2>2, MonthSame
<1>3. MonthPnl(tr, pa2, m, month)
        = MonthPnl(tr, pa, m, month) + Pnl(pa2[t], m) - Pnl(pa[t], m)
  <2>1. SettledIn(tr, month) \subseteq 1..Len(tr) /\ t \in SettledIn(tr, month)
    BY <1>1 DEF SettledIn
  <2>2. \A u \in SettledIn(tr, month) \ {t} : Pnl(pa2[u], m) = Pnl(pa[u], m)
    BY <2>1
  <2> QED
    BY <2>1, <2>2, MonthPaid
<1> DEFINE f == [mo \in Months |-> MonthPnl(tr, pa, m, mo)]
           g == [mo \in Months |-> MonthPnl(tr, pa2, m, mo)]
<1>4. (\A mo \in Months : f[mo] \in Int) /\ g[month] \in Int
      /\ (\A mo \in Months \ {month} : f[mo] = g[mo])
  BY <1>2, MonthPnlIsInt
<1>5. IsFiniteSet(Months)
  BY FundAssumption DEF FundAssumption
<1>6. g[month] = f[month] + Pnl(pa2[t], m) - Pnl(pa[t], m)
  BY <1>3
<1>7. Pnl(pa2[t], m) \in Int /\ Pnl(pa[t], m) \in Int
  BY PnlIsInt DEF Columns
<1> HIDE DEF f, g
<1>8. SumFunctionOnSet(g, Months) = SumFunctionOnSet(f, Months) + g[month] - f[month]
  BY <1>4, <1>5, SumChange
<1>9. SumFunctionOnSet(f, Months) \in Int
  BY <1>4, <1>5, SumType
<1>10. SumFunctionOnSet(g, Months)
         = SumFunctionOnSet(f, Months) + Pnl(pa2[t], m) - Pnl(pa[t], m)
  BY <1>4, <1>6, <1>7, <1>8, <1>9
<1> QED
  BY <1>10 DEF Ledger, f, g

LEMMA LedgerZero ==
    ASSUME NEW tr, NEW pa, NEW m, Columns(tr, pa), \A t \in 1..Len(tr) : Pnl(pa[t], m) = 0
    PROVE  Ledger(tr, pa, m) = 0
<1>1. ASSUME NEW month \in Months
      PROVE  MonthPnl(tr, pa, m, month) = 0
  <2> DEFINE f == [t \in 1..Len(tr) |-> Pnl(pa[t], m)]
  <2>1. IsFiniteSet(SettledIn(tr, month)) /\ SettledIn(tr, month) \subseteq 1..Len(tr)
    BY SettledFinite DEF Columns
  <2>2. \A t \in SettledIn(tr, month) : f[t] = 0
    BY <2>1
  <2> HIDE DEF f
  <2>3. SumFunctionOnSet(f, SettledIn(tr, month)) = 0
    BY <2>1, <2>2, SumZero
  <2> QED
    BY <2>3 DEF MonthPnl, f
<1> DEFINE g == [month \in Months |-> MonthPnl(tr, pa, m, month)]
<1>2. IsFiniteSet(Months) /\ \A month \in Months : g[month] = 0
  BY <1>1, FundAssumption DEF FundAssumption
<1> HIDE DEF g
<1>3. SumFunctionOnSet(g, Months) = 0
  BY <1>2, SumZero
<1> QED
  BY <1>3 DEF Ledger, g

-----------------------------------------------------------------------------
\* A member takes part in a trade once.
OnePerMember ==
    /\ \A t \in TradeIds : \A p, q \in part[t] : p.member = q.member => p = q
    /\ \A h \in Handlers : \A s, u \in request[h].seen : s[1] = u[1] => s = u

\* Nobody takes part before they joined: a row once deleted keeps its participations.
Joined ==
    /\ \A t \in TradeIds : \A p \in part[t] : member[p.member].status # "none"
    /\ \A h \in Handlers : \A s \in request[h].seen : member[s[1]].status # "none"

\* Opened and closed one after the other, only the last trade can be unfinished.
OneAtATime ==
    /\ \A h, g \in Handlers : request[h].at # "idle" /\ request[g].at # "idle" => h = g
    /\ \A t \in TradeIds : ~Closed(t) \/ Working(t) => t = Len(trade)
    /\ \A h \in Handlers : request[h].at \in {"select", "insert"} => ~Closed(request[h].of)
    /\ \A h \in Handlers : request[h].at = "apply" => Closed(request[h].of)

\* Opened, and not paid out yet
Unsettled(t) == ~Closed(t) \/ \E h \in Handlers : request[h].at = "apply" /\ request[h].of = t

\* What an unpaid trade recorded of a member's balance is still the balance, and no
\* settlement shows any of it.
SnapshotStands ==
    /\ \A t \in TradeIds : Unsettled(t) =>
          \A p \in part[t] :
             /\ p.pnl = 0
             /\ InTable(p.member) => member[p.member].balance = p.atOpen
    /\ \A h \in Handlers : request[h].at = "insert" =>
          \A s \in request[h].seen : InTable(s[1]) => member[s[1]].balance = s[2]

LedgerInv ==
    /\ OnePerMember
    /\ Joined
    /\ orderly => OneAtATime /\ SnapshotStands
    /\ LedgerBalances

LEMMA ColumnsHold == FundInv /\ OnePerMember => Columns(trade, part)
BY DEF FundInv, FundShape, OnePerMember, Columns, OneEach, TradeIds

LEMMA LedgerInit == FundInit => LedgerInv
<1> SUFFICES ASSUME FundInit PROVE LedgerInv
  OBVIOUS
<1>1. TradeIds = {} /\ orderly = TRUE /\ \A h \in Handlers : request[h] = Idle
  BY DEF FundInit, TradeIds
<1>2. \A h \in Handlers : request[h].at = "idle" /\ request[h].seen = {}
  BY <1>1 DEF Idle
<1>3. \A m \in Members : ~InTable(m)
  BY DEF FundInit, InTable, NoMember
<1>4. OnePerMember /\ Joined /\ LedgerBalances
  BY <1>1, <1>2, <1>3 DEF OnePerMember, Joined, LedgerBalances
<1>5. OneAtATime /\ SnapshotStands
  BY <1>1, <1>2 DEF OneAtATime, SnapshotStands
<1> QED
  BY <1>4, <1>5 DEF LedgerInv

\* The trades stay as they are; who joins has taken part in none.
LEMMA MembersKeep ==
    ASSUME FundInv, LedgerInv, UNCHANGED <<trade, part, request>>, orderly' => orderly,
           \A m \in Members : member[m].status # "none" => member'[m].status # "none",
           orderly' => \A m \in Members : InTable(m)' =>
              IF member[m].status = "none" THEN member'[m].balance = member'[m].deposit
                                          ELSE InTable(m) /\ member'[m].balance = member[m].balance
                                                 /\ member'[m].deposit = member[m].deposit,
           member' \in [Members -> Member]
    PROVE  LedgerInv'
<1>1. /\ TradeIds' = TradeIds /\ part \in Seq(SUBSET Participation) /\ Len(part) = Len(trade)
      /\ request \in [Handlers -> Request]
      /\ \A t : /\ Closed(t)' <=> Closed(t)
                /\ Working(t)' <=> Working(t)
                /\ Unsettled(t)' <=> Unsettled(t)
  BY DEF TradeIds, FundInv, FundShape, Closed, Working, Unsettled
<1>2. /\ \A t \in TradeIds : \A p \in part[t] : p.member \in Members
      /\ \A h \in Handlers : \A s \in request[h].seen : s[1] \in Members
  <2>1. ASSUME NEW t \in TradeIds, NEW p \in part[t] PROVE p.member \in Members
    BY <1>1 DEF TradeIds, Participation
  <2>2. ASSUME NEW h \in Handlers, NEW s \in request[h].seen PROVE s[1] \in Members
    <3>1. request[h].seen \subseteq Members \X Int
      BY <1>1 DEF Request
    <3> QED
      BY <3>1
  <2> QED
    BY <2>1, <2>2
<1>3. OnePerMember' /\ Joined'
  BY <1>1, <1>2 DEF LedgerInv, OnePerMember, Joined
<1>4. ASSUME orderly'
      PROVE  OneAtATime' /\ SnapshotStands'
  <2>1. OneAtATime /\ SnapshotStands /\ Joined
    BY <1>4 DEF LedgerInv
  <2>2. OneAtATime'
    BY <1>1, <2>1 DEF OneAtATime
  <2>3. \A m \in Members : member[m].status # "none" /\ InTable(m)' =>
           InTable(m) /\ member'[m].balance = member[m].balance
    BY <1>4
  <2>4. \A t \in TradeIds' : Unsettled(t)' =>
           \A p \in part'[t] : /\ p.pnl = 0
                               /\ InTable(p.member)' => member'[p.member].balance = p.atOpen
    BY <1>1, <1>2, <2>1, <2>3 DEF SnapshotStands, Joined
  <2>5. \A h \in Handlers : request'[h].at = "insert" =>
           \A s \in request'[h].seen : InTable(s[1])' => member'[s[1]].balance = s[2]
    BY <1>1, <1>2, <2>1, <2>3 DEF SnapshotStands, Joined
  <2> QED
    BY <2>2, <2>4, <2>5 DEF SnapshotStands
<1>5. ASSUME orderly', NEW m \in Members, InTable(m)'
      PROVE  member'[m].balance = member'[m].deposit + Ledger(trade, part, m)
  <2>1. CASE member[m].status = "none"
    <3>1. \A t \in TradeIds : \A p \in part[t] : p.member # m
      BY <2>1 DEF LedgerInv, Joined
    <3>2. \A t \in 1..Len(trade) : Pnl(part[t], m) = 0
      BY <3>1, PnlOfNone DEF TradeIds
    <3>3. Ledger(trade, part, m) = 0
      BY <3>2, LedgerZero, ColumnsHold DEF LedgerInv
    <3> QED
      BY <1>5, <2>1, <3>3 DEF Member
  <2>2. CASE member[m].status # "none"
    BY <1>5, <2>2, LedgerReads DEF LedgerInv
  <2> QED
    BY <2>1, <2>2
<1>6. LedgerBalances'
  BY <1>5, LedgerReadsNext
<1> QED
  BY <1>3, <1>4, <1>6 DEF LedgerInv

LEMMA LedgerMembers ==
    ASSUME FundInv, LedgerInv,
           \/ \E m \in Members, amount \in Amounts, day \in Days : AddMember(m, amount, day)
           \/ \E m \in Members, amount \in Amounts : UpdateMemberBalance(m, amount)
           \/ \E m \in Members : DeactivateMember(m)
           \/ \E m \in Members : DeleteMember(m)
    PROVE  LedgerInv'
<1>1. FundInv' /\ member \in [Members -> Member]
  BY MemberSteps DEF FundInv, FundShape
<1>2. member' \in [Members -> Member]
  BY <1>1 DEF FundInv, FundShape
<1>3. ASSUME NEW m \in Members, NEW amount \in Amounts, NEW day \in Days,
             AddMember(m, amount, day)
      PROVE  LedgerInv'
  <2>1. /\ member[m].status = "none" /\ UNCHANGED <<trade, part, request, orderly>>
        /\ member'[m].status = "active" /\ member'[m].balance = member'[m].deposit
        /\ \A n \in Members \ {m} : member'[n] = member[n]
    BY <1>1, <1>3 DEF AddMember
  <2>2. \A n \in Members : InTable(n)' =>
           IF member[n].status = "none" THEN member'[n].balance = member'[n].deposit
                                       ELSE InTable(n) /\ member'[n].balance = member[n].balance
                                              /\ member'[n].deposit = member[n].deposit
    BY <2>1 DEF InTable
  <2> QED
    BY <1>2, <2>1, <2>2, MembersKeep
<1>4. ASSUME NEW m \in Members, NEW amount \in Amounts, UpdateMemberBalance(m, amount)
      PROVE  LedgerInv'
  <2>1. \A n \in Members : member'[n].status = member[n].status
    BY <1>1, <1>4 DEF UpdateMemberBalance
  <2>2. UNCHANGED <<trade, part, request>> /\ orderly' = FALSE
    BY <1>4 DEF UpdateMemberBalance
  <2> QED
    BY <1>2, <2>1, <2>2, MembersKeep
<1>5. ASSUME NEW m \in Members, DeactivateMember(m) \/ DeleteMember(m)
      PROVE  LedgerInv'
  <2>1. /\ InTable(m) /\ UNCHANGED <<trade, part, request, orderly>>
        /\ member'[m].status \in {"inactive", "deleted"}
        /\ member'[m].balance = member[m].balance /\ member'[m].deposit = member[m].deposit
        /\ \A n \in Members \ {m} : member'[n] = member[n]
    BY <1>1, <1>5 DEF DeactivateMember, DeleteMember, Member
  <2>2. \A n \in Members : InTable(n)' =>
           IF member[n].status = "none" THEN member'[n].balance = member'[n].deposit
                                       ELSE InTable(n) /\ member'[n].balance = member[n].balance
                                              /\ member'[n].deposit = member[n].deposit
    BY <2>1 DEF InTable
  <2>3. \A n \in Members : member[n].status # "none" => member'[n].status # "none"
    BY <2>1
  <2> QED
    BY <1>2, <2>1, <2>2, <2>3, MembersKeep
<1> QED
  BY <1>3, <1>4, <1>5

LEMMA LedgerAddTrade ==
    ASSUME FundInv, LedgerInv, NEW h \in Handlers, NEW day \in Days, AddTrade(h, day)
    PROVE  LedgerInv'
<1> DEFINE n == Len(trade)
           born == [opened |-> day, rate |-> 0, month |-> 0]
           job == [Idle EXCEPT !.at = "select", !.of = n + 1]
<1>1. /\ trade \in Seq(Trade) /\ part \in Seq(SUBSET Participation) /\ Len(part) = n
      /\ n \in Nat /\ request \in [Handlers -> Request]
      /\ \A g \in Handlers : request[g].at # "idle" => request[g].of \in TradeIds
  BY DEF FundInv, FundShape
<1>2. born \in Trade /\ born.month = 0
  BY FundAssumption DEF FundAssumption, Trade
<1>3. job.at = "select" /\ job.of = n + 1 /\ job.seen = {}
  BY DEF Idle
<1>4. /\ trade' = Append(trade, born) /\ part' = Append(part, {})
      /\ request' = [request EXCEPT ![h] = job] /\ request[h].at = "idle"
      /\ member' = member
      /\ orderly' = (orderly /\ \A t \in TradeIds : Closed(t) /\ ~Working(t))
  BY DEF AddTrade
<1>5. FundInv'
  BY AddTradeStep
<1> HIDE DEF born, job
<1>6. /\ Len(trade') = n + 1 /\ trade'[n + 1] = born /\ part'[n + 1] = {}
      /\ \A t \in TradeIds : trade'[t] = trade[t] /\ part'[t] = part[t]
      /\ TradeIds' = TradeIds \cup {n + 1} /\ n + 1 \notin TradeIds
  BY <1>1, <1>2, <1>4 DEF TradeIds
<1>7. request'[h] = job /\ \A g \in Handlers \ {h} : request'[g] = request[g]
  BY <1>1, <1>4
<1>8. OnePerMember'
  BY <1>3, <1>6, <1>7 DEF LedgerInv, OnePerMember
<1>9. Joined'
  BY <1>3, <1>4, <1>6, <1>7 DEF LedgerInv, Joined
<1>10. ASSUME orderly' PROVE OneAtATime' /\ SnapshotStands'
  <2>1. /\ OneAtATime /\ SnapshotStands
        /\ \A t \in TradeIds : Closed(t) /\ ~Working(t)
    BY <1>4, <1>10 DEF LedgerInv
  <2>2. \A g \in Handlers : request[g].at = "idle"
    BY <1>1, <2>1 DEF Working
  <2>3. \A g \in Handlers : request'[g].at # "idle" => g = h
    BY <1>7, <2>2
  <2>4. \A t \in TradeIds : Closed(t)' /\ ~Working(t)'
    BY <1>3, <1>6, <1>7, <2>1, <2>3 DEF Closed, Working
  <2>5. trade'[n + 1].month = 0
    BY <1>2, <1>6
  <2>6. OneAtATime'
    BY <1>3, <1>6, <1>7, <2>3, <2>4, <2>5 DEF OneAtATime, Closed
  <2>7. \A t \in TradeIds : ~Unsettled(t)'
    BY <1>3, <1>7, <2>3, <2>4 DEF Unsettled
  <2>8. SnapshotStands'
    BY <1>3, <1>6, <1>7, <2>3, <2>7 DEF SnapshotStands
  <2> QED
    BY <2>6, <2>8
<1>11. ASSUME NEW m \in Members PROVE Ledger(trade', part', m) = Ledger(trade, part, m)
  <2>1. Columns(trade, part) /\ Columns(trade', part')
    BY <1>5, <1>8, ColumnsHold DEF LedgerInv, FundInv, FundShape, OnePerMember, Columns, OneEach,
       TradeIds
  <2>2. ASSUME NEW month \in Months
        PROVE  MonthPnl(trade', part', m, month) = MonthPnl(trade, part, m, month)
    <3>1. 0 # month
      BY FundAssumption DEF FundAssumption
    <3>2. SettledIn(trade', month) = SettledIn(trade, month)
      BY <1>2, <1>6, <3>1 DEF SettledIn, TradeIds
    <3>3. \A t \in SettledIn(trade, month) : Pnl(part'[t], m) = Pnl(part[t], m)
      BY <1>6 DEF SettledIn, TradeIds
    <3> QED
      BY <2>1, <3>2, <3>3, MonthSame
  <2> QED
    BY <2>2, LedgerSame
<1>12. LedgerBalances'
  BY <1>4, <1>11, LedgerReads, LedgerReadsNext DEF LedgerInv, InTable
<1> QED
  BY <1>8, <1>9, <1>10, <1>12 DEF LedgerInv

LEMMA LedgerSelect ==
    ASSUME FundInv, LedgerInv, NEW h \in Handlers, SelectMembers(h)
    PROVE  LedgerInv'
<1> DEFINE seen == Snapshot(request[h].of)
<1>1. /\ request \in [Handlers -> Request] /\ request[h].at = "select"
      /\ member \in [Members -> Member]
  BY DEF FundInv, FundShape, SelectMembers
<1>2. /\ UNCHANGED <<member, trade, part, orderly>>
      /\ request'[h].at = "insert" /\ request'[h].of = request[h].of /\ request'[h].seen = seen
      /\ \A g \in Handlers \ {h} : request'[g] = request[g]
  BY <1>1 DEF SelectMembers, Request
<1>3. \A s \in seen : /\ s[1] \in Members /\ member[s[1]].status = "active"
                      /\ s[2] = member[s[1]].balance /\ s = <<s[1], s[2]>>
  BY DEF Snapshot
<1> HIDE DEF seen
<1>4. \A s, u \in seen : s[1] = u[1] => s = u
  <2> SUFFICES ASSUME NEW s \in seen, NEW u \in seen, s[1] = u[1] PROVE s = u
    OBVIOUS
  <2>1. s[2] = u[2]
    BY <1>3
  <2> QED
    BY <1>3, <2>1
<1>5. /\ TradeIds' = TradeIds
      /\ \A t : /\ Closed(t)' <=> Closed(t)
                /\ Working(t)' <=> Working(t)
                /\ Unsettled(t)' <=> Unsettled(t)
  BY <1>1, <1>2 DEF TradeIds, Closed, Working, Unsettled
<1>6. OnePerMember' /\ Joined'
  BY <1>2, <1>3, <1>4, <1>5 DEF LedgerInv, OnePerMember, Joined
<1>7. ASSUME orderly' PROVE OneAtATime' /\ SnapshotStands'
  <2>1. OneAtATime /\ SnapshotStands
    BY <1>2, <1>7 DEF LedgerInv
  <2>2. OneAtATime'
    BY <1>1, <1>2, <1>5, <2>1 DEF OneAtATime
  <2>3. SnapshotStands'
    BY <1>2, <1>3, <1>5, <2>1 DEF SnapshotStands, InTable
  <2> QED
    BY <2>2, <2>3
<1>8. LedgerBalances'
  BY <1>2, LedgerReads, LedgerReadsNext DEF LedgerInv, InTable
<1> QED
  BY <1>6, <1>7, <1>8 DEF LedgerInv

LEMMA LedgerInsert ==
    ASSUME FundInv, LedgerInv, NEW h \in Handlers, InsertParticipations(h)
    PROVE  LedgerInv'
<1> DEFINE Row(s) == [member |-> s[1], atOpen |-> s[2], paid |-> FALSE, pnl |-> 0]
           rows == {Row(s) : s \in request[h].seen}
<1>1. PICK of : of = request[h].of
  OBVIOUS
<1>2. /\ request \in [Handlers -> Request] /\ request[h].at = "insert"
      /\ of \in TradeIds /\ part \in Seq(SUBSET Participation) /\ Len(part) = Len(trade)
  BY <1>1 DEF FundInv, FundShape, InsertParticipations
<1>3. /\ UNCHANGED <<member, trade, orderly>>
      /\ request'[h] = Idle /\ \A g \in Handlers \ {h} : request'[g] = request[g]
      /\ part'[of] = rows /\ \A t \in TradeIds \ {of} : part'[t] = part[t]
  BY <1>1, <1>2 DEF InsertParticipations, TradeIds
<1>4. Idle.at = "idle" /\ Idle.seen = {}
  BY DEF Idle
<1>5. \A p \in rows : \E s \in request[h].seen :
         p.member = s[1] /\ p.atOpen = s[2] /\ p.pnl = 0 /\ p = Row(s)
  OBVIOUS
<1> HIDE DEF rows, Row
<1>6. TradeIds' = TradeIds /\ \A t : Closed(t)' <=> Closed(t)
  BY <1>3 DEF TradeIds, Closed
<1>7. ASSUME NEW p \in rows, NEW q \in rows, p.member = q.member
      PROVE  p = q
  BY <1>5, <1>7 DEF LedgerInv, OnePerMember
<1>8. OnePerMember'
  BY <1>3, <1>4, <1>6, <1>7 DEF LedgerInv, OnePerMember
<1>9. Joined'
  BY <1>3, <1>4, <1>5, <1>6 DEF LedgerInv, Joined
<1>10. ASSUME orderly' PROVE OneAtATime' /\ SnapshotStands'
  <2>1. OneAtATime /\ SnapshotStands
    BY <1>3, <1>10 DEF LedgerInv
  <2>2. \A g \in Handlers : request'[g].at = "idle"
    BY <1>2, <1>3, <1>4, <2>1 DEF OneAtATime
  <2>3. ASSUME NEW t \in TradeIds, ~Closed(t) PROVE t = Len(trade)
    BY <2>1, <2>3 DEF OneAtATime
  <2>4. OneAtATime'
    BY <1>3, <1>6, <2>2, <2>3 DEF OneAtATime, Working
  <2>5. \A p \in rows : p.pnl = 0 /\ (InTable(p.member) => member[p.member].balance = p.atOpen)
    BY <1>2, <1>5, <2>1 DEF SnapshotStands
  <2>6. \A t \in TradeIds : Unsettled(t)' => Unsettled(t)
    BY <1>6, <2>2 DEF Unsettled
  <2>7. SnapshotStands'
    BY <1>3, <1>6, <2>1, <2>2, <2>5, <2>6 DEF SnapshotStands, InTable
  <2> QED
    BY <2>4, <2>7
<1>11. FundInv'
  BY InsertParticipationsStep
<1>12. ASSUME orderly', NEW m \in Members
       PROVE  Ledger(trade', part', m) = Ledger(trade, part, m)
  <2>1. Columns(trade, part) /\ Columns(trade', part')
    BY <1>8, <1>11, ColumnsHold DEF LedgerInv, FundInv, FundShape, OnePerMember, Columns, OneEach,
       TradeIds
  <2>2. ~Closed(of)
    BY <1>1, <1>2, <1>3, <1>12 DEF LedgerInv, OneAtATime
  <2>3. ASSUME NEW month \in Months
        PROVE  MonthPnl(trade', part', m, month) = MonthPnl(trade, part, m, month)
    <3>1. of \notin SettledIn(trade, month)
      BY <2>2, FundAssumption DEF FundAssumption, SettledIn, Closed
    <3>2. SettledIn(trade', month) = SettledIn(trade, month)
      BY <1>3
    <3>3. \A t \in SettledIn(trade, month) : Pnl(part'[t], m) = Pnl(part[t], m)
      BY <1>3, <3>1 DEF SettledIn, TradeIds
    <3> QED
      BY <2>1, <3>2, <3>3, MonthSame
  <2> QED
    BY <2>3, LedgerSame
<1>13. LedgerBalances'
  BY <1>3, <1>12, LedgerReads, LedgerReadsNext DEF LedgerInv, InTable
<1> QED
  BY <1>8, <1>9, <1>10, <1>13 DEF LedgerInv

\* A handler's failure leaves the tables as they are.
LEMMA LedgerFails ==
    ASSUME FundInv, LedgerInv, NEW h \in Handlers, HandlerFails(h)
    PROVE  LedgerInv'
<1>1. request \in [Handlers -> Request]
  BY DEF FundInv, FundShape
<1>2. /\ UNCHANGED <<member, trade, part, orderly>>
      /\ request'[h] = Idle /\ \A g \in Handlers \ {h} : request'[g] = request[g]
  BY <1>1 DEF HandlerFails
<1>3. Idle.at = "idle" /\ Idle.seen = {}
  BY DEF Idle
<1>4. TradeIds' = TradeIds /\ \A t : (Closed(t)' <=> Closed(t)) /\ (Working(t)' => Working(t))
                                  /\ (Unsettled(t)' => Unsettled(t))
  BY <1>2, <1>3 DEF TradeIds, Closed, Working, Unsettled
<1>5. OnePerMember' /\ Joined'
  BY <1>2, <1>3, <1>4 DEF LedgerInv, OnePerMember, Joined
<1>6. ASSUME orderly' PROVE OneAtATime' /\ SnapshotStands'
  <2>1. OneAtATime /\ SnapshotStands
    BY <1>2, <1>6 DEF LedgerInv
  <2>2. OneAtATime'
    BY <1>2, <1>3, <1>4, <2>1 DEF OneAtATime
  <2>3. SnapshotStands'
    BY <1>2, <1>3, <1>4, <2>1 DEF SnapshotStands, InTable
  <2> QED
    BY <2>2, <2>3
<1>7. LedgerBalances'
  BY <1>2, LedgerReads, LedgerReadsNext DEF LedgerInv, InTable
<1> QED
  BY <1>5, <1>6, <1>7 DEF LedgerInv

LEMMA LedgerClose ==
    ASSUME FundInv, LedgerInv, NEW h \in Handlers, NEW t \in TradeIds, NEW rate \in Rates,
           NEW month \in Months, CloseTrade(h, t, rate, month)
    PROVE  LedgerInv'
<1> DEFINE shut == [trade[t] EXCEPT !.rate = rate, !.month = month]
           job == [Idle EXCEPT !.at = "apply", !.of = t, !.rate = rate]
<1>1. /\ trade \in Seq(Trade) /\ request \in [Handlers -> Request] /\ trade[t] \in Trade
      /\ \A g \in Handlers : request[g].at # "idle" => request[g].of \in TradeIds
  BY DEF FundInv, FundShape, TradeIds
<1>2. shut.month = month /\ month # 0
  BY <1>1, FundAssumption DEF Trade, FundAssumption
<1>3. job.at = "apply" /\ job.of = t /\ job.seen = {}
  BY DEF Idle
<1>4. /\ trade' = [trade EXCEPT ![t] = shut] /\ UNCHANGED <<member, part>>
      /\ request' = [request EXCEPT ![h] = job] /\ request[h].at = "idle"
      /\ orderly' = (orderly /\ ~Closed(t) /\ ~Working(t))
  BY <1>1 DEF CloseTrade, TradeIds
<1> HIDE DEF shut, job
<1>5. /\ Len(trade') = Len(trade) /\ TradeIds' = TradeIds
      /\ trade'[t].month = month /\ \A u \in TradeIds \ {t} : trade'[u] = trade[u]
  BY <1>1, <1>2, <1>4 DEF TradeIds
<1>6. request'[h] = job /\ \A g \in Handlers \ {h} : request'[g] = request[g]
  BY <1>1, <1>4
<1>7. OnePerMember' /\ Joined'
  BY <1>3, <1>4, <1>5, <1>6 DEF LedgerInv, OnePerMember, Joined
<1>8. ASSUME orderly'
      PROVE  /\ OneAtATime' /\ SnapshotStands'
             /\ ~Closed(t) /\ \A p \in part[t] : p.pnl = 0
  <2>1. OneAtATime /\ SnapshotStands /\ ~Closed(t) /\ ~Working(t)
    BY <1>4, <1>8 DEF LedgerInv
  <2>2. \A u \in TradeIds \ {t} : Closed(u) /\ ~Working(u)
    BY <2>1 DEF OneAtATime
  <2>3. \A g \in Handlers : request[g].at = "idle"
    BY <1>1, <2>1, <2>2 DEF Working
  <2>4. \A g \in Handlers : request'[g].at # "idle" => g = h
    BY <1>6, <2>3
  <2>5. \A u \in TradeIds \ {t} : trade'[u].month # 0 /\ ~Working(u)' /\ ~Unsettled(u)'
    BY <1>3, <1>5, <1>6, <2>2, <2>4 DEF Closed, Working, Unsettled
  <2>6. t = Len(trade)
    BY <2>1 DEF OneAtATime
  <2>7. OneAtATime'
    BY <1>2, <1>3, <1>5, <1>6, <2>4, <2>5, <2>6 DEF OneAtATime, Closed
  <2>8. Unsettled(t)
    BY <2>1 DEF Unsettled
  <2>9. SnapshotStands'
    BY <1>3, <1>4, <1>5, <1>6, <2>1, <2>4, <2>5, <2>8 DEF SnapshotStands, InTable
  <2> QED
    BY <2>1, <2>7, <2>8, <2>9 DEF SnapshotStands
<1>9. FundInv'
  BY CloseTradeStep
<1>10. ASSUME orderly', NEW m \in Members
       PROVE  Ledger(trade', part', m) = Ledger(trade, part, m)
  <2>1. Columns(trade, part) /\ Columns(trade', part')
    BY <1>7, <1>9, ColumnsHold DEF LedgerInv, FundInv, FundShape, OnePerMember, Columns, OneEach,
       TradeIds
  <2>2. trade[t].month = 0 /\ Pnl(part[t], m) = 0
    <3>1. OneEach(part[t]) /\ part[t] \in SUBSET Participation
      BY <2>1 DEF Columns, TradeIds
    <3>2. \A p \in part[t] : p.pnl = 0
      BY <1>8, <1>10
    <3>3. Pnl(part[t], m) = 0
      BY <3>1, <3>2, PnlOfOne, PnlOfNone
    <3> QED
      BY <1>8, <1>10, <3>3 DEF Closed
  <2>3. ASSUME NEW mo \in Months
        PROVE  MonthPnl(trade', part', m, mo) = MonthPnl(trade, part, m, mo)
    <3>1. t \notin SettledIn(trade, mo)
      BY <2>2, FundAssumption DEF FundAssumption, SettledIn
    <3>2. \A u \in SettledIn(trade, mo) : Pnl(part'[u], m) = Pnl(part[u], m)
      BY <1>4
    <3>3. CASE mo = month
      <4>1. SettledIn(trade', mo) = SettledIn(trade, mo) \cup {t}
        BY <1>5, <3>1, <3>3 DEF SettledIn, TradeIds
      <4>2. Pnl(part'[t], m) = 0
        BY <1>4, <2>2
      <4> QED
        BY <2>1, <3>1, <3>2, <4>1, <4>2, MonthJoined
    <3>4. CASE mo # month
      <4>1. SettledIn(trade', mo) = SettledIn(trade, mo)
        BY <1>5, <3>1, <3>4 DEF SettledIn, TradeIds
      <4> QED
        BY <2>1, <3>2, <4>1, MonthSame
    <3> QED
      BY <3>3, <3>4
  <2> QED
    BY <2>3, LedgerSame
<1>11. LedgerBalances'
  BY <1>4, <1>10, LedgerReads, LedgerReadsNext DEF LedgerInv, InTable
<1> QED
  BY <1>7, <1>8, <1>11 DEF LedgerInv

\* What a handler pays and what the settlement of the trade's month gains.
LEMMA LedgerApply ==
    ASSUME FundInv, LedgerInv, NEW h \in Handlers, ApplyPnl(h)
    PROVE  LedgerInv'
<1>1. PICK of, rate : of = request[h].of /\ rate = request[h].rate
  OBVIOUS
<1> DEFINE rows == {Paid(p, rate) : p \in part[of]}
<1>2. /\ request \in [Handlers -> Request] /\ request[h].at = "apply"
      /\ of \in TradeIds /\ part \in Seq(SUBSET Participation) /\ Len(part) = Len(trade)
      /\ trade \in Seq(Trade) /\ member \in [Members -> Member]
      /\ rate \in Int /\ part[of] \in SUBSET Participation
  BY <1>1 DEF FundInv, FundShape, ApplyPnl, TradeIds, Request
<1>3. /\ UNCHANGED <<trade, orderly>>
      /\ request'[h] = Idle /\ \A g \in Handlers \ {h} : request'[g] = request[g]
      /\ part'[of] = rows /\ \A t \in TradeIds \ {of} : part'[t] = part[t]
      /\ member' = [m \in Members |-> [member[m] EXCEPT !.balance = BalanceAfter(m, of, rate)]]
  BY <1>1, <1>2 DEF ApplyPnl, TradeIds
<1>4. Idle.at = "idle" /\ Idle.seen = {}
  BY DEF Idle
<1>5. \A m \in Members : /\ member'[m].status = member[m].status
                         /\ member'[m].deposit = member[m].deposit
                         /\ member'[m].balance = BalanceAfter(m, of, rate)
  BY <1>2, <1>3 DEF Member
<1>6. ASSUME NEW p \in part[of]
      PROVE  /\ Paid(p, rate) \in rows /\ Paid(p, rate).pnl = p.atOpen * rate
             /\ Paid(p, rate).member = p.member /\ Paid(p, rate).atOpen = p.atOpen
  BY <1>2, PaidFields DEF Paid, Participation
<1>7. \A q \in rows : \E p \in part[of] : q = Paid(p, rate)
  OBVIOUS
<1> HIDE DEF rows
<1>8. TradeIds' = TradeIds /\ (\A t : Closed(t)' <=> Closed(t))
      /\ \A m \in Members : InTable(m)' <=> InTable(m)
  BY <1>3, <1>5 DEF TradeIds, Closed, InTable
<1>9. ASSUME NEW q \in rows, NEW r \in rows, q.member = r.member
      PROVE  q = r
  <2>1. PICK p \in part[of] : q = Paid(p, rate)
    BY <1>7
  <2>2. PICK o \in part[of] : r = Paid(o, rate)
    BY <1>7
  <2>3. p = o
    BY <1>2, <1>6, <1>9, <2>1, <2>2 DEF LedgerInv, OnePerMember
  <2> QED
    BY <2>1, <2>2, <2>3
<1>10. OnePerMember'
  BY <1>3, <1>4, <1>8, <1>9 DEF LedgerInv, OnePerMember
<1>11. Joined'
  <2>1. \A q \in rows : q.member \in Members /\ member'[q.member].status # "none"
    BY <1>2, <1>5, <1>6, <1>7 DEF LedgerInv, Joined, Participation
  <2>2. \A t \in TradeIds : \A p \in part[t] : p.member \in Members /\ member'[p.member].status # "none"
    BY <1>2, <1>5 DEF LedgerInv, Joined, Participation, TradeIds
  <2>3. \A g \in Handlers : \A s \in request[g].seen :
           s[1] \in Members /\ member'[s[1]].status # "none"
    BY <1>2, <1>5 DEF LedgerInv, Joined, Request
  <2> QED
    BY <1>3, <1>4, <1>8, <2>1, <2>2, <2>3 DEF Joined
<1>12. ASSUME orderly' PROVE OneAtATime' /\ SnapshotStands'
  <2>1. OneAtATime /\ SnapshotStands
    BY <1>3, <1>12 DEF LedgerInv
  <2>2. \A g \in Handlers : request'[g].at = "idle"
    BY <1>2, <1>3, <1>4, <2>1 DEF OneAtATime
  <2>3. ASSUME NEW t \in TradeIds PROVE Closed(t)
    <3>1. Closed(of) /\ of = Len(trade)
      BY <1>1, <1>2, <2>1 DEF OneAtATime, Working
    <3> QED
      BY <2>1, <3>1 DEF OneAtATime
  <2>4. OneAtATime'
    BY <1>8, <2>2, <2>3 DEF OneAtATime, Working
  <2>5. \A t \in TradeIds : ~Unsettled(t)'
    BY <1>8, <2>2, <2>3 DEF Unsettled
  <2>6. SnapshotStands'
    BY <1>8, <2>2, <2>5 DEF SnapshotStands
  <2> QED
    BY <2>4, <2>6
<1>13. FundInv'
  BY ApplyPnlStep
<1>14. ASSUME orderly', NEW m \in Members, InTable(m)
       PROVE  member'[m].balance = member'[m].deposit + Ledger(trade', part', m)
  <2>1. Columns(trade, part) /\ Columns(trade, part')
    BY <1>3, <1>10, <1>13, ColumnsHold DEF LedgerInv, FundInv, FundShape, OnePerMember, Columns,
       OneEach, TradeIds
  <2>2. /\ Closed(of)
        /\ \A p \in part[of] : p.pnl = 0 /\ (InTable(p.member) => member[p.member].balance = p.atOpen)
    BY <1>1, <1>2, <1>3, <1>14 DEF LedgerInv, OneAtATime, SnapshotStands, Unsettled
  <2>3. trade[of].month \in Months
    <3>1. trade[of] \in Trade /\ trade[of].month # 0
      BY <1>2, <2>2 DEF Closed, TradeIds
    <3> QED
      BY <3>1 DEF Trade
  <2>4. Ledger(trade, part', m) = Ledger(trade, part, m) + Pnl(part'[of], m) - Pnl(part[of], m)
    <3>1. of \in 1..Len(trade) /\ \A u \in (1..Len(trade)) \ {of} : part'[u] = part[u]
      BY <1>2, <1>3 DEF TradeIds
    <3> QED
      BY <2>1, <2>3, <3>1, LedgerPaid
  <2>5. member[m].balance = member[m].deposit + Ledger(trade, part, m)
    BY <1>3, <1>14, LedgerReads DEF LedgerInv
  <2>6. /\ Ledger(trade, part, m) \in Int /\ member[m].deposit \in Int
        /\ OneEach(part[of]) /\ OneEach(rows) /\ rows \in SUBSET Participation
    <3>1. Ledger(trade, part, m) \in Int
      BY <2>1, LedgerIsInt
    <3>2. member[m] \in Member
      BY <1>2
    <3>3. of \in 1..Len(trade) /\ Len(part') = Len(trade) /\ part' \in Seq(SUBSET Participation)
      BY <1>2, <2>1 DEF Columns, TradeIds
    <3>4. OneEach(part[of]) /\ OneEach(part'[of]) /\ part'[of] \in SUBSET Participation
      BY <2>1, <3>3 DEF Columns
    <3> QED
      BY <1>3, <3>1, <3>2, <3>4 DEF Member
  <2>7. CASE \E p \in part[of] : p.member = m
    <3>1. PICK p \in part[of] : p.member = m
      BY <2>7
    <3>2. Pnl(part[of], m) = 0
      BY <1>2, <2>2, <2>6, <3>1, PnlOfOne
    <3>3. Pnl(rows, m) = p.atOpen * rate
      BY <1>6, <2>6, <3>1, PnlOfOne
    <3>4. (CHOOSE q \in part[of] : q.member = m) = p
      BY <2>6, <3>1 DEF OneEach
    <3>5. BalanceAfter(m, of, rate) = p.atOpen + p.atOpen * rate
      BY <1>14, <3>1, <3>4 DEF BalanceAfter
    <3>6. member[m].balance = p.atOpen /\ p.atOpen \in Int /\ p.atOpen * rate \in Int
      BY <1>2, <1>14, <2>2, <3>1 DEF Participation
    <3>7. PICK gain \in Int : gain = p.atOpen * rate
      BY <3>6
    <3>8. /\ member'[m].balance = member[m].balance + gain
          /\ Ledger(trade, part', m) = Ledger(trade, part, m) + gain - 0
      BY <1>3, <1>5, <2>4, <3>2, <3>3, <3>5, <3>6, <3>7
    <3> QED
      BY <1>3, <1>5, <2>5, <2>6, <3>7, <3>8
  <2>8. CASE ~\E p \in part[of] : p.member = m
    <3>1. Pnl(part[of], m) = 0
      BY <2>8, PnlOfNone
    <3>2. Pnl(rows, m) = 0
      BY <1>6, <1>7, <2>8, PnlOfNone
    <3>3. member'[m].balance = member[m].balance
      BY <1>5, <2>8 DEF BalanceAfter
    <3> QED
      BY <1>3, <1>5, <2>4, <2>5, <2>6, <3>1, <3>2, <3>3
  <2> QED
    BY <2>7, <2>8
<1>15. LedgerBalances'
  BY <1>8, <1>14, LedgerReadsNext
<1> QED
  BY <1>10, <1>11, <1>12, <1>15 DEF LedgerInv

LEMMA LedgerStep == FundInv /\ LedgerInv /\ [FundNext]_fundVars => LedgerInv'
<1>1. ASSUME FundInv, LedgerInv, UNCHANGED fundVars PROVE LedgerInv'
  <2>1. \A m \in Members : InTable(m)' <=> InTable(m)
    BY <1>1 DEF fundVars, InTable
  <2> QED
    BY <1>1, <2>1, MembersKeep DEF fundVars, FundInv, FundShape, InTable
<1>2. ASSUME FundInv, LedgerInv, FundNext PROVE LedgerInv'
  BY <1>2, LedgerMembers, LedgerAddTrade, LedgerSelect, LedgerInsert, LedgerClose, LedgerApply,
     LedgerFails DEF FundNext
<1> QED
  BY <1>1, <1>2

\* Trades opened and closed one after the other: whatever else members do, and
\* whichever handlers fail, each balance stays the deposit plus what the settlements of
\* all months show (add_trade, close_trade, get_settlement_data).
THEOREM BalancesSettle == FundSpec => []LedgerBalances
<1>1. LedgerInv => LedgerBalances
  BY DEF LedgerInv
<1> QED
  BY <1>1, FundInvInit, FundInvStep, LedgerInit, LedgerStep, PTL DEF FundSpec

OrderlyType == orderly \in BOOLEAN

LEMMA OrderlyStep == OrderlyType /\ [FundNext]_fundVars => OrderlyType'
BY DEF OrderlyType, FundNext, fundVars, AddMember, UpdateMemberBalance, DeactivateMember,
   DeleteMember, AddTrade, SelectMembers, InsertParticipations, CloseTrade, ApplyPnl, HandlerFails

\* The rows of the fund keep their types, and the UNIQUE key of fund_participations
\* never makes INSERT OR IGNORE drop a row: no member is in one trade twice.
THEOREM FundTypesHold == FundSpec => []FundTypeOK
<1>1. FundInit => OrderlyType
  BY DEF FundInit, OrderlyType
<1>2. FundInv /\ LedgerInv /\ OrderlyType => FundTypeOK
  BY DEF OrderlyType, FundInv, FundShape, LedgerInv, OnePerMember, FundTypeOK
<1> QED
  BY <1>1, <1>2, FundInvInit, FundInvStep, LedgerInit, LedgerStep, OrderlyStep, PTL DEF FundSpec

-----------------------------------------------------------------------------
(* Accounts                                                                *)

Work ==
    [at : {"idle", "register", "pay"}, email : Emails, of : Nat, until : Nat]

\* The columns keep their types; an account without a payment has no first one.
AccountShape ==
    /\ account \in Seq(Account)
    /\ paidOn \in Seq(Nat)
    /\ payments \in Seq(Nat)
    /\ Len(paidOn) = Len(account)
    /\ Len(payments) = Len(account)
    /\ serving \in [Threads -> Work]
    /\ \A h \in Threads : /\ serving[h].of \in {0} \cup AccountIds
                          /\ serving[h].of # 0 <=> serving[h].at = "pay"
    /\ today \in Nat \ {0}
    /\ \A a \in AccountIds : paidOn[a] = 0 <=> payments[a] = 0

WorksFor(h, a) == serving[h].of = a

\* What an account's payments have bought, from the day of the first one
Bought(a) == paidOn[a] + Period * payments[a]

\* A second thread about the same account is on record.
OneServer ==
    \A h, g \in Threads : \A a \in AccountIds \ collided :
        WorksFor(h, a) /\ WorksFor(g, a) => h = g

\* The date a thread is about to write holds what was bought, its own months too:
\* nobody else writes in between.
DatesHold ==
    /\ \A a \in AccountIds \ collided :
          Exists(a) /\ payments[a] > 0 /\ (\A h \in Threads : ~WorksFor(h, a)) =>
              account[a].paidUntil >= Bought(a)
    /\ \A a \in AccountIds \ collided : \A h \in Threads :
          WorksFor(h, a) => serving[h].until >= Bought(a)

IsMember(a, email) ==
    Exists(a) /\ account[a].role = "member" /\ account[a].email = email

Claims(h, email) == serving[h].at = "register" /\ serving[h].email = email

\* An address is a member's, or one thread's that has looked for it.
AddressesApart ==
    \A email \in Emails \ collided :
        /\ \A a, b \in AccountIds : IsMember(a, email) /\ IsMember(b, email) => a = b
        /\ \A h, g \in Threads : Claims(h, email) /\ Claims(g, email) => h = g
        /\ \A h \in Threads, a \in AccountIds : ~(Claims(h, email) /\ IsMember(a, email))

AccountInv == AccountShape /\ OneServer /\ DatesHold /\ AddressesApart

-----------------------------------------------------------------------------
LEMMA NoWorkShape == NoWork \in Work /\ NoWork.at = "idle" /\ NoWork.of = 0
BY AccountAssumption DEF NoWork, Work, AccountAssumption

LEMMA RowReplaced ==
    ASSUME NEW S, NEW s \in Seq(S), NEW i \in 1..Len(s), NEW x \in S,
           NEW t, t = [s EXCEPT ![i] = x]
    PROVE  /\ t \in Seq(S) /\ Len(t) = Len(s)
           /\ t[i] = x /\ \A j \in 1..Len(s) \ {i} : t[j] = s[j]
OBVIOUS

LEMMA RowFields ==
    ASSUME AccountShape, NEW a \in AccountIds
    PROVE  /\ account[a] \in Account /\ account[a].email \in Emails
           /\ account[a].paidUntil \in Nat
           /\ paidOn[a] \in Nat /\ payments[a] \in Nat
           /\ a \in Nat \ {0}
<1>1. a \in 1..Len(account) /\ account \in Seq(Account)
  BY DEF AccountShape, AccountIds
<1>2. account[a] \in Account
  BY <1>1
<1>3. paidOn[a] \in Nat /\ payments[a] \in Nat
  BY <1>1 DEF AccountShape
<1> QED
  BY <1>1, <1>2, <1>3 DEF Account

LEMMA AccountInitOK == AccountInit => AccountInv
<1> SUFFICES ASSUME AccountInit PROVE AccountInv
  OBVIOUS
<1>1. /\ account = << >> /\ paidOn = << >> /\ payments = << >> /\ today = 1
      /\ serving = [h \in Threads |-> NoWork]
  BY DEF AccountInit
<1>2. AccountIds = {}
  BY <1>1 DEF AccountIds
<1> QED
  BY <1>1, <1>2, NoWorkShape
     DEF AccountInv, AccountShape, OneServer, DatesHold, AddressesApart, Claims

-----------------------------------------------------------------------------
\* A new account has no payment, and no thread serves it yet.
LEMMA InsertStep ==
    ASSUME AccountInv, NEW row \in Account, Insert(row), row.deleted = FALSE,
           NEW email, email = row.email,
           NEW n, n = Len(account),
           \/ serving' = serving /\ row.role # "member"
           \/ \E h \in Threads : /\ row.role = "member" /\ Claims(h, email)
                                 /\ serving' = [serving EXCEPT ![h] = NoWork],
           today' = today, collided' = collided
    PROVE  AccountInv'
<1>1. /\ n \in Nat
      /\ account' = Append(account, row) /\ paidOn' = Append(paidOn, 0)
      /\ payments' = Append(payments, 0)
      /\ AccountShape
  BY DEF Insert, AccountInv, AccountShape
<1>2. /\ account' \in Seq(Account) /\ paidOn' \in Seq(Nat) /\ payments' \in Seq(Nat)
      /\ Len(account') = n + 1 /\ Len(paidOn') = n + 1 /\ Len(payments') = n + 1
      /\ AccountIds' = AccountIds \cup {n + 1} /\ n + 1 \notin AccountIds
      /\ account'[n + 1] = row /\ payments'[n + 1] = 0 /\ paidOn'[n + 1] = 0
  BY <1>1 DEF AccountShape, AccountIds
<1>3. \A a \in AccountIds :
         /\ account'[a] = account[a] /\ paidOn'[a] = paidOn[a] /\ payments'[a] = payments[a]
         /\ Exists(a)' = Exists(a) /\ Bought(a)' = Bought(a)
  BY <1>1, <1>2 DEF AccountShape, AccountIds, Exists, Bought
<1>4. /\ serving' \in [Threads -> Work]
      /\ \A h \in Threads : /\ serving'[h].of = serving[h].of
                            /\ serving'[h].of # 0 <=> serving'[h].at = "pay"
                            /\ serving'[h].of # 0 => serving'[h] = serving[h]
                            /\ serving'[h].at = "register" => serving'[h] = serving[h]
  BY <1>1, NoWorkShape DEF AccountShape, Claims
<1>5. AccountShape'
  <2>1. \A h \in Threads : /\ serving'[h].of \in {0} \cup AccountIds'
                            /\ serving'[h].of # 0 <=> serving'[h].at = "pay"
    BY <1>1, <1>2, <1>4 DEF AccountShape
  <2>2. \A a \in AccountIds' : paidOn'[a] = 0 <=> payments'[a] = 0
    <3>1. \A a \in AccountIds : paidOn'[a] = 0 <=> payments'[a] = 0
      BY <1>1, <1>3 DEF AccountShape
    <3> QED
      BY <1>2, <3>1
  <2> QED
    BY <1>1, <1>2, <1>4, <2>1, <2>2 DEF AccountShape
<1>6. \A h \in Threads : \A a \in AccountIds' :
         WorksFor(h, a)' => WorksFor(h, a) /\ a \in AccountIds /\ serving'[h] = serving[h]
  BY <1>1, <1>2, <1>4 DEF WorksFor, AccountShape, AccountIds
<1>7. \A h \in Threads : \A a \in AccountIds : WorksFor(h, a) => WorksFor(h, a)'
  BY <1>4 DEF WorksFor
<1>8. OneServer' /\ DatesHold'
  BY <1>2, <1>3, <1>6, <1>7 DEF AccountInv, OneServer, DatesHold
<1>9. \A h \in Threads : \A e : Claims(h, e)' => Claims(h, e)
  BY <1>4 DEF Claims
<1>10. \A a \in AccountIds : \A e : IsMember(a, e)' <=> IsMember(a, e)
  BY <1>3 DEF IsMember
<1>11. \A a \in AccountIds' \ AccountIds : \A e :
          IsMember(a, e)' => row.role = "member" /\ e = email
  BY <1>2 DEF IsMember
<1>12. row.role = "member" /\ email \in Emails \ collided =>
          \A a \in AccountIds : ~IsMember(a, email)
  BY DEF AccountInv, AddressesApart
<1>13. row.role = "member" /\ email \in Emails \ collided =>
          \A h \in Threads : ~Claims(h, email)'
  <2> SUFFICES ASSUME row.role = "member", email \in Emails \ collided, NEW g \in Threads,
                      Claims(g, email)'
               PROVE  FALSE
    OBVIOUS
  <2>1. PICK f \in Threads : /\ row.role = "member" /\ Claims(f, email)
                             /\ serving' = [serving EXCEPT ![f] = NoWork]
    OBVIOUS
  <2>2. Claims(g, email)
    BY <1>9
  <2>3. g = f
    BY <2>1, <2>2 DEF AccountInv, AddressesApart
  <2>4. serving'[g] = NoWork
    BY <1>1, <2>1, <2>3 DEF AccountShape
  <2> QED
    BY <2>4, NoWorkShape DEF Claims
<1>14. AddressesApart'
  BY <1>2, <1>9, <1>10, <1>11, <1>12, <1>13 DEF AccountInv, AddressesApart
<1> QED
  BY <1>5, <1>8, <1>14 DEF AccountInv

LEMMA SeedStep ==
    ASSUME AccountInv, SeedAdmin
    PROVE  AccountInv'
<1> DEFINE row == NewAccount(AdminEmail, "admin")
<1>1. /\ row \in Account /\ row.role = "admin" /\ row.deleted = FALSE
      /\ row.email = AdminEmail
  BY AccountAssumption DEF AccountAssumption, NewAccount, Account
<1>2. Insert(row) /\ UNCHANGED <<serving, today, collided>>
  BY DEF SeedAdmin
<1> HIDE DEF row
<1> QED
  BY <1>1, <1>2, InsertStep

LEMMA RegisterStep ==
    ASSUME AccountInv, NEW h \in Threads, Register(h)
    PROVE  AccountInv'
<1> DEFINE row == NewAccount(serving[h].email, "member")
<1>1. serving[h].email \in Emails
  BY DEF AccountInv, AccountShape, Work
<1>2. /\ row \in Account /\ row.role = "member" /\ row.deleted = FALSE
      /\ row.email = serving[h].email
  BY <1>1 DEF NewAccount, Account
<1>3. /\ Insert(row) /\ UNCHANGED <<today, collided>>
      /\ Claims(h, serving[h].email) /\ serving' = [serving EXCEPT ![h] = NoWork]
  BY DEF Register, Claims
<1> HIDE DEF row
<1> QED
  BY <1>2, <1>3, InsertStep

-----------------------------------------------------------------------------
\* The address is free, and if another thread claims it too, that is on record.
LEMMA CheckStep ==
    ASSUME AccountInv, NEW h \in Threads, NEW email \in Emails, CheckEmail(h, email)
    PROVE  AccountInv'
<1> DEFINE work == [NoWork EXCEPT !.at = "register", !.email = email]
<1>1. /\ serving[h].at = "idle" /\ ~EmailKnown(email)
      /\ serving' = [serving EXCEPT ![h] = work]
      /\ UNCHANGED <<account, today, paidOn, payments>>
      /\ collided \subseteq collided'
      /\ \A g \in Threads : Claims(g, email) => email \in collided'
  BY DEF CheckEmail, Claims
<1>2. work \in Work /\ work.at = "register" /\ work.email = email /\ work.of = 0
  BY NoWorkShape DEF NoWork, Work
<1> HIDE DEF work
<1>3. /\ serving' \in [Threads -> Work] /\ serving[h].of = 0
      /\ serving'[h] = work /\ \A g \in Threads \ {h} : serving'[g] = serving[g]
  BY <1>1, <1>2 DEF AccountInv, AccountShape
<1>4. AccountIds' = AccountIds
  BY <1>1 DEF AccountIds
<1>5. AccountShape'
  BY <1>1, <1>2, <1>3, <1>4 DEF AccountInv, AccountShape
<1>6. \A g \in Threads : \A a \in AccountIds :
         /\ WorksFor(g, a)' <=> WorksFor(g, a)
         /\ WorksFor(g, a) => serving'[g] = serving[g]
  BY <1>2, <1>3 DEF WorksFor, AccountIds
<1>7. OneServer' /\ DatesHold'
  BY <1>1, <1>4, <1>6 DEF AccountInv, OneServer, DatesHold, Exists, Bought
<1>8. \A g \in Threads, e \in Emails : Claims(g, e)' <=> Claims(g, e) \/ (g = h /\ e = email)
  BY <1>1, <1>2, <1>3 DEF Claims
<1>9. \A a \in AccountIds, e \in Emails :
         (IsMember(a, e)' <=> IsMember(a, e)) /\ ~IsMember(a, email)
  BY <1>1 DEF IsMember, Exists, AccountIds, EmailKnown
<1>10. AddressesApart'
  BY <1>1, <1>4, <1>8, <1>9 DEF AccountInv, AddressesApart
<1> QED
  BY <1>5, <1>7, <1>10 DEF AccountInv

\* A deleted account's dates are nobody's, and its address is free.
LEMMA DeleteStep ==
    ASSUME AccountInv, NEW d \in AccountIds, Delete(d)
    PROVE  AccountInv'
<1>1. /\ account' = [account EXCEPT ![d].deleted = TRUE]
      /\ UNCHANGED <<serving, today, paidOn, payments, collided>>
      /\ account \in Seq(Account)
  BY DEF Delete, AccountInv, AccountShape
<1>2. PICK row : row = [account[d] EXCEPT !.deleted = TRUE]
  OBVIOUS
<1>3. account[d] \in Account
  BY RowFields DEF AccountInv
<1>4. /\ row \in Account /\ row.email = account[d].email /\ row.role = account[d].role
      /\ row.paidUntil = account[d].paidUntil /\ row.deleted
  BY <1>2, <1>3 DEF Account
<1>5. /\ account' \in Seq(Account) /\ Len(account') = Len(account)
      /\ account'[d] = row /\ \A a \in AccountIds \ {d} : account'[a] = account[a]
  <2>1. account' = [account EXCEPT ![d] = row]
    BY <1>1, <1>2
  <2>2. account \in Seq(Account) /\ d \in 1..Len(account) /\ row \in Account
    BY <1>1, <1>4 DEF AccountIds
  <2> QED
    BY <2>1, <2>2, RowReplaced DEF AccountIds
<1>6. /\ AccountIds' = AccountIds
      /\ \A a \in AccountIds : /\ account'[a].email = account[a].email
                               /\ account'[a].role = account[a].role
                               /\ account'[a].paidUntil = account[a].paidUntil
                               /\ account[a].deleted => account'[a].deleted
  BY <1>4, <1>5 DEF AccountIds
<1>7. AccountShape'
  BY <1>1, <1>5, <1>6 DEF AccountInv, AccountShape
<1>8. \A a \in AccountIds : (Exists(a)' => Exists(a)) /\ Bought(a)' = Bought(a)
  BY <1>1, <1>6 DEF Exists, Bought
<1>9. OneServer' /\ DatesHold'
  BY <1>1, <1>6, <1>8 DEF AccountInv, OneServer, DatesHold, WorksFor
<1>10. \A a \in AccountIds : \A e : IsMember(a, e)' => IsMember(a, e)
  BY <1>6, <1>8 DEF IsMember
<1>11. AddressesApart'
  BY <1>1, <1>6, <1>10 DEF AccountInv, AddressesApart, Claims
<1> QED
  BY <1>7, <1>9, <1>11 DEF AccountInv

-----------------------------------------------------------------------------
LEMMA MonthsAdd ==
    ASSUME NEW p \in Nat, NEW m \in Nat, NEW n \in Nat
    PROVE  p * (m + n) = p * m + p * n /\ p * m \in Nat /\ p * n \in Nat
OBVIOUS

\* The new date is the account's own, or today, and the months.
LEMMA ReadPaidStep ==
    ASSUME AccountInv, NEW h \in Threads, NEW b \in AccountIds, NEW months \in 1..MaxPayments,
           ReadPaid(h, b, months)
    PROVE  AccountInv'
<1> DEFINE until == PaidFrom(b) + Period * months
           work == [NoWork EXCEPT !.at = "pay", !.of = b, !.until = until]
<1>1. /\ serving[h].at = "idle"
      /\ serving' = [serving EXCEPT ![h] = work]
      /\ payments' = [payments EXCEPT ![b] = payments[b] + months]
      /\ paidOn' = [paidOn EXCEPT ![b] = IF paidOn[b] = 0 THEN today ELSE paidOn[b]]
      /\ UNCHANGED <<account, today>>
      /\ collided \subseteq collided'
      /\ \A g \in Threads : WorksFor(g, b) => b \in collided'
      /\ Exists(b)
  BY DEF ReadPaid, WorksFor
<1>2. /\ months \in Nat \ {0} /\ Period \in Nat \ {0} /\ today \in Nat \ {0}
      /\ account[b].paidUntil \in Nat /\ payments[b] \in Nat /\ paidOn[b] \in Nat
      /\ b \in Nat \ {0}
  BY AccountAssumption, RowFields DEF AccountAssumption, AccountInv, AccountShape
<1>3. /\ PaidFrom(b) \in Nat /\ PaidFrom(b) >= today /\ PaidFrom(b) >= account[b].paidUntil
  BY <1>2 DEF PaidFrom
<1>4. /\ Period * months \in Nat /\ Period * payments[b] \in Nat
      /\ Period * (payments[b] + months) = Period * payments[b] + Period * months
  BY <1>2, MonthsAdd
<1>5. until \in Nat
  BY <1>3, <1>4
<1>6. work \in Work /\ work.at = "pay" /\ work.of = b /\ work.until = until
  BY <1>2, <1>5, NoWorkShape DEF NoWork, Work
<1>7. b \notin collided' => until >= Bought(b)'
  <2> SUFFICES ASSUME b \notin collided' PROVE until >= Bought(b)'
    OBVIOUS
  <2>1. payments'[b] = payments[b] + months
        /\ paidOn'[b] = IF paidOn[b] = 0 THEN today ELSE paidOn[b]
    BY <1>1 DEF AccountInv, AccountShape, AccountIds
  <2>2. Bought(b)' = paidOn'[b] + Period * payments[b] + Period * months
    BY <1>2, <1>4, <2>1 DEF Bought
  <2>3. CASE payments[b] = 0
    <3>1. paidOn[b] = 0
      BY <2>3 DEF AccountInv, AccountShape
    <3>2. Period * payments[b] = 0
      BY <1>2, <2>3
    <3> QED
      BY <1>2, <1>3, <1>4, <2>1, <2>2, <3>1, <3>2
  <2>4. CASE payments[b] > 0
    <3>1. account[b].paidUntil >= paidOn[b] + Period * payments[b]
      BY <1>1, <2>4 DEF AccountInv, DatesHold, Bought
    <3>2. paidOn[b] # 0
      BY <2>4 DEF AccountInv, AccountShape
    <3> QED
      BY <1>2, <1>3, <1>4, <2>1, <2>2, <3>1, <3>2
  <2> QED
    BY <1>2, <2>3, <2>4
<1> HIDE DEF until, work
<1>8. /\ serving' \in [Threads -> Work] /\ serving[h].of = 0
      /\ serving'[h] = work /\ \A g \in Threads \ {h} : serving'[g] = serving[g]
  BY <1>1, <1>6 DEF AccountInv, AccountShape
<1>9. /\ AccountIds' = AccountIds
      /\ paidOn' \in Seq(Nat) /\ payments' \in Seq(Nat)
      /\ Len(paidOn') = Len(account) /\ Len(payments') = Len(account)
      /\ \A a \in AccountIds \ {b} : paidOn'[a] = paidOn[a] /\ payments'[a] = payments[a]
      /\ paidOn'[b] # 0 /\ payments'[b] # 0
  BY <1>1, <1>2 DEF AccountInv, AccountShape, AccountIds
<1>10. AccountShape'
  <2>1. \A g \in Threads : /\ serving'[g].of \in {0} \cup AccountIds'
                           /\ serving'[g].of # 0 <=> serving'[g].at = "pay"
    <3>1. serving'[h].of = b /\ serving'[h].at = "pay" /\ b # 0 /\ b \in AccountIds'
      BY <1>2, <1>6, <1>8, <1>9
    <3>2. \A g \in Threads \ {h} : /\ serving'[g].of \in {0} \cup AccountIds'
                                   /\ serving'[g].of # 0 <=> serving'[g].at = "pay"
      BY <1>8, <1>9 DEF AccountInv, AccountShape
    <3> QED
      BY <3>1, <3>2
  <2>2. \A a \in AccountIds' : paidOn'[a] = 0 <=> payments'[a] = 0
    BY <1>9 DEF AccountInv, AccountShape
  <2> QED
    BY <1>1, <1>8, <1>9, <2>1, <2>2 DEF AccountInv, AccountShape
<1>11. \A g \in Threads : \A a \in AccountIds :
          /\ WorksFor(g, a)' <=> WorksFor(g, a) \/ (g = h /\ a = b)
          /\ WorksFor(g, a) => serving'[g] = serving[g]
  BY <1>2, <1>6, <1>8 DEF WorksFor, AccountIds
<1>12. OneServer'
  <2> SUFFICES ASSUME NEW f \in Threads, NEW g \in Threads, NEW a \in AccountIds \ collided',
                      WorksFor(f, a)', WorksFor(g, a)'
               PROVE  f = g
    BY <1>9 DEF OneServer
  <2>1. CASE a = b
    BY <1>1, <1>11, <2>1
  <2>2. CASE a # b
    BY <1>1, <1>11, <2>2 DEF AccountInv, OneServer
  <2> QED
    BY <2>1, <2>2
<1>13. \A a \in AccountIds \ {b} : Bought(a)' = Bought(a)
  BY <1>9 DEF Bought
<1>14. DatesHold'
  <2>1. ASSUME NEW a \in AccountIds \ collided', Exists(a), payments'[a] > 0,
               \A g \in Threads : ~WorksFor(g, a)'
        PROVE  account[a].paidUntil >= Bought(a)'
    <3>1. a # b /\ a \in AccountIds \ collided /\ \A g \in Threads : ~WorksFor(g, a)
      BY <1>1, <1>11, <2>1
    <3>2. payments[a] > 0 /\ Bought(a)' = Bought(a)
      BY <1>9, <1>13, <2>1, <3>1
    <3> QED
      BY <2>1, <3>1, <3>2 DEF AccountInv, DatesHold
  <2>2. ASSUME NEW a \in AccountIds \ collided', NEW g \in Threads, WorksFor(g, a)'
        PROVE  serving'[g].until >= Bought(a)'
    <3>1. CASE a = b
      BY <1>1, <1>6, <1>7, <1>8, <1>11, <2>2, <3>1
    <3>2. CASE a # b
      BY <1>1, <1>11, <1>13, <2>2, <3>2 DEF AccountInv, DatesHold
    <3> QED
      BY <3>1, <3>2
  <2> QED
    BY <1>1, <1>9, <2>1, <2>2 DEF DatesHold, Exists
<1>15. \A g \in Threads : \A e : Claims(g, e)' => Claims(g, e)
  BY <1>6, <1>8 DEF Claims
<1>16. AddressesApart'
  BY <1>1, <1>9, <1>15 DEF AccountInv, AddressesApart, IsMember, Exists
<1> QED
  BY <1>10, <1>12, <1>14, <1>16 DEF AccountInv

LEMMA WriteStep ==
    ASSUME AccountInv, NEW h \in Threads, WritePaid(h)
    PROVE  AccountInv'
<1>1. PICK b : b = serving[h].of
  OBVIOUS
<1>2. /\ serving[h].at = "pay"
      /\ account' = IF Exists(b) THEN [account EXCEPT ![b].paidUntil = serving[h].until]
                    ELSE account
      /\ serving' = [serving EXCEPT ![h] = NoWork]
      /\ UNCHANGED <<today, paidOn, payments, collided>>
  BY <1>1 DEF WritePaid
<1>3. b \in AccountIds /\ serving[h].until \in Nat
  BY <1>1, <1>2 DEF AccountInv, AccountShape, Work
<1>4. PICK row : row = [account[b] EXCEPT !.paidUntil = serving[h].until]
  OBVIOUS
<1>5. /\ account \in Seq(Account) /\ account' \in Seq(Account)
      /\ Len(account') = Len(account) /\ AccountIds' = AccountIds
      /\ \A a \in AccountIds : /\ account'[a].email = account[a].email
                               /\ account'[a].role = account[a].role
                               /\ account'[a].deleted = account[a].deleted
                               /\ a # b => account'[a].paidUntil = account[a].paidUntil
      /\ Exists(b) => account'[b].paidUntil = serving[h].until
  <2>1. account \in Seq(Account) /\ account[b] \in Account
    BY <1>3, RowFields DEF AccountInv, AccountShape
  <2>2. /\ row \in Account /\ row.email = account[b].email /\ row.role = account[b].role
        /\ row.deleted = account[b].deleted /\ row.paidUntil = serving[h].until
    BY <1>3, <1>4, <2>1 DEF Account
  <2>3. CASE Exists(b)
    <3>1. account' = [account EXCEPT ![b] = row]
      BY <1>2, <1>4, <2>3
    <3>2. /\ account' \in Seq(Account) /\ Len(account') = Len(account)
          /\ account'[b] = row /\ \A a \in AccountIds \ {b} : account'[a] = account[a]
      BY <1>3, <2>1, <2>2, <3>1, RowReplaced DEF AccountIds
    <3> QED
      BY <2>1, <2>2, <3>2 DEF AccountIds
  <2>4. CASE ~Exists(b)
    BY <1>2, <2>1, <2>4 DEF AccountIds
  <2> QED
    BY <2>3, <2>4
<1>6. /\ serving' \in [Threads -> Work]
      /\ serving'[h] = NoWork /\ \A g \in Threads \ {h} : serving'[g] = serving[g]
  BY <1>2, NoWorkShape DEF AccountInv, AccountShape
<1>7. AccountShape'
  BY <1>2, <1>5, <1>6, NoWorkShape DEF AccountInv, AccountShape
<1>8. \A g \in Threads : \A a \in AccountIds :
         WorksFor(g, a)' <=> WorksFor(g, a) /\ g # h
  BY <1>6, NoWorkShape DEF WorksFor, AccountIds
<1>9. \A a \in AccountIds : Exists(a)' = Exists(a) /\ Bought(a)' = Bought(a)
  BY <1>2, <1>5 DEF Exists, Bought
<1>10. OneServer'
  BY <1>2, <1>5, <1>8 DEF AccountInv, OneServer
<1>11. DatesHold'
  <2>1. ASSUME NEW a \in AccountIds \ collided, Exists(a), payments[a] > 0,
               \A g \in Threads : ~WorksFor(g, a)'
        PROVE  account'[a].paidUntil >= Bought(a)
    <3>1. CASE a = b
      BY <1>1, <1>3, <1>5, <2>1, <3>1 DEF AccountInv, DatesHold, WorksFor
    <3>2. CASE a # b
      <4>1. \A g \in Threads : ~WorksFor(g, a)
        BY <1>1, <1>8, <2>1, <3>2 DEF WorksFor
      <4> QED
        BY <1>5, <2>1, <3>2, <4>1 DEF AccountInv, DatesHold
    <3> QED
      BY <3>1, <3>2
  <2>2. ASSUME NEW a \in AccountIds \ collided, NEW g \in Threads, WorksFor(g, a)'
        PROVE  serving'[g].until >= Bought(a)
    BY <1>6, <1>8, <2>2 DEF AccountInv, DatesHold
  <2> QED
    BY <1>2, <1>5, <1>9, <2>1, <2>2 DEF DatesHold
<1>12. \A a \in AccountIds : \A e : IsMember(a, e)' <=> IsMember(a, e)
  BY <1>5, <1>9 DEF IsMember
<1>13. \A g \in Threads : \A e : Claims(g, e)' => Claims(g, e)
  BY <1>6, NoWorkShape DEF Claims
<1>14. AddressesApart'
  BY <1>2, <1>5, <1>12, <1>13 DEF AccountInv, AddressesApart
<1> QED
  BY <1>7, <1>10, <1>11, <1>14 DEF AccountInv

-----------------------------------------------------------------------------
\* Midnight, or a step of another part of the system, moves no row.
LEMMA IdleStep ==
    ASSUME AccountInv, UNCHANGED <<account, serving, paidOn, payments, collided>>,
           today' \in Nat \ {0}
    PROVE  AccountInv'
<1>1. AccountIds' = AccountIds
  BY DEF AccountIds
<1>2. AccountShape'
  BY <1>1 DEF AccountInv, AccountShape
<1>3. OneServer'
  BY <1>1 DEF AccountInv, OneServer, WorksFor
<1>4. DatesHold'
  BY <1>1 DEF AccountInv, DatesHold, WorksFor, Exists, Bought
<1>5. AddressesApart'
  BY <1>1 DEF AccountInv, AddressesApart, Claims, IsMember, Exists
<1> QED
  BY <1>2, <1>3, <1>4, <1>5 DEF AccountInv

LEMMA AccountStep ==
    ASSUME AccountInv, [AccountNext]_accountVars
    PROVE  AccountInv'
<1>1. today \in Nat \ {0}
  BY DEF AccountInv, AccountShape
<1>2. CASE UNCHANGED accountVars
  <2>1. /\ UNCHANGED <<account, serving, paidOn, payments, collided>>
        /\ today' \in Nat \ {0}
    BY <1>1, <1>2 DEF accountVars
  <2> QED
    BY <2>1, IdleStep
<1>3. CASE NextDay
  <2>1. /\ UNCHANGED <<account, serving, paidOn, payments, collided>>
        /\ today' \in Nat \ {0}
    BY <1>1, <1>3 DEF NextDay
  <2> QED
    BY <2>1, IdleStep
<1>4. CASE SeedAdmin
  BY <1>4, SeedStep
<1>5. ASSUME NEW h \in Threads, NEW email \in Emails, CheckEmail(h, email)
      PROVE  AccountInv'
  BY <1>5, CheckStep
<1>6. ASSUME NEW h \in Threads, Register(h)
      PROVE  AccountInv'
  BY <1>6, RegisterStep
<1>7. ASSUME NEW d \in AccountIds, Delete(d)
      PROVE  AccountInv'
  BY <1>7, DeleteStep
<1>8. ASSUME NEW h \in Threads, NEW b \in AccountIds, NEW months \in 1..MaxPayments,
             ReadPaid(h, b, months)
      PROVE  AccountInv'
  BY <1>8, ReadPaidStep
<1>9. ASSUME NEW h \in Threads, WritePaid(h)
      PROVE  AccountInv'
  BY <1>9, WriteStep
<1> QED
  BY <1>2, <1>3, <1>4, <1>5, <1>6, <1>7, <1>8, <1>9 DEF AccountNext

\* Paid months are not lost, and an address is one member's, as long as no two
\* requests about the account or the address overlap (mark_paid,
\* _handle_register_step1).
THEOREM PaymentsKept == AccountSpec => []NothingLostByOneAtATime
<1>1. AccountInv => NothingLostByOneAtATime
  <2> SUFFICES ASSUME AccountInv PROVE NothingLostByOneAtATime
    OBVIOUS
  <2>1. \A a \in AccountIds : account[a].email \in Emails
    BY RowFields DEF AccountInv
  <2>2. \A a, b \in AccountIds :
           (/\ Exists(a) /\ Exists(b) /\ a # b
            /\ account[a].role = "member" /\ account[b].role = "member"
            /\ account[a].email = account[b].email) => account[a].email \in collided
    BY <2>1 DEF AccountInv, AddressesApart, IsMember
  <2> QED
    BY <2>2 DEF AccountInv, DatesHold, Bought, WorksFor, NothingLostByOneAtATime
<1> QED
  BY <1>1, AccountInitOK, AccountStep, PTL DEF AccountSpec

DayInBounds == today \in 1..MaxDay

LEMMA DayStep ==
    ASSUME DayInBounds, [AccountNext]_accountVars
    PROVE  DayInBounds'
<1>1. CASE NextDay
  BY <1>1, AccountAssumption DEF AccountAssumption, NextDay, DayInBounds
<1>2. CASE ~NextDay
  <2>1. today' = today
    BY <1>2 DEF AccountNext, accountVars, SeedAdmin, CheckEmail, Register, Delete, ReadPaid, WritePaid
  <2> QED
    BY <2>1 DEF DayInBounds
<1> QED
  BY <1>1, <1>2

\* Accounts, the requests about them and their payments keep their types.
THEOREM AccountTypesHold == AccountSpec => []AccountTypeOK
<1>1. AccountInit => DayInBounds
  BY AccountAssumption DEF AccountAssumption, AccountInit, DayInBounds
<1>2. AccountInv /\ DayInBounds => AccountTypeOK
  BY DEF AccountInv, AccountShape, Work, AccountTypeOK, DayInBounds
<1>3. AccountInv /\ [AccountNext]_accountVars => AccountInv'
  BY AccountStep
<1>4. DayInBounds /\ [AccountNext]_accountVars => DayInBounds'
  BY DayStep
<1> QED
  BY <1>1, <1>2, <1>3, <1>4, AccountInitOK, PTL DEF AccountSpec
=============================================================================
