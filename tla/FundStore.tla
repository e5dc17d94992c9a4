------------------------------ MODULE FundStore ------------------------------
(***************************************************************************)
(* The pooled fund (storage/fund_store.py, class FundStore) behind the     *)
(* handlers of the dashboard, each in a thread of its own                  *)
(* (services/web_dashboard.py).  One action is one SQLite transaction, or  *)
(* one read outside of any: opening a trade and closing it take several.   *)
(*                                                                         *)
(* Amounts are whole units; the P&L of a trade, realized_rr * risk_pct, is *)
(* its rate, a whole multiple of the balance.  A trade's id is its index.  *)
(***************************************************************************)
EXTENDS Integers, Sequences, FiniteSets, Functions

CONSTANTS
    Members,        \* rows the table of members may get
    Amounts,        \* deposits, and balances set by hand
    Rates,          \* pnl_pct a trade may be closed with
    Months,         \* settlement months
    Days,           \* days a member may join, or a trade open, on
    Handlers,       \* threads serving a request
    MaxTrades       \* bound: trades ever opened

ASSUME FundAssumption ==
    /\ Amounts \subseteq Nat
    /\ Rates \subseteq Int
    /\ Days \subseteq Nat
    /\ IsFiniteSet(Months) /\ 0 \notin Months
    /\ MaxTrades \in Nat

VARIABLES
    member,     \* fund_members
    trade,      \* fund_trades
    part,       \* fund_participations of each trade, by member
    request,    \* what each handler still has to do
    orderly,    \* history: no two trades overlapped, none was closed twice,
                \* no balance was set by hand
    rough       \* history: trades closed twice, or while being opened, or
                \* whose handler failed

fundVars == <<member, trade, part, request, orderly, rough>>

-----------------------------------------------------------------------------
MemberStatus == {"none", "active", "inactive", "deleted"}

Member == [status : MemberStatus, balance : Int, deposit : Nat, joined : Nat]

NoMember == [status |-> "none", balance |-> 0, deposit |-> 0, joined |-> 0]

\* month 0: still open
Trade == [opened : Nat, rate : Int, month : Months \cup {0}]

Participation == [member : Members, atOpen : Int, paid : BOOLEAN, pnl : Int]

Request ==
    [at : {"idle", "select", "insert", "apply"}, of : Nat, rate : Int,
     seen : SUBSET (Members \X Int)]

Idle == [at |-> "idle", of |-> 0, rate |-> 0, seen |-> {}]

TradeIds == 1..Len(trade)

Closed(t) == trade[t].month # 0

Working(t) == \E h \in Handlers : request[h].at # "idle" /\ request[h].of = t

InTable(m) == member[m].status \in {"active", "inactive"}

-----------------------------------------------------------------------------
(* Members.                                                                *)

AddMember(m, amount, day) ==
    /\ member[m].status = "none"
    /\ member' = [member EXCEPT ![m] = [status |-> "active", balance |-> amount,
                                        deposit |-> amount, joined |-> day]]
    /\ UNCHANGED <<trade, part, request, orderly, rough>>

UpdateMemberBalance(m, amount) ==
    /\ InTable(m)
    /\ member' = [member EXCEPT ![m].balance = amount]
    /\ orderly' = FALSE
    /\ UNCHANGED <<trade, part, request, rough>>

DeactivateMember(m) ==
    /\ InTable(m)
    /\ member' = [member EXCEPT ![m].status = "inactive"]
    /\ UNCHANGED <<trade, part, request, orderly, rough>>

\* The row goes, its participations stay.
DeleteMember(m) ==
    /\ InTable(m)
    /\ member' = [member EXCEPT ![m].status = "deleted"]
    /\ UNCHANGED <<trade, part, request, orderly, rough>>

-----------------------------------------------------------------------------
(* add_trade: the row is committed, then _snapshot_members reads the       *)
(* members and inserts their participations.                               *)

AddTrade(h, day) ==
    /\ request[h].at = "idle"
    /\ Len(trade) < MaxTrades
    /\ trade' = Append(trade, [opened |-> day, rate |-> 0, month |-> 0])
    /\ part' = Append(part, {})
    /\ request' = [request EXCEPT ![h] = [Idle EXCEPT !.at = "select", !.of = Len(trade) + 1]]
    /\ orderly' = (orderly /\ \A t \in TradeIds : Closed(t) /\ ~Working(t))
    /\ UNCHANGED <<member, rough>>

\* Mutant of Snapshot: everybody takes part with what they once brought in.
SnapshotDeposits(t) ==
    {<<m, member[m].deposit>> :
        m \in {n \in Members : member[n].status = "active" /\ member[n].joined <= trade[t].opened}}

Snapshot(t) ==
    {<<m, member[m].balance>> :
        m \in {n \in Members : member[n].status = "active" /\ member[n].joined <= trade[t].opened}}

SelectMembers(h) ==
    LET t == request[h].of IN
    /\ request[h].at = "select"
    /\ request' = [request EXCEPT ![h].at = "insert", ![h].seen = Snapshot(t)]
    /\ UNCHANGED <<member, trade, part, orderly, rough>>

InsertParticipations(h) ==
    LET t == request[h].of IN
    /\ request[h].at = "insert"
    /\ part' = [part EXCEPT ![t] =
                  {[member |-> s[1], atOpen |-> s[2], paid |-> FALSE, pnl |-> 0] :
                     s \in request[h].seen}]
    /\ request' = [request EXCEPT ![h] = Idle]
    /\ UNCHANGED <<member, trade, orderly, rough>>

-----------------------------------------------------------------------------
(* close_trade: the row is committed as closed, whether or not it was      *)
(* closed before, then _apply_pnl pays its participants.                   *)

CloseTrade(h, t, rate, month) ==
    /\ request[h].at = "idle"
    /\ t \in TradeIds
    /\ trade' = [trade EXCEPT ![t].rate = rate, ![t].month = month]
    /\ request' = [request EXCEPT ![h] = [Idle EXCEPT !.at = "apply", !.of = t, !.rate = rate]]
    /\ orderly' = (orderly /\ ~Closed(t) /\ ~Working(t))
    /\ rough' = rough \cup (IF Closed(t) \/ Working(t) THEN {t} ELSE {})
    /\ UNCHANGED <<member, part>>

Paid(p, rate) == [p EXCEPT !.paid = TRUE, !.pnl = p.atOpen * rate]

BalanceAfter(m, t, rate) ==
    IF InTable(m) /\ \E p \in part[t] : p.member = m
    THEN LET p == CHOOSE p \in part[t] : p.member = m IN p.atOpen + p.atOpen * rate
    ELSE member[m].balance

\* Mutant of ApplyPnl: those who left in between are passed over.
ApplyPnlToActive(h) ==
    LET t == request[h].of
        rate == request[h].rate
        Stays(p) == member[p.member].status = "active" IN
    /\ request[h].at = "apply"
    /\ part' = [part EXCEPT ![t] = {IF Stays(p) THEN Paid(p, rate) ELSE p : p \in @}]
    /\ member' = [m \in Members |->
                    IF member[m].status = "active"
                    THEN [member[m] EXCEPT !.balance = BalanceAfter(m, t, rate)]
                    ELSE member[m]]
    /\ request' = [request EXCEPT ![h] = Idle]
    /\ UNCHANGED <<trade, orderly, rough>>

\* The balance becomes the one at the opening plus this trade's P&L.
ApplyPnl(h) ==
    LET t == request[h].of
        rate == request[h].rate IN
    /\ request[h].at = "apply"
    /\ part' = [part EXCEPT ![t] = {Paid(p, rate) : p \in @}]
    /\ member' = [m \in Members |-> [member[m] EXCEPT !.balance = BalanceAfter(m, t, rate)]]
    /\ request' = [request EXCEPT ![h] = Idle]
    /\ UNCHANGED <<trade, orderly, rough>>

\* The handler's thread ends with its process, or the database is locked.
HandlerFails(h) ==
    /\ request[h].at # "idle"
    /\ request' = [request EXCEPT ![h] = Idle]
    /\ rough' = rough \cup {request[h].of}
    /\ UNCHANGED <<member, trade, part, orderly>>

-----------------------------------------------------------------------------
(* Settlement of a month, get_settlement_data                              *)

PnlOf(m, t) ==
    SumFunctionOnSet([p \in part[t] |-> p.pnl], {p \in part[t] : p.member = m})

GrossPnl(m, month) ==
    SumFunctionOnSet([t \in TradeIds |-> PnlOf(m, t)],
                     {t \in TradeIds : trade[t].month = month})

-----------------------------------------------------------------------------
FundInit ==
    /\ member = [m \in Members |-> NoMember]
    /\ trade = << >>
    /\ part = << >>
    /\ request = [h \in Handlers |-> Idle]
    /\ orderly = TRUE
    /\ rough = {}

FundNext ==
    \/ \E m \in Members, amount \in Amounts, day \in Days : AddMember(m, amount, day)
    \/ \E m \in Members, amount \in Amounts : UpdateMemberBalance(m, amount)
    \/ \E m \in Members : DeactivateMember(m)
    \/ \E m \in Members : DeleteMember(m)
    \/ \E h \in Handlers, day \in Days : AddTrade(h, day)
    \/ \E h \in Handlers : SelectMembers(h)
    \/ \E h \in Handlers : InsertParticipations(h)
    \/ \E h \in Handlers, rate \in Rates, month \in Months :
          \E t \in TradeIds : CloseTrade(h, t, rate, month)
    \/ \E h \in Handlers : ApplyPnl(h)
    \/ \E h \in Handlers : HandlerFails(h)

FundSpec == FundInit /\ [][FundNext]_fundVars

-----------------------------------------------------------------------------
FundTypeOK ==
    /\ member \in [Members -> Member]
    /\ trade \in Seq(Trade)
    /\ part \in Seq(SUBSET Participation)
    /\ Len(part) = Len(trade)
    /\ \A t \in TradeIds : \A p, q \in part[t] : p.member = q.member => p = q
    /\ request \in [Handlers -> Request]
    /\ \A h \in Handlers : request[h].at # "idle" => request[h].of \in TradeIds
    /\ orderly \in BOOLEAN
    /\ rough \subseteq TradeIds

(* As long as trades are opened and closed one after the other, each once, *)
(* a member's balance is the deposit plus the P&L that the settlements of  *)
(* all months show, whoever joins, leaves or fails in between.             *)
LedgerBalances ==
    orderly =>
        \A m \in Members :
            InTable(m) =>
                member[m].balance =
                    member[m].deposit
                        + SumFunctionOnSet([month \in Months |-> GrossPnl(m, month)], Months)

(* Once nobody works on a closed trade any more, all who took part in it   *)
(* have got its rate on what they held at the opening: also those who left *)
(* while it was open.  Other trades may be opened and closed meanwhile.    *)
PaidAsClosed ==
    \A t \in TradeIds \ rough :
        Closed(t) /\ ~Working(t) =>
            \A p \in part[t] : p.paid /\ p.pnl = p.atOpen * trade[t].rate
=============================================================================
