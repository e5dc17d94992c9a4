--------------------------- MODULE PortfolioLimits ---------------------------
(***************************************************************************)
(* The limits on open positions and on their risk over all symbols         *)
(* (execution/portfolio_manager.py, evaluate_new_position), as             *)
(* open_from_signal asks for them when it places an entry and again when   *)
(* it finds it filled, and the reconciler, which does not.                 *)
(*                                                                         *)
(* A handler is one step: LiveExecution has its calls.  One-way mode, one  *)
(* signal of a symbol at a time, an entry filled whole or not at all.      *)
(* Amounts are cents, shares percents.  portfolio_pause_new_entries stops  *)
(* every entry and is left out.                                            *)
(***************************************************************************)
EXTENDS Integers, FiniteSets, Functions

CONSTANTS
    Symbols,
    EntryStyles,        \* entry_style: "signal_price" or "market"
    MaxOpen,            \* portfolio_max_open_positions
    RiskLimit,          \* portfolio_max_risk_fraction
    RiskPerTrade,       \* risk_per_trade
    Margin,             \* what an entry or a position locks of the balance
    Wallets,            \* wallet balances the account may have
    Fills,              \* risk an entry can fill at, in percent of the planned one
    EmergencyRisk,      \* risk estimate of a row with the emergency stop
    MaxLostAnswers      \* bound: entries placed and neither keyed nor booked

ASSUME LimitAssumption ==
    /\ IsFiniteSet(Symbols)
    /\ EntryStyles \subseteq {"signal_price", "market"}
    /\ MaxOpen \in Nat \ {0}
    /\ RiskLimit \in 1..99
    /\ RiskPerTrade \in 1..99
    /\ {Margin, EmergencyRisk, MaxLostAnswers} \subseteq Nat
    /\ Wallets \subseteq Nat \ {0}
    /\ Fills \subseteq Nat

VARIABLES
    settings,       \* entry_style and drawdown_de_risk_enabled
    wallet,         \* exchange: the wallet balance
    holdings,       \* exchange: the symbols with a position
    entryOrders,    \* the entry order of each symbol, and the risk it was sized for
    positions,      \* the OPEN row of each symbol in exchange_positions
    peakEquity,     \* execution:equity_peak_usdt
    checked,        \* history: the newest row of a handler, the equity it was let in at
    lostAnswers

limitVars ==
    <<settings, wallet, holdings, entryOrders, positions, peakEquity, checked, lostAnswers>>

-----------------------------------------------------------------------------
\* An entry rests under its key pending_entry, or without one when its answer was
\* lost; the key stays when it fills.
EntryStates == {"none", "resting", "unkeyed", "filled"}

NoEntry == [state |-> "none", risk |-> 0]

RestingEntries == {s \in Symbols : entryOrders[s].state \in {"resting", "unkeyed"}}

NoPosition == [open |-> FALSE, recovered |-> FALSE, risk |-> 0]

Opened(recovered, risk) == [open |-> TRUE, recovered |-> recovered, risk |-> risk]

\* count_open_positions
OpenRows == {s \in Symbols : positions[s].open}

RecoveredRows == {s \in OpenRows : positions[s].recovered}

\* aggregate_open_risk_estimate_usdt
RiskOfRows(rows) == SumFunctionOnSet([s \in Symbols |-> positions[s].risk], rows)

\* _usdt_equity reads availableBalance, which orders and positions lower.
Equity == wallet - Margin * Cardinality(holdings \cup RestingEntries)

\* build_order_intent_from_signal: risk_amount_usdt
TradeRisk(equity) == (equity * RiskPerTrade) \div 100

RiskCap(equity) == (equity * RiskLimit) \div 100

\* Percent below the peak
Drawdown == (100 * (peakEquity' - Equity)) \div peakEquity'

\* The risk multiplier, in percent, at its defaults: from 100 at a drawdown of
\* 10 percent down to 25 at one of 30.
RiskMultiplier ==
    IF ~settings.deRisk \/ Drawdown <= 10 THEN 100
    ELSE IF Drawdown >= 30 THEN 25
    ELSE 100 - (75 * (Drawdown - 10)) \div 20

PlannedRisk == (TradeRisk(Equity) * RiskMultiplier) \div 100

-----------------------------------------------------------------------------
\* Mutant of WithinLimits: one position too many.
WithinLimitsOffByOne ==
    /\ Cardinality(OpenRows) <= MaxOpen
    /\ RiskOfRows(OpenRows) + TradeRisk(Equity) <= RiskCap(Equity)

\* What evaluate_new_position counts: rows, and not the orders at rest.
WithinLimits ==
    /\ Cardinality(OpenRows) < MaxOpen
    /\ RiskOfRows(OpenRows) + TradeRisk(Equity) <= RiskCap(Equity)

\* The signal has no row yet; the peak is written before the limits are looked at.
Evaluate(s) ==
    /\ ~positions[s].open
    /\ Equity > 0
    /\ peakEquity' = IF settings.deRisk /\ Equity > peakEquity THEN Equity ELSE peakEquity

\* What stands before the entry: the limits, and a position that no row knows.
LetIn(s) ==
    /\ Evaluate(s)
    /\ WithinLimits
    /\ s \notin holdings

\* create_position_from_signal: the row holds what was filled of the plan.
OpenRow(s, planned) ==
    \E fill \in Fills :
        LET risk == (planned * fill) \div 100 IN
        /\ positions' = [positions EXCEPT ![s] = Opened(FALSE, risk)]
        /\ checked' = [equity |-> Equity, risk |-> risk]

\* Skipped, waiting for its fill, sent to the reconciler, or a call that fails
OpenTurnedAway(s) ==
    /\ Evaluate(s)
    /\ UNCHANGED <<settings, wallet, holdings, entryOrders, positions, checked, lostAnswers>>

\* The key of an entry that filled belongs to an earlier signal when this one
\* places an entry of its own.
MayPlace(s) == entryOrders[s].state \in {"none", "filled"}

\* entry_style "signal_price": the entry rests; without an answer there is no key.
PlaceResting(s) ==
    /\ settings.style = "signal_price"
    /\ LetIn(s)
    /\ MayPlace(s)
    /\ \/ /\ entryOrders' = [entryOrders EXCEPT ![s] = [state |-> "resting", risk |-> PlannedRisk]]
          /\ UNCHANGED lostAnswers
       \/ /\ lostAnswers < MaxLostAnswers
          /\ lostAnswers' = lostAnswers + 1
          /\ entryOrders' = [entryOrders EXCEPT ![s] = [state |-> "unkeyed", risk |-> PlannedRisk]]
    /\ UNCHANGED <<settings, wallet, holdings, positions, checked>>

\* At market, or at a limit the price has passed, the entry fills within the call;
\* without an answer, or with a death before the row, only the position is there.
OpenAtOnce(s) ==
    /\ LetIn(s)
    /\ MayPlace(s)
    /\ holdings' = holdings \cup {s}
    /\ entryOrders' = [entryOrders EXCEPT ![s] = NoEntry]
    /\ \/ OpenRow(s, PlannedRisk) /\ UNCHANGED lostAnswers
       \/ /\ lostAnswers < MaxLostAnswers
          /\ lostAnswers' = lostAnswers + 1
          /\ UNCHANGED <<positions, checked>>
    /\ UNCHANGED <<settings, wallet>>

\* A later attempt finds its entry filled.  With the position it would have been
\* turned away, so the entry has filled since that was looked at (an unkeyed one is
\* then found as a duplicate), or its position has ended.  The limits are asked at
\* today's equity, the size is that of the day the entry was placed.
OpenFilledEntry(s) ==
    /\ LetIn(s)
    /\ entryOrders[s].state # "none"
    /\ OpenRow(s, entryOrders[s].risk)
    /\ holdings' = IF s \in RestingEntries THEN holdings \cup {s} ELSE holdings
    /\ entryOrders' = [entryOrders EXCEPT ![s] = NoEntry]
    /\ UNCHANGED <<settings, wallet, lostAnswers>>

\* reconcile_symbol: no limit is asked, and the key of the entry stays.
ReconcileSymbol(s) ==
    /\ \/ /\ positions[s].open
          /\ s \notin holdings
          /\ positions' = [positions EXCEPT ![s] = NoPosition]
       \/ /\ ~positions[s].open
          /\ s \in holdings
          /\ positions' = [positions EXCEPT ![s] = Opened(TRUE, EmergencyRisk)]
    /\ UNCHANGED <<settings, wallet, holdings, entryOrders, peakEquity, checked, lostAnswers>>

\* close_for_signal: the row with its position, or the entry the key names; a
\* position without a row is left to the reconciler, an entry that cannot be
\* cancelled to a retry.
CloseForSignal(s) ==
    /\ \/ /\ positions[s].open
          /\ holdings' = holdings \ {s}
          /\ positions' = [positions EXCEPT ![s] = NoPosition]
          /\ UNCHANGED entryOrders
       \/ /\ ~positions[s].open \/ positions[s].recovered
          /\ entryOrders[s].state = "resting"
          /\ entryOrders' = [entryOrders EXCEPT ![s] = NoEntry]
          /\ UNCHANGED <<holdings, positions>>
    /\ UNCHANGED <<settings, wallet, peakEquity, checked, lostAnswers>>

-----------------------------------------------------------------------------
\* The exchange: entries fill, stops and targets end positions, and the balance
\* follows results, deposits and withdrawals.
RestingFills(s) ==
    /\ s \in RestingEntries
    /\ entryOrders' = [entryOrders EXCEPT ![s] =
          IF @.state = "unkeyed" THEN NoEntry ELSE [@ EXCEPT !.state = "filled"]]
    /\ holdings' = holdings \cup {s}
    /\ UNCHANGED <<settings, wallet, positions, peakEquity, checked, lostAnswers>>

\* Expired or cancelled by hand: the next attempt clears the key.
EntryDropped(s) ==
    /\ s \in RestingEntries
    /\ entryOrders' = [entryOrders EXCEPT ![s] = NoEntry]
    /\ UNCHANGED <<settings, wallet, holdings, positions, peakEquity, checked, lostAnswers>>

PositionEnds(s) ==
    /\ s \in holdings
    /\ holdings' = holdings \ {s}
    /\ UNCHANGED <<settings, wallet, entryOrders, positions, peakEquity, checked, lostAnswers>>

BalanceMoves ==
    /\ wallet' \in Wallets \ {wallet}
    /\ UNCHANGED <<settings, holdings, entryOrders, positions, peakEquity, checked, lostAnswers>>

-----------------------------------------------------------------------------
LimitInit ==
    /\ settings \in [style : EntryStyles, deRisk : BOOLEAN]
    /\ wallet \in Wallets
    /\ holdings = {}
    /\ entryOrders = [s \in Symbols |-> NoEntry]
    /\ positions = [s \in Symbols |-> NoPosition]
    /\ peakEquity = 0
    /\ checked = [equity |-> 0, risk |-> 0]
    /\ lostAnswers = 0

LimitNext ==
    \/ \E s \in Symbols :
          \/ OpenTurnedAway(s) \/ PlaceResting(s) \/ OpenAtOnce(s) \/ OpenFilledEntry(s)
          \/ ReconcileSymbol(s) \/ CloseForSignal(s)
          \/ RestingFills(s) \/ EntryDropped(s) \/ PositionEnds(s)
    \/ BalanceMoves

LimitSpec == LimitInit /\ [][LimitNext]_limitVars

-----------------------------------------------------------------------------
LimitTypeOK ==
    /\ settings \in [style : EntryStyles, deRisk : BOOLEAN]
    /\ wallet \in Wallets
    /\ holdings \subseteq Symbols
    /\ entryOrders \in [Symbols -> [state : EntryStates, risk : Nat]]
    /\ positions \in [Symbols -> [open : BOOLEAN, recovered : BOOLEAN, risk : Nat]]
    /\ peakEquity \in Nat
    /\ checked \in [equity : Nat, risk : Nat]
    /\ lostAnswers \in 0..MaxLostAnswers

(* What may be over the limits is what the reconciler found, and what the  *)
(* newest fill is more than the limits were shown.  The rows that handlers *)
(* opened keep to the number; at the equity the newest was let in at their *)
(* risk keeps to the cap, with the row as it filled in the place of the    *)
(* trade that was looked at: an entry placed at another equity, or past    *)
(* its price.  Earlier differences are in the estimate already, and no     *)
(* balance, position that ends or row found in between adds to them.  At   *)
(* market only a lost answer leaves something to be found.                 *)
LimitsHoldButForRecovered ==
    LET own == OpenRows \ RecoveredRows IN
    /\ Cardinality(own) <= MaxOpen
    /\ own # {} => RiskOfRows(own) - checked.risk
                     <= RiskCap(checked.equity) - TradeRisk(checked.equity)
    /\ settings.style = "market" /\ lostAnswers = 0 => RecoveredRows = {}

(* docs/PORTFOLIO_EXECUTION.md on portfolio_max_open_positions: the most   *)
(* OPEN rows at a time.  It fails: entries at rest are not counted, and    *)
(* the reconciler opens a row for each one that has filled.                *)
OpenRowsCapped == Cardinality(OpenRows) <= MaxOpen
=============================================================================
