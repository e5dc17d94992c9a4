-------------------------- MODULE PortfolioBacktest --------------------------
(***************************************************************************)
(* The backtests over many windows (analysis/portfolio_backtest.py).  Each *)
(* window is analysed and may yield one simulated trade, whose entry, exit *)
(* and result are known at once.  run_portfolio_backtest takes the trades  *)
(* in the order of their windows; run_global_portfolio_backtest gathers    *)
(* the candidates of all datasets first (build_trade_candidates), sorts    *)
(* them by entry and replays them against one account.  Equity is in units *)
(* of which a trade risks one in RiskParts; R is a whole number.           *)
(***************************************************************************)
EXTENDS Integers, FiniteSets, Functions, FiniteSetsExt

CONSTANTS
    Datasets,       \* symbol and timeframe, as a number: the order of their names
    Windows,        \* bound: the windows of each dataset
    Horizon,        \* the last bar
    Rewards,        \* reward_r of a closed trade
    Waves,          \* fingerprints of hierarchical counts
    Limits,         \* values of max_concurrent; the command line takes any
    InitialCapital,
    RiskParts       \* 1 / risk_per_trade

ASSUME BacktestAssumption ==
    /\ Datasets \subseteq Nat /\ Datasets # {}
    /\ Windows \in [Datasets -> Nat]
    /\ Horizon \in Nat
    /\ Rewards \subseteq Int
    /\ Limits \subseteq Int
    /\ InitialCapital \in Nat
    /\ RiskParts \in Nat \ {0}

VARIABLES
    runner,         \* "portfolio" or "global"
    limit,          \* max_concurrent
    window,         \* how many windows of each dataset are analysed
    entered,        \* hier_wave_seen: the last wave a setup was built from
    candidates,     \* gathered by the global backtest
    scheduled,      \* those it has been through
    taken,          \* the trades taken
    open,           \* open_positions
    equity

backtestVars ==
    <<runner, limit, window, entered, candidates, scheduled, taken, open, equity>>

-----------------------------------------------------------------------------
NoCount == "none"

Never == Horizon + 1    \* exit_time of a trade still open at the end of the data

\* The trades a window that ends at bar w may yield: the trigger is bar w or a
\* later one, the entry the bar after it.
Trades(w) ==
    {t \in [entry : w + 1..Horizon, exit : w + 1..Never, reward : Rewards] : t.exit >= t.entry}

PnL(t) == IF t.exit = Never THEN 0 ELSE t.risk * t.reward

Total(trades) == SumFunctionOnSet([t \in trades |-> PnL(t)], trades)

RiskOf(amount) == amount \div RiskParts

\* The analysis of a window finds nothing, a pattern of which prioritize_scenarios
\* has left no scenario, or an executable one.
Findings == {"nothing", "pruned", "executable"}

AlreadyEntered(d, wave) == runner = "global" /\ entered[d] = wave

\* Does the window have scenarios to trade?  A hierarchical count stands in for
\* missing ones.  The global backtest puts it under "scenarios" only, which it
\* does not read where the analysis has "execution_scenarios".
HasScenarios(d, found, wave) ==
    \/ found = "executable"
    \/ /\ wave # NoCount
       /\ ~AlreadyEntered(d, wave)
       /\ runner = "portfolio" \/ found = "nothing"

-----------------------------------------------------------------------------
\* run_portfolio_backtest keeps the positions that exit after this entry.
StillOpen(entry) == {t \in open : t.exit > entry}

Taken(trade, d, capital, n) ==
    [entry |-> trade.entry, exit |-> trade.exit, reward |-> trade.reward,
     dataset |-> d, risk |-> RiskOf(capital), number |-> n]

\* run_portfolio_backtest: the result is added to the equity at once.
TakeNow(d, trade) ==
    LET t == Taken(trade, d, equity, Cardinality(taken))
    IN  IF Cardinality(StillOpen(trade.entry)) >= limit
        THEN open' = StillOpen(trade.entry) /\ UNCHANGED <<taken, equity>>
        ELSE /\ taken' = taken \cup {t}
             /\ open' = StillOpen(trade.entry) \cup {t}
             /\ equity' = equity + PnL(t)

\* One window is analysed and its first scenario simulated.  The wave is noted
\* once a setup is built from its count, triggered or not.
AnalyseWindow(d) ==
    \E found \in Findings, wave \in Waves \cup {NoCount}, built \in BOOLEAN :
      /\ window[d] < Windows[d]
      /\ window' = [window EXCEPT ![d] = @ + 1]
      /\ entered' = IF /\ runner = "global" /\ built /\ found = "nothing"
                       /\ HasScenarios(d, found, wave)
                    THEN [entered EXCEPT ![d] = wave] ELSE entered
      /\ \/ UNCHANGED <<candidates, taken, open, equity>>
         \/ /\ HasScenarios(d, found, wave) /\ built
            /\ \E trade \in Trades(window[d] + 1), priority \in 1..2 :
                  IF runner = "portfolio"
                  THEN TakeNow(d, trade) /\ UNCHANGED candidates
                  ELSE /\ candidates' = candidates \cup
                            {[trade |-> trade, dataset |-> d, window |-> window[d],
                              priority |-> priority]}
                       /\ UNCHANGED <<taken, open, equity>>
      /\ UNCHANGED <<runner, limit, scheduled>>

-----------------------------------------------------------------------------
\* candidates.sort: by entry, priority, dataset; the sort is stable.
Sooner(c, d) ==
    \/ c.trade.entry < d.trade.entry
    \/ /\ c.trade.entry = d.trade.entry
       /\ \/ c.priority > d.priority
          \/ /\ c.priority = d.priority
             /\ \/ c.dataset < d.dataset
                \/ c.dataset = d.dataset /\ c.window < d.window

\* One candidate of a dataset and entry is kept.
Kept ==
    {c \in candidates :
        ~\E d \in candidates :
            d.dataset = c.dataset /\ d.trade.entry = c.trade.entry /\ Sooner(d, c)}

\* Mutant of SettledBy: a trade that exits with the bar of the entry is left open.
SettledByEarlier(bar) == {t \in open : t.exit # Never /\ t.exit < bar}

\* settle_until
SettledBy(bar) == {t \in open : t.exit # Never /\ t.exit <= bar}

\* No room, or a position of the same symbol and timeframe is open
Blocked(c, positions) ==
    \/ Cardinality(positions) >= limit
    \/ \E t \in positions : t.dataset = c.dataset

\* The next candidate: what has exited by its entry is settled first.
Schedule ==
    /\ runner = "global"
    /\ \A d \in Datasets : window[d] = Windows[d]
    /\ \E c \in Kept \ scheduled :
          LET due == SettledBy(c.trade.entry)
              capital == equity + Total(due)
              left == open \ due
              t == Taken(c.trade, c.dataset, capital, Cardinality(taken))
          IN  /\ \A d \in Kept \ scheduled : d = c \/ Sooner(c, d)
              /\ scheduled' = scheduled \cup {c}
              /\ equity' = capital
              /\ IF Blocked(c, left) THEN open' = left /\ UNCHANGED taken
                 ELSE open' = left \cup {t} /\ taken' = taken \cup {t}
    /\ UNCHANGED <<runner, limit, window, entered, candidates>>

\* settle_until(None); the trades without an exit stay out of the equity.
SettleAll ==
    /\ runner = "global"
    /\ \A d \in Datasets : window[d] = Windows[d]
    /\ Kept \subseteq scheduled
    /\ SettledBy(Horizon) # {}
    /\ open' = open \ SettledBy(Horizon)
    /\ equity' = equity + Total(SettledBy(Horizon))
    /\ UNCHANGED <<runner, limit, window, entered, candidates, scheduled, taken>>

-----------------------------------------------------------------------------
BacktestInit ==
    /\ runner \in {"portfolio", "global"}
    /\ limit \in Limits
    /\ window = [d \in Datasets |-> 0]
    /\ entered = [d \in Datasets |-> NoCount]
    /\ candidates = {}
    /\ scheduled = {}
    /\ taken = {}
    /\ open = {}
    /\ equity = InitialCapital

\* The datasets are analysed one after the other.
BacktestNext ==
    \/ \E d \in Datasets :
          /\ \A e \in Datasets : e < d => window[e] = Windows[e]
          /\ runner = "portfolio" => d = Min(Datasets)
          /\ AnalyseWindow(d)
    \/ Schedule
    \/ SettleAll

BacktestSpec == BacktestInit /\ [][BacktestNext]_backtestVars

-----------------------------------------------------------------------------
\* run_portfolio_backtest with room for several positions: it knows the result of a
\* trade when it takes it, and adds it then.
CreditsAhead == runner = "portfolio" /\ limit > 1

\* The trades whose results are in when a trade is sized
KnownAt(t) ==
    {u \in taken : u.number < t.number /\ (CreditsAhead \/ u.exit <= t.entry)}

(* A trade risks its share of what the account held when it was entered:   *)
(* the capital and every result that was in by then.  A result that was    *)
(* still to come is in nowhere but where run_portfolio_backtest has room   *)
(* for a second position: there a trade is sized on the results of those   *)
(* that are still open.                                                    *)
SizedOnKnownResults ==
    \A t \in taken : t.risk = RiskOf(InitialCapital + Total(KnownAt(t)))
=============================================================================
