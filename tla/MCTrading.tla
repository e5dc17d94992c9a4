------------------------------- MODULE MCTrading -------------------------------
(***************************************************************************)
(* Instances of how prices are traded, for TLC: the wave analysis, the     *)
(* trade simulators, the backtests and the live execution.  They share no  *)
(* state: focus is the one a behaviour is about, the others stay as they   *)
(* are.                                                                    *)
(*                                                                         *)
(* Live, there is a long alone, on all four prices, or a long and a short  *)
(* of the same symbol whose entries rest together, on the two prices       *)
(* around them.                                                            *)
(***************************************************************************)
EXTENDS MCWaveAnalysis, TradeSimulation, PortfolioBacktest, MCLiveExecution

VARIABLES focus, alone

Setup(s, e, stop, targets) == [side |-> s, entry |-> e, stop |-> stop, targets |-> targets]

\* Three targets, one target, and targets out of order, as setups have them.
MCSetups ==
    {Setup("LONG", 5, 1, <<6, 7, 9>>), Setup("LONG", 5, 1, <<7>>),
     Setup("LONG", 5, 1, <<9, 6, 7>>), Setup("SHORT", 5, 9, <<4, 3, 1>>)}

MCWindows == [d \in {1, 2} |-> 3 - d]

MCRewards == {-1, 2}

-----------------------------------------------------------------------------
tradingVars == <<focus, alone, analysisVars, simVars, backtestVars, liveVars>>

TradingInit ==
    /\ focus \in {"analysis", "simulation", "backtest", "live"}
    /\ AnalysisInit /\ SimInit /\ BacktestInit /\ LiveInit
    /\ alone \in BOOLEAN
    /\ IF alone THEN signal[2] = "none" ELSE price \in MCEntryPrices
    /\ focus # "analysis" => chart[1].type = "H"
    /\ focus # "simulation" => setup = Setup("LONG", 5, 1, <<7>>)
    /\ focus # "backtest" => runner = "portfolio" /\ limit = 1
    /\ focus # "live" => alone /\ price = 1

LiveStep ==
    /\ LiveNext
    /\ IF alone THEN signal'[2] = "none" ELSE price' \in MCEntryPrices

Others(part) ==
    /\ focus = part
    /\ part # "analysis" => UNCHANGED analysisVars
    /\ part # "simulation" => UNCHANGED simVars
    /\ part # "backtest" => UNCHANGED backtestVars
    /\ part # "live" => UNCHANGED liveVars
    /\ UNCHANGED <<focus, alone>>

\* A chart, a simulation or a backtest comes to its end; live execution never does.
PastEnds ==
    /\ focus # "live"
    /\ UNCHANGED tradingVars

TradingNext ==
    \/ Others("analysis") /\ AnalysisNext
    \/ Others("simulation") /\ SimNext
    \/ Others("backtest") /\ BacktestNext
    \/ Others("live") /\ LiveStep
    \/ PastEnds

TradingSpec == TradingInit /\ [][TradingNext]_tradingVars
=============================================================================
