------------------------------ MODULE MCServices ------------------------------
(***************************************************************************)
(* Instances of the services that keep a store of their own, for TLC.      *)
(* They share no state: focus is the one a behaviour is about, the others  *)
(* stay as they are.                                                       *)
(***************************************************************************)
EXTENDS FundStore, Announcements, NewsDigest, AlertState, CandleStore, Accounts, KalshiSlots,
        KalshiEngine, ExitLadder, PortfolioLimits

VARIABLE focus

\* A bullish scenario confirmed at 3 and invalid below 1; a resistance at 2.
MCWatched ==
    [sc |-> [kind |-> "scenario", bullish |-> TRUE, near |-> 3, far |-> 1],
     lv |-> [kind |-> "level", bullish |-> FALSE, near |-> 2, far |-> 2]]

\* The 15-minute charts the copy of the analysis is run on, oldest pivot first, five
\* bars apart: a fall, a rise and one too short for a count.
MCChart(prices) ==
    [i \in DOMAIN prices |-> [type |-> IF prices[i] < prices[IF i = 1 THEN 2 ELSE i - 1]
                                       THEN "L" ELSE "H",
                              price |-> prices[i], bar |-> 5 * i]]

MCCharts == {<<20000, 18400, 19400>>, <<20000, 21600, 20600, 24400>>, <<20000, 21600>>}

MCSignals ==
    [d \in {"bullish", "bearish"} |->
        [validated |-> TRUE, rsi |-> TRUE, macd |-> FALSE, spike |-> FALSE,
         divergence |-> FALSE, turning |-> TRUE, atr |-> TRUE, longTerm |-> TRUE]]

MCSlotScenarios ==
    UNION {Actionable(EwScenarios(MCChart(c), c[Len(c)], MCSignals, 400)) : c \in MCCharts}

\* Targets at 6, 7 and 8 with the default shares of 0.5, 0.3 and 0.2, and the stop and
\* a target of an earlier trade.
MCPlanTargets == <<6, 7, 8>>
MCWeights == <<5, 3, 2>>
MCStrays == {Stop(3), [kind |-> 1, at |-> 5, lots |-> 2]}

-----------------------------------------------------------------------------
serviceVars ==
    <<focus, fundVars, announceVars, newsVars, alertVars, candleVars, accountVars, slotVars,
      ladderVars, limitVars>>

ServicesInit ==
    /\ focus \in {"fund", "announcements", "news", "alerts", "candles", "accounts", "slots",
                 "exits", "limits"}
    /\ FundInit /\ AnnounceInit /\ NewsInit /\ AlertInit /\ CandleInit /\ AccountInit /\ SlotInit
    /\ LadderInit /\ LimitInit
    /\ focus # "announcements" => exchangeMode = "off"
    /\ focus # "exits" => exits = {}
    /\ focus # "limits" =>
          settings = [style |-> "market", deRisk |-> FALSE] /\ wallet = 10000

Others(service) ==
    /\ focus = service
    /\ service # "fund" => UNCHANGED fundVars
    /\ service # "announcements" => UNCHANGED announceVars
    /\ service # "news" => UNCHANGED newsVars
    /\ service # "alerts" => UNCHANGED alertVars
    /\ service # "candles" => UNCHANGED candleVars
    /\ service # "accounts" => UNCHANGED accountVars
    /\ service # "slots" => UNCHANGED slotVars
    /\ service # "exits" => UNCHANGED ladderVars
    /\ service # "limits" => UNCHANGED limitVars
    /\ UNCHANGED focus

ServicesNext ==
    \/ Others("fund") /\ FundNext
    \/ Others("announcements") /\ AnnounceNext
    \/ Others("news") /\ NewsNext
    \/ Others("alerts") /\ AlertNext
    \/ Others("candles") /\ CandleNext
    \/ Others("accounts") /\ AccountNext
    \/ Others("slots") /\ SlotNext
    \/ Others("exits") /\ LadderNext
    \/ Others("limits") /\ LimitNext

ServicesSpec == ServicesInit /\ [][ServicesNext]_serviceVars /\ AnnounceFairness

\* The states of the nine parts have their types: fund members and trades,
\* announcements, news, alert records, candles, accounts, predictions, the exits
\* of a position and the rows the limits count.
ServicesTypeOK ==
    /\ FundTypeOK /\ AnnounceTypeOK /\ NewsTypeOK /\ AlertTypeOK
    /\ CandleTypeOK /\ AccountTypeOK /\ SlotTypeOK /\ LadderTypeOK /\ LimitTypeOK
=============================================================================
