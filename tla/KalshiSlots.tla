----------------------------- MODULE KalshiSlots -----------------------------
(***************************************************************************)
(* The paper trades on 15-minute markets (services/kalshi_predictor.py):   *)
(* in each window one scenario is locked, and a prediction is recorded     *)
(* once a price confirms it.  A call of make_prediction reads the clock,   *)
(* asks for the market and then for a price; time passes in between.       *)
(*                                                                         *)
(* A window is its number, its expiry is the first moment of the next one. *)
(* Without an answer from Kalshi a ticker of the bot's own stands in.      *)
(***************************************************************************)
EXTENDS Integers, FiniteSets

CONSTANTS
    WindowLength,   \* moments of a window
    Grace,          \* moments to wait after the expiry, 30 s
    SlotPrices,     \* prices of a poll
    SlotScenarios,  \* actionable scenarios: bias and confirmation
    Targets,        \* strikes of the markets
    MaxMoment,      \* bound: last moment
    MaxCrashes      \* bound: restarts

ASSUME SlotAssumption ==
    /\ WindowLength \in Nat \ {0}
    /\ Grace \in Nat
    /\ SlotPrices \subseteq Nat \ {0}
    /\ Targets \subseteq Nat \ {0}
    /\ SlotScenarios \subseteq [bias : {"BULLISH", "BEARISH"}, confirmation : Int]
    /\ MaxMoment \in Nat
    /\ MaxCrashes \in Nat

VARIABLES
    moment,         \* the time
    call,           \* the call of make_prediction that is running
    pendingSlot,    \* _pending_slot
    predictions,    \* table kalshi_predictions
    unanswered,     \* history: windows in which Kalshi gave no answer once
    crashes

slotVars == <<moment, call, pendingSlot, predictions, unanswered, crashes>>

-----------------------------------------------------------------------------
Tickers == [market : BOOLEAN, window : Nat]

Window(at) == at \div WindowLength

Expiry(ticker) == (ticker.window + 1) * WindowLength

NoTicker == [market |-> FALSE, window |-> 0]

NoCall == [at |-> "idle", now |-> 0, ticker |-> NoTicker]

\* target 0: unknown
NoPending ==
    [is |-> FALSE, ticker |-> NoTicker, target |-> 0, bias |-> "BULLISH", confirmation |-> 0]

PriceConfirms(bias, price, confirmation) ==
    IF bias = "BULLISH" THEN price >= confirmation ELSE price <= confirmation

Recorded(ticker) == \E r \in predictions : r.ticker = ticker

EndCall == call' = NoCall

-----------------------------------------------------------------------------
ReadClock ==
    /\ call.at = "idle"
    /\ call' = [NoCall EXCEPT !.at = "resolve", !.now = moment]
    /\ UNCHANGED <<moment, pendingSlot, predictions, unanswered, crashes>>

\* _resolve_current_slot: the market open at this moment, or else a ticker for
\* the window of the moment that was read.
ResolveSlot ==
    /\ call.at = "resolve"
    /\ \/ /\ call' = [call EXCEPT !.at = "decide",
                         !.ticker = [market |-> TRUE, window |-> Window(moment)]]
          /\ UNCHANGED unanswered
       \/ /\ call' = [call EXCEPT !.at = "decide",
                         !.ticker = [market |-> FALSE, window |-> Window(call.now)]]
          /\ unanswered' = unanswered \cup {Window(call.now)}
    /\ UNCHANGED <<moment, pendingSlot, predictions, crashes>>

AlreadyRecorded ==
    /\ call.at = "decide"
    /\ Recorded(call.ticker)
    /\ pendingSlot' = IF pendingSlot.ticker = call.ticker THEN NoPending ELSE pendingSlot
    /\ EndCall
    /\ UNCHANGED <<moment, predictions, unanswered, crashes>>

Waiting == pendingSlot.is /\ pendingSlot.ticker = call.ticker

\* The price decides: the prediction is recorded, or the call has to be repeated.
\* The code's test of the expiry always passes, see SlotTypeOK.
CheckConfirmation(price) ==
    LET p == pendingSlot IN
    /\ call.at = "decide"
    /\ ~Recorded(call.ticker)
    /\ Waiting
    /\ EndCall
    /\ IF PriceConfirms(p.bias, price, p.confirmation)
       THEN /\ predictions' = predictions \cup
                 {[ticker |-> call.ticker, bias |-> p.bias, win |-> "none",
                   target |-> IF p.target = 0 THEN price ELSE p.target]}
            /\ pendingSlot' = NoPending
       ELSE UNCHANGED <<pendingSlot, predictions>>
    /\ UNCHANGED <<moment, unanswered, crashes>>

\* _get_market_target; a ticker of the bot's own has none.
Strikes == {0} \cup IF call.ticker.market THEN Targets ELSE {}

Locked(s, target) ==
    [is |-> TRUE, ticker |-> call.ticker, target |-> target, bias |-> s.bias,
     confirmation |-> s.confirmation]

\* A scenario of another ticker is dropped; the analysis locks a new one, or
\* fails or finds nothing actionable.
LockScenario ==
    /\ call.at = "decide"
    /\ ~Recorded(call.ticker)
    /\ ~Waiting
    /\ EndCall
    /\ \/ pendingSlot' = NoPending
       \/ \E s \in SlotScenarios, target \in Strikes : pendingSlot' = Locked(s, target)
    /\ UNCHANGED <<moment, predictions, unanswered, crashes>>

-----------------------------------------------------------------------------
\* Mutant of Due: the window need not be over.
DueAtOnce(r) == r.win = "none"

Due(r) == r.win = "none" /\ moment >= Expiry(r.ticker) + Grace

\* resolve_predictions, for one row: the price of this moment decides.  The same
\* loop calls make_prediction, one after the other.
ResolvePrediction(r, price) ==
    LET actual == IF price > r.target THEN "BULLISH" ELSE "BEARISH" IN
    /\ call.at = "idle"
    /\ Due(r)
    /\ predictions' = (predictions \ {r}) \cup
                         {[r EXCEPT !.win = IF actual = r.bias THEN "won" ELSE "lost"]}
    /\ UNCHANGED <<moment, call, pendingSlot, unanswered, crashes>>

SlotTick ==
    /\ moment < MaxMoment
    /\ moment' = moment + 1
    /\ UNCHANGED <<call, pendingSlot, predictions, unanswered, crashes>>

\* The locked scenario is held in memory only.
SlotRestart ==
    /\ crashes < MaxCrashes
    /\ crashes' = crashes + 1
    /\ pendingSlot' = NoPending
    /\ EndCall
    /\ UNCHANGED <<moment, predictions, unanswered>>

-----------------------------------------------------------------------------
SlotInit ==
    /\ moment = 0
    /\ call = NoCall
    /\ pendingSlot = NoPending
    /\ predictions = {}
    /\ unanswered = {}
    /\ crashes = 0

SlotNext ==
    \/ ReadClock
    \/ ResolveSlot
    \/ AlreadyRecorded
    \/ \E price \in SlotPrices : CheckConfirmation(price)
    \/ LockScenario
    \/ \E r \in predictions, price \in SlotPrices : ResolvePrediction(r, price)
    \/ SlotTick
    \/ SlotRestart

SlotSpec == SlotInit /\ [][SlotNext]_slotVars

-----------------------------------------------------------------------------
SlotTypeOK ==
    /\ moment \in 0..MaxMoment
    /\ call.at \in {"idle", "resolve", "decide"}
    /\ call.ticker \in Tickers
    /\ call.at = "decide" => call.now < Expiry(call.ticker)
    /\ pendingSlot.ticker \in Tickers
    /\ \A r \in predictions :
          r.ticker \in Tickers /\ r.win \in {"none", "won", "lost"}
    /\ crashes \in 0..MaxCrashes

(* A window gets one prediction, unless Kalshi once left it unanswered and *)
(* the bot's own ticker stood in.  A prediction is settled after its       *)
(* window only, and what is still locked is not in the table yet, whether  *)
(* time passed, calls failed or the process was started again in between.  *)
OnePredictionPerWindow ==
    /\ \A r, q \in predictions :
          r.ticker.window = q.ticker.window => r = q \/ r.ticker.window \in unanswered
    /\ \A r \in predictions : r.win # "none" => moment >= Expiry(r.ticker) + Grace
    /\ pendingSlot.is => ~Recorded(pendingSlot.ticker)
=============================================================================
