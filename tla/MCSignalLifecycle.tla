-------------------------- MODULE MCSignalLifecycle --------------------------
(* Instances of SignalLifecycle for TLC, on a scale of nine price ticks.    *)
EXTENDS SignalLifecycle

\* Half a risk to the first target.
BullishPlan ==
    [bias |-> "BULLISH", confirmation |-> 4, stop_loss |-> 0, invalidation |-> 0,
     targets |-> <<6, 7, 8>>]

\* A first target nearer than half the risk: the fallback targets replace it.
NearTargetPlan ==
    [bias |-> "BULLISH", confirmation |-> 4, stop_loss |-> 0, invalidation |-> 1,
     targets |-> <<5, 7>>]

\* _fill_missing_targets completes one far target with 2 R and 3 R: TP2 is nearer.
\* Here with a risk of two ticks.
FarTargetPlan ==
    [bias |-> "BEARISH", confirmation |-> 6, stop_loss |-> 8, invalidation |-> 8,
     targets |-> <<0, 2, 0>>]

BearishPlan ==
    [bias |-> "BEARISH", confirmation |-> 4, stop_loss |-> 8, invalidation |-> 7,
     targets |-> <<2, 0, -1>>]

MCAnalyses ==
    {<<BullishPlan>>, <<NearTargetPlan, BearishPlan>>, <<FarTargetPlan>>}

MCPrices == {0, 2, 5, 7}
=============================================================================
