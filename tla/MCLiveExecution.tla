--------------------------- MODULE MCLiveExecution ---------------------------
(* Small instances of LiveExecution.                                       *)
EXTENDS LiveExecution

Long == [side |-> "LONG", entry |-> 3, stop |-> 1, target |-> 4, size |-> 1]

BigLong == [Long EXCEPT !.size = 2]

Short == [side |-> "SHORT", entry |-> 2, stop |-> 4, target |-> 1, size |-> 1]

BigShort == [Short EXCEPT !.size = 2]

MCOneSignal == {1}

MCTwoSignals == {1, 2}

MCLongPlan == <<Long>>

MCBigLongPlans == <<BigLong, Short>>

MCOpposedPlans == <<Long, BigShort>>

MCPrices == 1..4

\* Without the target: an active signal may close for its other reasons.
MCLowPrices == 1..3

MCEntryPrices == 2..3

MCAllButPlacing == Stages \ {"place", "record"}
=============================================================================
