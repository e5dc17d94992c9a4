---------------------------- MODULE MCExitLadder ----------------------------
(* Instances of ExitLadder for TLC.                                         *)
EXTENDS ExitLadder

MCPlanTargets == <<6, 7, 8>>

\* The default shares: 0.5, 0.3 and 0.2.
MCWeights == <<5, 3, 2>>
=============================================================================
