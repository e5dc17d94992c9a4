-------------------------- MODULE MCExecutionQueue --------------------------
(* Instances of ExecutionQueue for TLC.                                     *)
EXTENDS ExecutionQueue
=============================================================================
