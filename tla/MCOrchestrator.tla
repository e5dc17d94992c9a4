---------------------------- MODULE MCOrchestrator ----------------------------
(***************************************************************************)
(* Instances of what the orchestrator writes to its database, for TLC: the *)
(* execution queue and the signal rows.  They share no state: focus is the *)
(* one a behaviour is about, the other stays as it is.                     *)
(***************************************************************************)
EXTENDS MCExecutionQueue, MCSignalLifecycle

VARIABLE focus

orchestratorVars == <<focus, queueVars, signalVars>>

OrchestratorInit ==
    /\ focus \in {"queue", "signals"}
    /\ QueueInit /\ SignalInit
    /\ focus = "queue" => mode = "pending" /\ gate

OrchestratorNext ==
    \/ focus = "queue" /\ QueueNext /\ UNCHANGED <<focus, signalVars>>
    \/ focus = "signals" /\ SignalNext /\ UNCHANGED <<focus, queueVars>>

OrchestratorSpec == OrchestratorInit /\ [][OrchestratorNext]_orchestratorVars /\ QueueFairness
=============================================================================
