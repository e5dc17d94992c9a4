----------------------------- MODULE SignalPlan -----------------------------
(***************************************************************************)
(* What the signals table promises its readers (the sheet, the dashboards, *)
(* the execution queue): the lifecycle of the docstring of WaveRepository. *)
(* One transaction may take a signal several steps further, and several    *)
(* signals at once; it never takes one back.                               *)
(***************************************************************************)
EXTENDS Integers, Sequences

VARIABLE status     \* status[i]: the status of signal i

Live == {"ACTIVE", "PARTIAL_TP1", "PARTIAL_TP2"}

Resolved == {"TP3_HIT", "STOPPED", "INVALIDATED"}

\* The statuses one transaction can take a signal to, itself included.
Later(s) ==
    CASE s = "PENDING_ENTRY" -> {s} \cup Live \cup Resolved \cup {"REPLACED"}
      [] s = "ACTIVE" -> Live \cup Resolved
      [] s \in Live \ {"ACTIVE"} -> (Live \ {"ACTIVE"}) \cup Resolved
      [] OTHER -> {s}

Init == status = <<>>

\* The known signals move on; at most one is born, waiting or already live.
Move ==
    /\ Len(status') \in {Len(status), Len(status) + 1}
    /\ \A i \in 1..Len(status) : status'[i] \in Later(status[i])
    /\ \A i \in Len(status) + 1 .. Len(status') : status'[i] \in {"PENDING_ENTRY", "ACTIVE"}

Spec == Init /\ [][Move]_status
=============================================================================
