--------------------------- MODULE Announcements ---------------------------
(***************************************************************************)
(* What the orchestrator tells the operator, and how often: entry          *)
(* notifications (services/trading_orchestrator.py) and daily messages     *)
(* (scheduler/daily_scheduler.py).  They follow one pattern: look for a    *)
(* mark in the database, send, write the mark.  A daily message stands for *)
(* its event key, that is for one day.                                     *)
(***************************************************************************)
EXTENDS Integers, Sequences, FiniteSets, FiniteSetsExt, SequencesExt

CONSTANTS
    Entries,        \* signals whose entry is announced
    Jobs,           \* event keys of the daily messages
    ExchangeModes,  \* values of exchangeMode to consider
    MaxFaults       \* bound: failed cycles and deaths

Items == Entries \cup Jobs

ASSUME AnnouncementAssumption ==
    /\ MaxFaults \in Nat
    /\ IsFiniteSet(Entries)
    /\ Entries \cap Jobs = {}
    /\ ExchangeModes \subseteq {"off", "market", "managed"}

VARIABLES
    entry,          \* of each signal: waiting, entered or closed
    filled,         \* signals whose fill the handler has reported
    marked,         \* entry_notified_at, system_events
    copies,         \* how often each item was handed to send_notification
    window,         \* the time is between 07:05 and 08:00
    todo,           \* what it is about to announce
    stage,          \* idle, send, mark or down
    sweeping,       \* it announces what a start has found
    faults,         \* failed cycles and deaths
    unmarked,       \* history: how often an item was sent and its mark lost
    dropped,        \* history: entries whose announcement a fault took
    exchangeMode    \* orders off, market entries, entries at the signal's price

announceVars ==
    <<entry, filled, marked, copies, window, todo, stage, sweeping, faults, unmarked,
      dropped, exchangeMode>>

signalState == <<entry, filled, dropped, exchangeMode>>

faultState == <<faults, unmarked>>

Free == stage = "idle"

Announce(items) ==
    /\ todo' = items
    /\ stage' = IF items = << >> THEN "idle" ELSE "send"
    /\ sweeping' = ((stage = "down" \/ sweeping) /\ items # << >>)

-----------------------------------------------------------------------------
(* Entries.  With live orders, an entry found by a price tick is announced *)
(* by the handler that reports its fill.                                   *)

\* process_market_update: the tick is committed with all its entries.
Tick(entries) ==
    /\ Free
    /\ exchangeMode # "managed"
    /\ entries # {}
    /\ \A s \in entries : entry[s] = "waiting"
    /\ entry' = [s \in Entries |-> IF s \in entries THEN "entered" ELSE entry[s]]
    /\ Announce(IF exchangeMode = "off" THEN SetToSeq(entries) ELSE << >>)
    /\ UNCHANGED <<filled, marked, copies, window, faultState, dropped, exchangeMode>>

\* _maybe_notify_new_signal_entry, for the rows given
Unannounced(signals) ==
    IF exchangeMode = "managed" THEN {}
    ELSE {s \in signals : entry[s] = "entered" /\ s \notin marked}

\* sync_runtime inserts a signal that is entered at once.
SyncEntry(s) ==
    /\ Free
    /\ exchangeMode # "managed"
    /\ entry[s] = "waiting"
    /\ entry' = [entry EXCEPT ![s] = "entered"]
    /\ Announce(<<s>>)
    /\ UNCHANGED <<filled, marked, copies, window, faultState, dropped, exchangeMode>>

\* _notify_signal_entry_after_exchange_fill does not look at the mark.
ReportFill(s) ==
    /\ Free
    /\ exchangeMode # "off"
    /\ s \notin filled
    /\ entry[s] = IF exchangeMode = "market" THEN "entered" ELSE "waiting"
    /\ entry' = [entry EXCEPT ![s] = "entered"]
    /\ filled' = filled \cup {s}
    /\ Announce(<<s>>)
    /\ UNCHANGED <<marked, copies, window, faultState, dropped, exchangeMode>>

\* The reconciler finds the position of a signal before its task does: the
\* task is then skipped, and nothing is announced.
RecoverFill(s) ==
    /\ Free
    /\ exchangeMode # "off"
    /\ s \notin filled
    /\ entry[s] = IF exchangeMode = "market" THEN "entered" ELSE "waiting"
    /\ entry' = [entry EXCEPT ![s] = "entered"]
    /\ filled' = filled \cup {s}
    /\ dropped' = dropped \cup {s}
    /\ UNCHANGED <<marked, copies, window, todo, stage, sweeping, faultState,
                   exchangeMode>>

CloseSignal(s) ==
    /\ Free
    /\ entry[s] = "entered"
    /\ entry' = [entry EXCEPT ![s] = "closed"]
    /\ UNCHANGED <<filled, marked, copies, window, todo, stage, sweeping, faultState,
                   dropped, exchangeMode>>

-----------------------------------------------------------------------------
(* Daily messages: maybe_run_combined_daily_job, maybe_run_daily_scenario_job *)

RunJob(j) ==
    /\ Free
    /\ window
    /\ j \notin marked
    /\ Announce(<<j>>)
    /\ UNCHANGED <<signalState, marked, copies, window, faultState>>

WindowMoves ==
    /\ window' = ~window
    /\ UNCHANGED <<signalState, marked, copies, todo, stage, sweeping, faultState>>

-----------------------------------------------------------------------------
(* The orchestrator's steps.  send_notification gives up after three       *)
(* attempts and returns False, which no caller looks at.                   *)

SendNext ==
    /\ stage = "send"
    /\ copies' = [copies EXCEPT ![Head(todo)] = @ + 1]
    /\ stage' = "mark"
    /\ UNCHANGED <<signalState, marked, window, todo, sweeping, faultState>>

\* Mutant of MarkNext: the mark is written nowhere.
MarkNothing ==
    /\ stage = "mark"
    /\ Announce(Tail(todo))
    /\ UNCHANGED <<signalState, marked, copies, window, faultState>>

\* mark_entry_notified, record_system_event
MarkNext ==
    /\ stage = "mark"
    /\ marked' = marked \cup {Head(todo)}
    /\ Announce(Tail(todo))
    /\ UNCHANGED <<signalState, copies, window, faultState>>

Unsent ==
    Entries \cap
        IF stage = "mark" THEN ToSet(Tail(todo)) ELSE ToSet(todo)

LoseMark ==
    unmarked' = IF stage = "mark" THEN [unmarked EXCEPT ![Head(todo)] = @ + 1] ELSE unmarked

\* An exception.  It ends the cycle, and the rest of the tick's events is
\* forgotten; the sweep of a start catches it and goes on with the next entry.
CycleFails ==
    LET rest == IF sweeping THEN Tail(todo) ELSE << >> IN
    /\ stage \in {"send", "mark"}
    /\ faults < MaxFaults
    /\ faults' = faults + 1
    /\ LoseMark
    /\ dropped' = dropped \cup (Unsent \ ToSet(rest))
    /\ Announce(rest)
    /\ UNCHANGED <<entry, filled, marked, copies, window, exchangeMode>>

\* A death.  With entries at the signal's price the sweep of the next start
\* announces nothing.
OrchestratorDies ==
    /\ stage # "down"
    /\ faults < MaxFaults
    /\ faults' = faults + 1
    /\ LoseMark
    /\ dropped' = dropped \cup (IF exchangeMode = "managed" THEN Unsent ELSE {})
    /\ todo' = << >>
    /\ stage' = "down"
    /\ sweeping' = FALSE
    /\ UNCHANGED <<entry, filled, marked, copies, window, exchangeMode>>

\* Mutant of OrchestratorStarts: without the sweep of the start.
OrchestratorStartsBlank ==
    /\ stage = "down"
    /\ Announce(<< >>)
    /\ UNCHANGED <<signalState, marked, copies, window, faultState>>

\* The start sweeps the entries never announced (fetch_unnotified_active_signals).
OrchestratorStarts ==
    /\ stage = "down"
    /\ Announce(SetToSeq(Unannounced(Entries)))
    /\ UNCHANGED <<signalState, marked, copies, window, faultState>>

-----------------------------------------------------------------------------
AnnounceInit ==
    /\ entry = [s \in Entries |-> "waiting"]
    /\ filled = {}
    /\ marked = {}
    /\ copies = [i \in Items |-> 0]
    /\ window = FALSE
    /\ todo = << >>
    /\ stage = "idle"
    /\ sweeping = FALSE
    /\ faults = 0
    /\ unmarked = [i \in Items |-> 0]
    /\ dropped = {}
    /\ exchangeMode \in ExchangeModes

OrchestratorStep == SendNext \/ MarkNext \/ OrchestratorStarts

AnnounceNext ==
    \/ \E entries \in SUBSET Entries : Tick(entries)
    \/ \E s \in Entries : SyncEntry(s) \/ ReportFill(s) \/ RecoverFill(s) \/ CloseSignal(s)
    \/ \E j \in Jobs : RunJob(j)
    \/ WindowMoves
    \/ OrchestratorStep
    \/ CycleFails
    \/ OrchestratorDies

(* The process goes on while it has something to send, and is started      *)
(* again when it dies (the service restarts on failure).                   *)
AnnounceFairness == WF_announceVars(OrchestratorStep)

AnnounceSpec == AnnounceInit /\ [][AnnounceNext]_announceVars /\ AnnounceFairness

-----------------------------------------------------------------------------
AnnounceTypeOK ==
    /\ entry \in [Entries -> {"waiting", "entered", "closed"}]
    /\ filled \subseteq Entries /\ dropped \subseteq Entries
    /\ marked \subseteq Items
    /\ copies \in [Items -> Nat]
    /\ ToSet(todo) \subseteq Entries \cup Jobs
    /\ stage \in {"idle", "send", "mark", "down"}
    /\ sweeping \in BOOLEAN
    /\ faults \in 0..MaxFaults
    /\ unmarked \in [Items -> Nat]
    /\ (stage \in {"send", "mark"}) = (todo # << >>)

(* An item is sent again only after its mark was lost: a failed cycle or a *)
(* death between its own message and its own mark, at most one more copy   *)
(* for each.  What strikes before the message, or strikes another item,    *)
(* repeats nothing.  Only the fill of a market entry sends without a look  *)
(* at the mark.  Whatever is marked was sent.                              *)
RepeatedOnlyUnmarked ==
    \A i \in Items :
        /\ copies[i] <= 1 + unmarked[i]
                          + (IF i \in filled /\ exchangeMode = "market" THEN 1 ELSE 0)
        /\ i \in marked => copies[i] > 0

(* What _maybe_notify_new_signal_entry promises of entry_notified_at: "the *)
(* notification is guaranteed to fire exactly once - even across process   *)
(* restarts" (services/trading_orchestrator.py:108-109).                   *)
EntryAnnouncedOnce == \A s \in Entries : copies[s] <= 1

(* An entry is announced, unless it is closed first, the cycle that knew   *)
(* of it failed, or the reconciler recovered it; a death in between does   *)
(* not lose it where the bot itself manages entries.  With market orders   *)
(* it is the fill that is announced.                                       *)
EntriesAnnounced ==
    \A s \in Entries :
        (entry[s] = "entered" /\ (exchangeMode = "market" => s \in filled))
            ~> (copies[s] > 0 \/ entry[s] = "closed" \/ s \in dropped)
=============================================================================
