------------------------------ MODULE AlertState ------------------------------
(***************************************************************************)
(* Price alerts and the file that keeps them from repeating                *)
(* (services/alert_state_store.py).  Two processes use it: the             *)
(* orchestrator for scenarios (services/scenario_alert_service.py) and the *)
(* level monitor (services/live_price_monitor.py).  Each loads the file    *)
(* when it starts, decides on its own copy, and saves the whole copy.      *)
(*                                                                         *)
(* Prices are whole numbers.  In place of the time of the last alert a     *)
(* record holds the ticks that are left of its cooldown.                   *)
(***************************************************************************)
EXTENDS Integers, FiniteSets

CONSTANTS
    Keys,           \* alert keys
    Watched,        \* what each key watches: a scenario or a level
    Cooldown,       \* SCENARIO_ALERT_COOLDOWN_SECONDS in ticks
    AlertPrices,    \* prices of a poll
    MaxLostSaves,   \* bound: saves that fail, or that a death cuts short
    MaxRestarts     \* bound: restarts of the two processes

Kinds == {"scenario", "level"}

ASSUME AlertAssumption ==
    /\ Watched \in [Keys -> [kind : Kinds, bullish : BOOLEAN, near : Int, far : Int]]
    /\ Cooldown \in Nat \ {0}
    /\ AlertPrices \subseteq Int
    /\ MaxLostSaves \in Nat
    /\ MaxRestarts \in Nat

VARIABLES
    known,      \* the states each process holds
    onDisk,     \* the JSON file
    quiet,      \* history: ticks until a second alert of the key is not too soon
    forgot,     \* history: keys whose record a process lost by a restart
    lostSaves,
    restarts

alertVars == <<known, onDisk, quiet, forgot, lostSaves, restarts>>

-----------------------------------------------------------------------------
Processes == {"orchestrator", "monitor"}

Serves(p, k) == Watched[k].kind = IF p = "orchestrator" THEN "scenario" ELSE "level"

AlertStates ==
    {"none", "WAITING_CONFIRMATION", "CONFIRMED", "INVALIDATED", "NEAR", "BREAK"}

NoRecord == [state |-> "none", left |-> 0]

Blank == [k \in Keys |-> NoRecord]

\* Of a scenario: near is its confirmation, far its invalidation.
UpdateScenarioState(w, price) ==
    IF w.bullish
    THEN IF price < w.far THEN "INVALIDATED"
         ELSE IF price >= w.near THEN "CONFIRMED" ELSE "WAITING_CONFIRMATION"
    ELSE IF price > w.far THEN "INVALIDATED"
         ELSE IF price <= w.near THEN "CONFIRMED" ELSE "WAITING_CONFIRMATION"

\* Of a level, a support if bullish: far is its price, near the edge of its
\* tolerance.
DetectLevelState(w, price) ==
    IF w.bullish
    THEN IF price < w.far THEN "BREAK" ELSE IF price <= w.near THEN "NEAR" ELSE "none"
    ELSE IF price > w.far THEN "BREAK" ELSE IF price >= w.near THEN "NEAR" ELSE "none"

StateAt(k, price) ==
    IF Watched[k].kind = "scenario" THEN UpdateScenarioState(Watched[k], price)
    ELSE DetectLevelState(Watched[k], price)

CooldownOf(k) == IF Watched[k].kind = "scenario" THEN Cooldown ELSE 0

\* Mutant of ShouldAlert: the state has changed, whatever the cooldown says.
ShouldAlertAtOnce(p, k, state) == known[p][k].state # state

ShouldAlert(p, k, state) ==
    /\ known[p][k].state # state
    /\ known[p][k].left = 0

\* Only these states send a message.
Announced == {"CONFIRMED", "INVALIDATED", "NEAR", "BREAK"}

-----------------------------------------------------------------------------
\* _save: the file becomes this process's copy; a save may fail, and the store
\* goes on in memory.
Save(copy) ==
    \/ /\ onDisk' = copy
       /\ UNCHANGED lostSaves
    \/ /\ lostSaves < MaxLostSaves
       /\ lostSaves' = lostSaves + 1
       /\ UNCHANGED onDisk

\* should_alert, and the message.  Within the cooldown the new state is stored
\* and never announced.
Poll(p, k, price) ==
    LET state == StateAt(k, price)
        alert == ShouldAlert(p, k, state)
        record == [state |-> state, left |-> IF alert THEN CooldownOf(k) ELSE known[p][k].left]
        copy == [known[p] EXCEPT ![k] = record] IN
    /\ Serves(p, k)
    /\ state \notin {"none", known[p][k].state}
    /\ known' = [known EXCEPT ![p] = copy]
    /\ Save(copy)
    /\ quiet' = [quiet EXCEPT ![k] =
                    IF alert /\ state \in Announced THEN CooldownOf(k) ELSE @]
    /\ UNCHANGED <<forgot, restarts>>

\* The new process loads the file; a death in the midst of a save leaves one
\* that cannot be read, and the new process starts from nothing.
Restart(p) ==
    /\ restarts < MaxRestarts
    /\ restarts' = restarts + 1
    /\ \/ UNCHANGED <<onDisk, lostSaves>>
       \/ /\ lostSaves < MaxLostSaves
          /\ lostSaves' = lostSaves + 1
          /\ onDisk' = Blank
    /\ known' = [known EXCEPT ![p] = onDisk']
    /\ forgot' = forgot \cup {k \in Keys : Serves(p, k) /\ onDisk'[k] # known[p][k]}
    /\ UNCHANGED quiet

Fewer(n) == IF n > 0 THEN n - 1 ELSE 0

Aged(copy) == [k \in Keys |-> [copy[k] EXCEPT !.left = Fewer(@)]]

AlertTick ==
    /\ \E k \in Keys : quiet[k] > 0 \/ onDisk[k].left > 0 \/ \E p \in Processes : known[p][k].left > 0
    /\ known' = [p \in Processes |-> Aged(known[p])]
    /\ onDisk' = Aged(onDisk)
    /\ quiet' = [k \in Keys |-> Fewer(quiet[k])]
    /\ UNCHANGED <<forgot, lostSaves, restarts>>

-----------------------------------------------------------------------------
AlertInit ==
    /\ known = [p \in Processes |-> Blank]
    /\ onDisk = Blank
    /\ quiet = [k \in Keys |-> 0]
    /\ forgot = {}
    /\ lostSaves = 0
    /\ restarts = 0

AlertNext ==
    \/ \E p \in Processes, k \in Keys, price \in AlertPrices : Poll(p, k, price)
    \/ \E p \in Processes : Restart(p)
    \/ AlertTick

AlertSpec == AlertInit /\ [][AlertNext]_alertVars

-----------------------------------------------------------------------------
Record == [state : AlertStates, left : 0..Cooldown]

AlertTypeOK ==
    /\ known \in [Processes -> [Keys -> Record]]
    /\ onDisk \in [Keys -> Record]
    /\ quiet \in [Keys -> 0..Cooldown]
    /\ forgot \subseteq Keys
    /\ lostSaves \in 0..MaxLostSaves
    /\ restarts \in 0..MaxRestarts

(* Two messages about a scenario are a cooldown apart.  The exception is a *)
(* process that was started again from a file behind what its predecessor  *)
(* knew: a save failed, was cut short, or the other process overwrote the  *)
(* file with its own older copy.                                           *)
AlertsSpaced ==
    [][\A k \in Keys : quiet'[k] > quiet[k] => quiet[k] = 0 \/ k \in forgot]_alertVars
=============================================================================
