------------------------ MODULE LiveExecution_proofs ------------------------
(***************************************************************************)
(* The books never forget a position: for any number of signals, any plans *)
(* and prices, and any number of crashes and of faults, as long as placing *)
(* and recording an entry do not fail.                                     *)
(***************************************************************************)
EXTENDS LiveExecution, SumTheorems

OrderStatus == {"none", "STOP", "LIMIT", "FILLED", "CANCELED"}

Filled(s) == order[s].is = "FILLED"

OnlyFilled(s) == \A r \in Signals : Filled(r) => r = s

OtherFilled(s) == \E r \in Signals \ {s} : Filled(r)

LoopStages ==
    {"startup", "queue", "refresh", "tick", "events", "reconcile", "ensure", "signals"}

OpenStages == {"query", "place", "record", "fill", "protect"}

\* A row with a side, whatever its source and its price are
ARow(r) ==
    /\ r = [source |-> r.source, side |-> r.side, size |-> r.size, price |-> r.price]
    /\ r.side \in Sides
    /\ r.size \in Nat

LiveShape ==
    /\ task \in [Tasks -> TaskStatus]
    /\ pending \in [Signals -> BOOLEAN]
    /\ order \in [Signals -> [is : OrderStatus, at : Int]]
    /\ pc \in [at : Stages, of : Signals \cup {0}]
    /\ pc.at \notin LoopStages => pc.of \in Signals
    /\ position \in Int
    /\ price \in Int
    /\ row = NoRow \/ ARow(row)

\* An order rests with its key, or under a task that nobody fetches again: a
\* death between the two leaves the task RUNNING.
RestsUnderKey ==
    \A s \in Signals : Resting(s) /\ ~pending[s] => task[<<"open", s>>] = "running"

\* What is in the market, and what the row shows of it, came from orders that
\* filled; of a single one no more than its size is left.
Books ==
    /\ position # 0 \/ row # NoRow => \E s \in Signals : Filled(s)
    /\ \A s \in Signals : OnlyFilled(s) => Size <= PlanOf[s].size
    /\ row # NoRow => \A s \in Signals : OnlyFilled(s) => Size <= row.size

\* Before an entry is placed (again), nothing of an earlier one is left.
ReadyToPlace(s) ==
    /\ ~Resting(s)
    /\ row = NoRow
    /\ position = 0 \/ OtherFilled(s)
    /\ \A r \in Signals \ {s} :
          (\A q \in Signals \ {s} : Filled(q) => q = r) => Size <= PlanOf[r].size

\* What the handler at work relies on
AtStage ==
    /\ pc.at \in OpenStages => task[<<"open", pc.of>>] = "running"
    /\ At("query") => pending[pc.of] /\ row = NoRow
    /\ At("place") => ReadyToPlace(pc.of)
    /\ pc.at \in {"fill", "protect"} => Filled(pc.of)
    /\ pc.at \in {"cancelExits", "closeMarket", "cancelAll", "closeAll", "closeRow"} =>
          row # NoRow
    /\ At("closeRow") => position = 0 \/ OtherFilled(pc.of)

LiveInv == LiveShape /\ RestsUnderKey /\ Books /\ AtStage

-----------------------------------------------------------------------------
LEMMA PlanSize ==
    ASSUME NEW s \in Signals
    PROVE  /\ PlanOf[s].size \in Nat \ {0} /\ PlanOf[s].side \in Sides
           /\ PlanOf[s].entry \in Int /\ s \in Nat \ {0}
BY LiveAssumption DEF LiveAssumption, TradePlan

LEMMA IsARow ==
    ASSUME NEW source, NEW side \in Sides, NEW size \in Nat, NEW at,
           NEW r, r = [source |-> source, side |-> side, size |-> size, price |-> at]
    PROVE  ARow(r) /\ r.size = size
BY DEF ARow

LEMMA RowIsNot ==
    ASSUME NEW r, ARow(r)
    PROVE  r # NoRow /\ r.size \in Nat
BY DEF ARow, NoRow, Sides

LEMMA SizeIsNat ==
    LiveShape => Size \in Nat /\ (Size = 0 <=> position = 0)
BY DEF LiveShape, Size, Abs

LEMMA SizeWillBeNat ==
    position' \in Int => Size' \in Nat /\ (Size' = 0 <=> position' = 0)
<1>1. \A p \in Int : Abs(p) \in Nat /\ (Abs(p) = 0 <=> p = 0)
  BY DEF Abs
<1>2. Size' = Abs(position')
  BY DEF Size
<1> QED
  BY <1>1, <1>2

LEMMA LiveInitOK == LiveInit => LiveInv
<1> SUFFICES ASSUME LiveInit PROVE LiveInv
  OBVIOUS
<1>1. /\ task = [t \in Tasks |-> "none"] /\ pending = [s \in Signals |-> FALSE]
      /\ order = [s \in Signals |-> [is |-> "none", at |-> 0]]
      /\ row = NoRow /\ position = 0 /\ price \in Prices
      /\ pc = [at |-> "startup", of |-> 0]
  BY DEF LiveInit
<1>2. LiveShape
  BY <1>1, LiveAssumption
     DEF LiveAssumption, LiveShape, TaskStatus, OrderStatus, Stages, LoopStages
<1>3. RestsUnderKey /\ AtStage
  BY <1>1 DEF RestsUnderKey, AtStage, Resting, At, OpenStages
<1>4. Books
  BY <1>1, PlanSize DEF Books, Size, Abs
<1> QED
  BY <1>2, <1>3, <1>4 DEF LiveInv

-----------------------------------------------------------------------------
(* What most steps leave alone.                                            *)

LEMMA BooksStay ==
    ASSUME Books, UNCHANGED <<order, position, row>>
    PROVE  Books'
BY DEF Books, OnlyFilled, Filled, Size

\* Back in the loop, with the orders and the books as they were.
LEMMA LoopStep ==
    ASSUME LiveInv, UNCHANGED <<order, position, row, price>>,
           task' \in [Tasks -> TaskStatus], pending' \in [Signals -> BOOLEAN],
           \A s \in Signals : Resting(s) /\ ~pending'[s] => task'[<<"open", s>>] = "running",
           pc' \in [at : LoopStages, of : Signals \cup {0}]
    PROVE  LiveInv'
<1>1. pc'.at \in LoopStages /\ pc' \in [at : Stages, of : Signals \cup {0}]
  BY DEF LoopStages, Stages
<1>2. LiveShape'
  BY <1>1 DEF LiveInv, LiveShape
<1>3. RestsUnderKey'
  BY DEF RestsUnderKey, Resting
<1>4. AtStage'
  BY <1>1 DEF AtStage, At, LoopStages, OpenStages
<1> QED
  BY <1>2, <1>3, <1>4, BooksStay DEF LiveInv

LEMMA GoToLoop ==
    ASSUME NEW stage \in LoopStages, GoTo(stage)
    PROVE  pc' \in [at : LoopStages, of : Signals \cup {0}]
BY DEF GoTo

LEMMA OpenIsTask ==
    ASSUME NEW s \in Signals
    PROVE  /\ <<"open", s>> \in Tasks /\ <<"close", s>> \in Tasks
           /\ \A r \in Signals : /\ <<"open", r>> # <<"close", s>>
                                 /\ <<"open", r>> = <<"open", s>> => r = s
BY DEF Tasks

LEMMA TaskMoves ==
    ASSUME LiveShape, NEW t \in Tasks, Done(t) \/ Deferred(t) \/ Failed(t)
    PROVE  /\ task' \in [Tasks -> TaskStatus]
           /\ \A u \in Tasks \ {t} : task'[u] = task[u]
           /\ GoTo("queue")
BY DEF Done, Deferred, Failed, LiveShape, TaskStatus

LEMMA EnqueuedKeepsRunning ==
    ASSUME LiveShape, NEW tasks, Enqueued(tasks)
    PROVE  /\ task' \in [Tasks -> TaskStatus]
           /\ \A u \in Tasks : task[u] = "running" => task'[u] = "running"
BY DEF Enqueued, LiveShape, TaskStatus

\* The handler of an OPEN ends: its order does not rest without its key.
LEMMA OpenEnds ==
    ASSUME LiveInv, NEW s \in Signals, UNCHANGED <<order, position, row, price>>,
           pending' \in [Signals -> BOOLEAN],
           \A r \in Signals \ {s} : pending'[r] = pending[r],
           Resting(s) => pending'[s],
           Done(<<"open", s>>) \/ Deferred(<<"open", s>>) \/ Failed(<<"open", s>>)
    PROVE  LiveInv'
<1>1. /\ task' \in [Tasks -> TaskStatus] /\ GoTo("queue")
      /\ \A u \in Tasks \ {<<"open", s>>} : task'[u] = task[u]
  BY TaskMoves, OpenIsTask DEF LiveInv
<1>2. \A r \in Signals : Resting(r) /\ ~pending'[r] => task'[<<"open", r>>] = "running"
  BY <1>1, OpenIsTask DEF LiveInv, RestsUnderKey
<1> QED
  BY <1>1, <1>2, LoopStep, GoToLoop DEF LoopStages

\* The handler of a CLOSE ends, and touched no order but one it cancelled.
LEMMA CloseEnds ==
    ASSUME LiveInv, NEW s \in Signals, UNCHANGED <<order, position, row, price, pending>>,
           Done(<<"close", s>>) \/ Failed(<<"close", s>>)
    PROVE  LiveInv'
<1>1. /\ task' \in [Tasks -> TaskStatus] /\ GoTo("queue")
      /\ \A u \in Tasks \ {<<"close", s>>} : task'[u] = task[u]
  BY TaskMoves, OpenIsTask DEF LiveInv
<1>2. \A r \in Signals : Resting(r) /\ ~pending'[r] => task'[<<"open", r>>] = "running"
  BY <1>1, OpenIsTask DEF LiveInv, RestsUnderKey
<1> QED
  BY <1>1, <1>2, LoopStep, GoToLoop DEF LoopStages, LiveInv, LiveShape

-----------------------------------------------------------------------------
(* OPEN_FROM_SIGNAL                                                        *)

LEMMA StartOpenStep ==
    ASSUME LiveInv, NEW s \in Signals, StartOpen(s), task[<<"open", s>>] = "waiting"
    PROVE  LiveInv'
<1>1. UNCHANGED <<pending, row, order, position, price>> /\ pending' \in [Signals -> BOOLEAN]
  BY DEF StartOpen, exchangeVars, LiveInv, LiveShape
<1>2. Resting(s) => pending[s]
  BY DEF LiveInv, RestsUnderKey
<1>3. CASE Done(<<"open", s>>) \/ Failed(<<"open", s>>)
  BY <1>1, <1>2, <1>3, OpenEnds
<1>4. CASE /\ row = NoRow /\ position = 0
           /\ Running(<<"open", s>>, IF pending[s] THEN "query" ELSE "place")
  <2>1. /\ task' = [task EXCEPT ![<<"open", s>>] = "running"]
        /\ pc' = [at |-> IF pending[s] THEN "query" ELSE "place", of |-> s]
    BY <1>4 DEF Running, Proceed
  <2>2. LiveShape'
    BY <1>1, <2>1, OpenIsTask DEF LiveInv, LiveShape, TaskStatus, Stages
  <2>3. RestsUnderKey'
    BY <1>1, <2>1, OpenIsTask DEF LiveInv, LiveShape, RestsUnderKey, Resting
  <2>4. ReadyToPlace(s)' \/ pending[s]
    BY <1>1, <1>2, <1>4, PlanSize DEF ReadyToPlace, Resting, Size, Abs
  <2>5. AtStage'
    BY <1>1, <1>4, <2>1, <2>4, OpenIsTask DEF LiveInv, LiveShape, AtStage, At, OpenStages
  <2> QED
    BY <1>1, <2>2, <2>3, <2>5, BooksStay DEF LiveInv
<1> QED
  BY <1>3, <1>4 DEF StartOpen

LEMMA AtHandler ==
    ASSUME LiveInv, NEW s \in Signals, pc.of = s, pc.at \in OpenStages
    PROVE  task[<<"open", s>>] = "running"
BY DEF LiveInv, AtStage

LEMMA QueryStep ==
    ASSUME LiveInv, NEW s \in Signals, QueryEntry(s)
    PROVE  LiveInv'
<1>1. /\ At("query") /\ pc.of = s /\ pending[s] /\ row = NoRow
      /\ UNCHANGED <<row, order, position, price>>
  BY DEF QueryEntry, exchangeVars, LiveInv, AtStage
<1>2. CASE UNCHANGED pending /\ (Failed(<<"open", s>>) \/ Deferred(<<"open", s>>))
  BY <1>1, <1>2, OpenEnds DEF LiveInv, LiveShape
<1>3. CASE /\ ~Resting(s) /\ pending' = [pending EXCEPT ![s] = FALSE]
           /\ Proceed(IF order[s].is = "FILLED" THEN "fill" ELSE "place", s)
           /\ UNCHANGED queueVars
  <2>1. /\ pc' = [at |-> IF Filled(s) THEN "fill" ELSE "place", of |-> s]
        /\ UNCHANGED task
    BY <1>3 DEF Proceed, queueVars, Filled
  <2>2. LiveShape'
    BY <1>1, <1>3, <2>1 DEF LiveInv, LiveShape, Stages
  <2>3. RestsUnderKey'
    BY <1>1, <1>3, <2>1 DEF LiveInv, LiveShape, RestsUnderKey, Resting
  <2>4. task[<<"open", s>>] = "running"
    BY <1>1, AtHandler DEF At, OpenStages
  <2>5. ReadyToPlace(s)' \/ Filled(s)
    <3>1. SUFFICES ASSUME ~Filled(s) PROVE ReadyToPlace(s)
      BY <1>1 DEF ReadyToPlace, Resting, Filled, OtherFilled, Size
    <3>2. position = 0 \/ OtherFilled(s)
      BY <3>1 DEF LiveInv, Books, OtherFilled
    <3>3. ASSUME NEW r \in Signals \ {s}, \A q \in Signals \ {s} : Filled(q) => q = r
          PROVE  Size <= PlanOf[r].size
      BY <3>1, <3>3 DEF LiveInv, Books, OnlyFilled
    <3> QED
      BY <1>1, <1>3, <3>2, <3>3 DEF ReadyToPlace
  <2>6. AtStage'
    BY <1>1, <2>1, <2>4, <2>5 DEF AtStage, At, OpenStages, Filled
  <2> QED
    BY <1>1, <2>2, <2>3, <2>6, BooksStay DEF LiveInv
<1> QED
  BY <1>1, <1>2, <1>3 DEF QueryEntry

\* The order is a new one: what an earlier order of the signal bought is gone.
LEMMA PlaceStep ==
    ASSUME LiveInv, "place" \notin Faulty, NEW s \in Signals, PlaceEntry(s)
    PROVE  LiveInv'
<1>1. At("place") /\ pc.of = s /\ ReadyToPlace(s) /\ ~Fault
  BY DEF PlaceEntry, LiveInv, AtStage, At, Fault
<1>2. /\ ~Resting(s) /\ Placed(s)
      /\ pc' = [at |-> "record", of |-> s]
      /\ UNCHANGED <<task, pending, row, position, price>>
  BY <1>1 DEF PlaceEntry, ReadyToPlace, Proceed, queueVars
<1>3. PICK kind \in {"STOP", "LIMIT"} : order' = [order EXCEPT ![s] = [is |-> kind, at |-> 0]]
  BY <1>2 DEF Placed
<1>4. /\ \A r \in Signals \ {s} : order'[r] = order[r]
      /\ order'[s].is = kind
      /\ order' \in [Signals -> [is : OrderStatus, at : Int]]
  BY <1>3 DEF LiveInv, LiveShape, OrderStatus
<1>5. \A r \in Signals : Filled(r)' <=> r # s /\ Filled(r)
  BY <1>3, <1>4 DEF Filled
<1>6. LiveShape'
  BY <1>2, <1>4 DEF LiveInv, LiveShape, Stages
<1>7. task[<<"open", s>>] = "running"
  BY <1>1, AtHandler DEF At, OpenStages
<1>8. RestsUnderKey'
  BY <1>2, <1>4, <1>7 DEF LiveInv, RestsUnderKey, Resting
<1>9. AtStage'
  BY <1>2, <1>7 DEF AtStage, At, OpenStages
<1>10. Books'
  <2>1. position # 0 => \E r \in Signals : Filled(r)'
    BY <1>1, <1>5 DEF ReadyToPlace, OtherFilled
  <2>2. ASSUME NEW r \in Signals, OnlyFilled(r)'
        PROVE  Size <= PlanOf[r].size
    <3>1. CASE r = s
      <4>1. position = 0
        BY <1>1, <1>5, <2>2, <3>1 DEF ReadyToPlace, OtherFilled, OnlyFilled
      <4> QED
        BY <4>1, PlanSize DEF Size, Abs
    <3>2. CASE r # s
      BY <1>1, <1>5, <2>2, <3>2 DEF ReadyToPlace, OnlyFilled
    <3> QED
      BY <3>1, <3>2
  <2> QED
    BY <1>1, <1>2, <2>1, <2>2 DEF Books, ReadyToPlace, Size
<1> QED
  BY <1>6, <1>8, <1>9, <1>10 DEF LiveInv

LEMMA RecordStep ==
    ASSUME LiveInv, "record" \notin Faulty, NEW s \in Signals, RecordEntry(s)
    PROVE  LiveInv'
<1>1. At("record") /\ pc.of = s /\ ~Fault
  BY DEF RecordEntry, At, Fault
<1>2. /\ pending' = [pending EXCEPT ![s] = TRUE] /\ Deferred(<<"open", s>>)
      /\ UNCHANGED <<row, order, position, price>>
  BY <1>1 DEF RecordEntry, exchangeVars
<1>3. /\ pending' \in [Signals -> BOOLEAN] /\ pending'[s]
      /\ \A r \in Signals \ {s} : pending'[r] = pending[r]
  BY <1>2 DEF LiveInv, LiveShape
<1> QED
  BY <1>2, <1>3, OpenEnds

LEMMA FillStep ==
    ASSUME LiveInv, NEW s \in Signals, FillEntry(s)
    PROVE  LiveInv'
<1>1. /\ At("fill") /\ pc.of = s /\ Filled(s)
      /\ pc' = [at |-> "protect", of |-> s]
      /\ UNCHANGED <<task, pending, order, position, price>>
  BY DEF FillEntry, LiveInv, AtStage, At, Proceed, queueVars, exchangeVars
<1>2. ARow(row') /\ row'.size = PlanOf[s].size
  <2>1. PICK at : row' = [source |-> s, side |-> PlanOf[s].side, size |-> PlanOf[s].size,
                           price |-> at]
    BY DEF FillEntry
  <2> QED
    BY <2>1, PlanSize, IsARow
<1>3. LiveShape'
  BY <1>1, <1>2 DEF LiveInv, LiveShape, Stages
<1>4. RestsUnderKey'
  BY <1>1 DEF LiveInv, RestsUnderKey, Resting
<1>5. task[<<"open", s>>] = "running"
  BY <1>1, AtHandler DEF At, OpenStages
<1>6. AtStage'
  BY <1>1, <1>5 DEF AtStage, At, OpenStages, Filled
<1>7. \A r \in Signals : OnlyFilled(r) => r = s
  BY <1>1 DEF OnlyFilled
<1>8. Books'
  BY <1>1, <1>2, <1>7 DEF LiveInv, Books, OnlyFilled, Filled, Size
<1> QED
  BY <1>3, <1>4, <1>6, <1>8 DEF LiveInv

LEMMA ProtectStep ==
    ASSUME LiveInv, NEW s \in Signals, ProtectEntry(s)
    PROVE  LiveInv'
<1>1. /\ At("protect") /\ pc.of = s /\ Filled(s)
      /\ UNCHANGED <<row, order, position, price>>
      /\ pending' = [pending EXCEPT ![s] = FALSE] \/ UNCHANGED pending
      /\ Done(<<"open", s>>) \/ Failed(<<"open", s>>)
  BY DEF ProtectEntry, LiveInv, AtStage, At
<1>2. ~Resting(s)
  BY <1>1 DEF Filled, Resting
<1>3. /\ pending' \in [Signals -> BOOLEAN]
      /\ \A r \in Signals \ {s} : pending'[r] = pending[r]
  BY <1>1 DEF LiveInv, LiveShape
<1> QED
  BY <1>1, <1>2, <1>3, OpenEnds

-----------------------------------------------------------------------------
(* CLOSE_FOR_SIGNAL                                                        *)

LEMMA StartCloseStep ==
    ASSUME LiveInv, NEW s \in Signals, StartClose(s)
    PROVE  LiveInv'
<1>1. UNCHANGED <<pending, row, order, position, price>>
  BY DEF StartClose, exchangeVars
<1>2. CASE Done(<<"close", s>>)
  BY <1>1, <1>2, CloseEnds
<1>3. CASE CloseStage(s) # "done" /\ Running(<<"close", s>>, CloseStage(s))
  <2>1. /\ task' = [task EXCEPT ![<<"close", s>>] = "running"]
        /\ pc' = [at |-> CloseStage(s), of |-> s]
    BY <1>3 DEF Running, Proceed
  <2>2. /\ CloseStage(s) \in {"cancelExits", "cancelPending", "cancelAll"}
        /\ CloseStage(s) # "cancelPending" => row # NoRow
    BY <1>3, PlanSize DEF CloseStage, NoRow
  <2>3. LiveShape'
    BY <1>1, <2>1, <2>2 DEF LiveInv, LiveShape, TaskStatus, Stages
  <2>4. RestsUnderKey'
    BY <1>1, <2>1, OpenIsTask DEF LiveInv, LiveShape, RestsUnderKey, Resting
  <2>5. AtStage'
    BY <1>1, <2>1, <2>2 DEF AtStage, At, OpenStages
  <2> QED
    BY <1>1, <2>3, <2>4, <2>5, BooksStay DEF LiveInv
<1> QED
  BY <1>2, <1>3 DEF StartClose

\* An order is cancelled, or some are: none is filled or comes to rest by it.
LEMMA Cancelled ==
    ASSUME LiveInv, UNCHANGED <<position, row>>,
           order' \in [Signals -> [is : OrderStatus, at : Int]],
           \A s \in Signals : \/ order'[s] = order[s]
                              \/ order[s].is # "FILLED" /\ order'[s].is = "CANCELED"
    PROVE  /\ Books' /\ \A s \in Signals : (Filled(s)' <=> Filled(s)) /\ (Resting(s)' => Resting(s))
           /\ \A s \in Signals : OtherFilled(s)' <=> OtherFilled(s)
<1>1. \A s \in Signals : (Filled(s)' <=> Filled(s)) /\ (Resting(s)' => Resting(s))
  BY DEF Filled, Resting
<1>2. Books'
  BY <1>1 DEF LiveInv, Books, OnlyFilled, Size
<1> QED
  BY <1>1, <1>2 DEF OtherFilled

LEMMA CancelPendingStep ==
    ASSUME LiveInv, NEW s \in Signals, CancelPending(s)
    PROVE  LiveInv'
<1>1. UNCHANGED <<row, position, price>> /\ (Done(<<"close", s>>) \/ Failed(<<"close", s>>))
  BY DEF CancelPending
<1>2. CASE UNCHANGED <<order, pending>>
  BY <1>1, <1>2, CloseEnds
<1>3. CASE /\ Resting(s) /\ order' = [order EXCEPT ![s] = [is |-> "CANCELED", at |-> 0]]
           /\ pending' = [pending EXCEPT ![s] = FALSE] \/ UNCHANGED pending
  <2>1. /\ order' \in [Signals -> [is : OrderStatus, at : Int]]
        /\ pending' \in [Signals -> BOOLEAN]
        /\ order'[s].is = "CANCELED" /\ order[s].is # "FILLED"
        /\ \A r \in Signals \ {s} : order'[r] = order[r] /\ pending'[r] = pending[r]
    <3>1. order \in [Signals -> [is : OrderStatus, at : Int]] /\ pending \in [Signals -> BOOLEAN]
      BY DEF LiveInv, LiveShape
    <3>2. order[s].is # "FILLED"
      BY <1>3 DEF Resting
    <3>3. [is |-> "CANCELED", at |-> 0] \in [is : OrderStatus, at : Int]
      BY DEF OrderStatus
    <3>4. /\ pending' \in [Signals -> BOOLEAN]
          /\ \A r \in Signals \ {s} : pending'[r] = pending[r]
      BY <1>3, <3>1
    <3> QED
      BY <1>3, <3>1, <3>2, <3>3, <3>4
  <2>2. /\ task' \in [Tasks -> TaskStatus] /\ GoTo("queue")
        /\ \A u \in Tasks \ {<<"close", s>>} : task'[u] = task[u]
    BY <1>1, TaskMoves, OpenIsTask DEF LiveInv
  <2>3. pc' = [at |-> "queue", of |-> 0]
    BY <2>2 DEF GoTo
  <2>4. LiveShape'
    BY <1>1, <2>1, <2>2, <2>3 DEF LiveInv, LiveShape, Stages, LoopStages
  <2>5. ~Resting(s)' /\ \A r \in Signals \ {s} : Resting(r)' = Resting(r)
    BY <2>1 DEF Resting
  <2>6. RestsUnderKey'
    BY <2>1, <2>2, <2>5, OpenIsTask DEF LiveInv, RestsUnderKey
  <2>7. AtStage'
    BY <2>3 DEF AtStage, At, OpenStages
  <2> QED
    BY <1>1, <2>1, <2>4, <2>6, <2>7, Cancelled DEF LiveInv
<1> QED
  BY <1>2, <1>3 DEF CancelPending

LEMMA CancelExitsStep ==
    ASSUME LiveInv, NEW s \in Signals, CancelExits(s)
    PROVE  LiveInv'
<1>1. /\ At("cancelExits") /\ row # NoRow
      /\ pc' = [at |-> "closeMarket", of |-> s]
      /\ UNCHANGED <<task, pending, row, order, position, price>>
  BY DEF CancelExits, Proceed, dbVars, queueVars, LiveInv, AtStage, At
<1>2. LiveShape' /\ RestsUnderKey'
  BY <1>1 DEF LiveInv, LiveShape, Stages, RestsUnderKey, Resting
<1>3. AtStage'
  BY <1>1 DEF AtStage, At, OpenStages
<1> QED
  BY <1>1, <1>2, <1>3, BooksStay DEF LiveInv

LEMMA CancelAllStep ==
    ASSUME LiveInv, NEW s \in Signals, CancelAll(s)
    PROVE  LiveInv'
<1>1. /\ At("cancelAll") /\ row # NoRow
      /\ pc' = [at |-> "closeAll", of |-> s]
      /\ UNCHANGED <<task, pending, row, position, price>>
  BY DEF CancelAll, Proceed, dbVars, queueVars, LiveInv, AtStage, At
<1>2. /\ order' \in [Signals -> [is : OrderStatus, at : Int]]
      /\ \A r \in Signals : \/ order'[r] = order[r]
                            \/ order[r].is # "FILLED" /\ order'[r].is = "CANCELED"
  <2>1. CASE UNCHANGED order
    BY <2>1 DEF LiveInv, LiveShape
  <2>2. CASE order' = [r \in Signals |-> IF Resting(r) THEN [is |-> "CANCELED", at |-> 0]
                                         ELSE order[r]]
    BY <2>2 DEF LiveInv, LiveShape, OrderStatus, Resting
  <2> QED
    BY <2>1, <2>2 DEF CancelAll
<1>3. Books' /\ \A r \in Signals : Resting(r)' => Resting(r)
  BY <1>1, <1>2, Cancelled
<1>4. LiveShape'
  BY <1>1, <1>2 DEF LiveInv, LiveShape, Stages
<1>5. RestsUnderKey'
  BY <1>1, <1>3 DEF LiveInv, RestsUnderKey
<1>6. AtStage'
  BY <1>1 DEF AtStage, At, OpenStages
<1> QED
  BY <1>3, <1>4, <1>5, <1>6 DEF LiveInv

\* Selling n of what there is leaves that much less.
LEMMA Reduced ==
    ASSUME LiveShape, NEW n \in Nat, n <= Size, ReduceBy(n)
    PROVE  position' \in Int /\ Size' = Size - n
BY DEF ReduceBy, LiveShape, Size, Abs, Signed, PositionSide

\* A smaller position is still covered.
LEMMA BooksShrink ==
    ASSUME LiveInv, UNCHANGED <<order, row>>, position' \in Int, Size' <= Size
    PROVE  Books'
<1>1. Size \in Nat /\ Size' \in Nat
  BY SizeIsNat, SizeWillBeNat DEF LiveInv
<1>2. position' # 0 => position # 0
  BY <1>1, SizeIsNat, SizeWillBeNat DEF LiveInv
<1>3. \A s \in Signals : /\ OnlyFilled(s)' <=> OnlyFilled(s)
                         /\ Filled(s)' <=> Filled(s)
  BY DEF OnlyFilled, Filled
<1>4. row # NoRow => row.size \in Nat
  BY RowIsNot DEF LiveInv, LiveShape
<1> QED
  BY <1>1, <1>2, <1>3, <1>4, PlanSize DEF LiveInv, Books

\* The position was sold, and the handler goes on to the row or fails.
LEMMA SoldStep ==
    ASSUME LiveInv, NEW s \in Signals, UNCHANGED <<order, row, pending, price>>,
           row # NoRow, position' \in Int, Size' <= Size,
           \/ /\ pc' = [at |-> "closeRow", of |-> s] /\ UNCHANGED task
              /\ position' = 0 \/ OtherFilled(s)
           \/ Failed(<<"close", s>>)
    PROVE  LiveInv'
<1>1. Books'
  BY BooksShrink
<1>2. CASE /\ pc' = [at |-> "closeRow", of |-> s] /\ UNCHANGED task
           /\ position' = 0 \/ OtherFilled(s)
  <2>1. LiveShape' /\ RestsUnderKey'
    BY <1>2 DEF LiveInv, LiveShape, Stages, RestsUnderKey, Resting
  <2>2. AtStage'
    BY <1>2 DEF AtStage, At, OpenStages, OtherFilled, Filled
  <2> QED
    BY <1>1, <2>1, <2>2 DEF LiveInv
<1>3. CASE Failed(<<"close", s>>)
  <2>1. /\ task' \in [Tasks -> TaskStatus] /\ GoTo("queue")
        /\ \A u \in Tasks \ {<<"close", s>>} : task'[u] = task[u]
    BY <1>3, TaskMoves, OpenIsTask DEF LiveInv
  <2>2. pc' = [at |-> "queue", of |-> 0]
    BY <2>1 DEF GoTo
  <2>3. LiveShape'
    BY <2>1, <2>2 DEF LiveInv, LiveShape, Stages, LoopStages
  <2>4. RestsUnderKey'
    BY <2>1, OpenIsTask DEF LiveInv, RestsUnderKey, Resting
  <2>5. AtStage'
    BY <2>2 DEF AtStage, At, OpenStages
  <2> QED
    BY <1>1, <2>3, <2>4, <2>5 DEF LiveInv
<1> QED
  BY <1>2, <1>3

\* What one signal left in the market is no more than its row holds; more than
\* that came from another's order.
LEMMA CloseMarketStep ==
    ASSUME LiveInv, NEW s \in Signals, CloseMarket(s)
    PROVE  LiveInv'
<1>1. /\ row # NoRow /\ UNCHANGED <<order, row, pending, price>>
  BY DEF CloseMarket, LiveInv, AtStage, At
<1>2. row.size \in Nat /\ Size \in Nat /\ position \in Int
  BY <1>1, RowIsNot, SizeIsNat DEF LiveInv, LiveShape
<1>3. row.size >= Size \/ OtherFilled(s)
  BY <1>1, <1>2 DEF LiveInv, Books, OnlyFilled, OtherFilled
<1>4. \/ UNCHANGED position /\ position = 0
      \/ UNCHANGED position /\ Failed(<<"close", s>>)
      \/ ReduceBy(IF row.size < Size THEN row.size ELSE Size)
  BY DEF CloseMarket
<1>5. /\ position' \in Int /\ Size' <= Size
      /\ position' = 0 \/ OtherFilled(s) \/ Failed(<<"close", s>>)
  <2>1. CASE UNCHANGED position /\ (position = 0 \/ Failed(<<"close", s>>))
    BY <1>2, <2>1 DEF Size
  <2>2. CASE ReduceBy(IF row.size < Size THEN row.size ELSE Size)
    <3> DEFINE n == IF row.size < Size THEN row.size ELSE Size
    <3>1. n \in Nat /\ n <= Size /\ (n = Size \/ OtherFilled(s))
      BY <1>2, <1>3
    <3> HIDE DEF n
    <3>2. position' \in Int /\ Size' = Size - n
      BY <2>2, <3>1, Reduced DEF LiveInv, n
    <3>3. Size' = 0 => position' = 0
      BY <3>2, SizeWillBeNat
    <3> QED
      BY <1>2, <3>1, <3>2, <3>3
  <2> QED
    BY <1>4, <2>1, <2>2
<1>6. \/ pc' = [at |-> "closeRow", of |-> s] /\ UNCHANGED task
      \/ Failed(<<"close", s>>)
  BY DEF CloseMarket, Proceed, queueVars
<1> QED
  BY <1>1, <1>5, <1>6, SoldStep

LEMMA CloseAllStep ==
    ASSUME LiveInv, NEW s \in Signals, CloseAll(s)
    PROVE  LiveInv'
<1>1. /\ row # NoRow /\ UNCHANGED <<order, row, pending, price>>
  BY DEF CloseAll, LiveInv, AtStage, At
<1>2. Size \in Nat /\ position \in Int
  BY SizeIsNat DEF LiveInv, LiveShape
<1>3. \/ UNCHANGED position /\ position = 0
      \/ UNCHANGED position /\ Failed(<<"close", s>>)
      \/ ReduceBy(Size)
  BY DEF CloseAll
<1>4. /\ position' \in Int /\ Size' <= Size
      /\ position' = 0 \/ Failed(<<"close", s>>)
  <2>1. CASE UNCHANGED position /\ (position = 0 \/ Failed(<<"close", s>>))
    BY <1>2, <2>1 DEF Size
  <2>2. CASE ReduceBy(Size)
    <3>1. PICK n \in Nat : n = Size
      BY <1>2
    <3>2. position' \in Int /\ Size' = 0
      BY <2>2, <3>1, Reduced DEF LiveInv
    <3> QED
      BY <1>2, <3>2, SizeWillBeNat
  <2> QED
    BY <1>3, <2>1, <2>2
<1>5. \/ pc' = [at |-> "closeRow", of |-> s] /\ UNCHANGED task
      \/ Failed(<<"close", s>>)
  BY DEF CloseAll, Proceed, queueVars
<1> QED
  BY <1>1, <1>4, <1>5, SoldStep

LEMMA CloseRowStep ==
    ASSUME LiveInv, NEW s \in Signals, CloseRow(s)
    PROVE  LiveInv'
<1>1. UNCHANGED <<pending, order, position, price>>
  BY DEF CloseRow, exchangeVars
<1>2. CASE UNCHANGED row /\ Failed(<<"close", s>>)
  BY <1>1, <1>2, CloseEnds
<1>3. CASE row' = NoRow /\ Done(<<"close", s>>)
  <2>1. /\ task' \in [Tasks -> TaskStatus] /\ GoTo("queue")
        /\ \A u \in Tasks \ {<<"close", s>>} : task'[u] = task[u]
    BY <1>3, TaskMoves, OpenIsTask DEF LiveInv
  <2>2. pc' = [at |-> "queue", of |-> 0]
    BY <2>1 DEF GoTo
  <2>3. LiveShape'
    BY <1>1, <1>3, <2>1, <2>2 DEF LiveInv, LiveShape, Stages, LoopStages
  <2>4. RestsUnderKey'
    BY <1>1, <2>1, OpenIsTask DEF LiveInv, RestsUnderKey, Resting
  <2>5. AtStage'
    BY <2>2 DEF AtStage, At, OpenStages
  <2>6. Books'
    BY <1>1, <1>3 DEF LiveInv, Books, OnlyFilled, Filled, Size
  <2> QED
    BY <2>3, <2>4, <2>5, <2>6 DEF LiveInv
<1> QED
  BY <1>2, <1>3 DEF CloseRow

-----------------------------------------------------------------------------
(* The cycle                                                               *)

\* Whatever the loop writes to the queue, what runs goes on running.
LEMMA LoopWrites ==
    ASSUME LiveInv, UNCHANGED <<order, position, row, price, pending>>,
           (\E tasks : Enqueued(tasks)) \/ UNCHANGED task,
           pc' \in [at : LoopStages, of : Signals \cup {0}]
    PROVE  LiveInv'
<1>1. /\ task' \in [Tasks -> TaskStatus]
      /\ \A t \in Tasks : task[t] = "running" => task'[t] = "running"
  BY EnqueuedKeepsRunning DEF LiveInv, LiveShape
<1>2. \A s \in Signals : Resting(s) /\ ~pending'[s] => task'[<<"open", s>>] = "running"
  BY <1>1, OpenIsTask DEF LiveInv, RestsUnderKey
<1> QED
  BY <1>1, <1>2, LoopStep DEF LiveInv, LiveShape

LEMMA RefreshStep ==
    ASSUME LiveInv, Refresh
    PROVE  LiveInv'
<1>1. GoTo("signals") \/ GoTo("tick")
  BY DEF Refresh
<1>2. (\E tasks : Enqueued(tasks)) \/ UNCHANGED task
  BY DEF Refresh, queueVars
<1>3. UNCHANGED <<order, position, row, price, pending>>
  BY DEF Refresh, exchangeVars
<1> QED
  BY <1>1, <1>2, <1>3, GoToLoop, LoopWrites DEF LoopStages

LEMMA EnqueueCloseStep ==
    ASSUME LiveInv, EnqueueClose
    PROVE  LiveInv'
<1>1. UNCHANGED pc /\ pc \in [at : LoopStages, of : Signals \cup {0}]
  BY DEF EnqueueClose, At, LiveInv, LiveShape, LoopStages
<1>2. (\E tasks : Enqueued(tasks)) \/ UNCHANGED task
  BY DEF EnqueueClose, queueVars
<1>3. UNCHANGED <<order, position, row, price, pending>>
  BY DEF EnqueueClose, exchangeVars
<1> QED
  BY <1>1, <1>2, <1>3, LoopWrites

LEMMA QuietStep ==
    ASSUME LiveInv,
           QueueEnds \/ Tick \/ EventsEnd \/ ReconcileSignals \/ CycleFails \/ Crash
    PROVE  LiveInv'
<1>1. \E stage \in LoopStages : GoTo(stage)
  BY DEF QueueEnds, Tick, EventsEnd, ReconcileSignals, CycleFails, Crash, LoopStages
<1>2. UNCHANGED <<task, order, position, row, price, pending>>
  BY DEF QueueEnds, Tick, EventsEnd, ReconcileSignals, CycleFails, Crash, dbVars, queueVars,
     exchangeVars
<1> QED
  BY <1>1, <1>2, GoToLoop, LoopWrites

\* Another row: of a flat symbol none, of a position found without one all of it.
LEMMA RowStep ==
    ASSUME LiveInv, UNCHANGED <<order, position, price, pending, task>>,
           NEW stage \in LoopStages, GoTo(stage),
           row' = NoRow \/ ARow(row'),
           row' # NoRow => \/ row # NoRow /\ row'.size = row.size
                           \/ position # 0 /\ row'.size = Size
    PROVE  LiveInv'
<1>1. pc' = [at |-> stage, of |-> 0] /\ stage \in Stages
  BY DEF GoTo, LoopStages, Stages
<1>2. LiveShape' /\ RestsUnderKey'
  BY <1>1 DEF LiveInv, LiveShape, RestsUnderKey, Resting
<1>3. AtStage'
  BY <1>1 DEF AtStage, At, LoopStages, OpenStages
<1>4. Books'
  <2>1. Size' = Size /\ Size \in Nat
    BY SizeIsNat DEF LiveInv, Size
  <2>2. \A s \in Signals : /\ OnlyFilled(s)' <=> OnlyFilled(s)
                           /\ Filled(s)' <=> Filled(s)
    BY DEF OnlyFilled, Filled
  <2> QED
    BY <2>1, <2>2 DEF LiveInv, Books
<1> QED
  BY <1>2, <1>3, <1>4 DEF LiveInv

LEMMA ReconcileStep ==
    ASSUME LiveInv, Reconcile
    PROVE  LiveInv'
<1>1. /\ UNCHANGED <<order, position, price, pending, task>>
      /\ row' = row \/ row' = ReconciledRow
  BY DEF Reconcile, queueVars
<1>2. PICK stage \in LoopStages : GoTo(stage)
  BY DEF Reconcile, LoopStages
<1>3. row = NoRow \/ ARow(row)
  BY DEF LiveInv, LiveShape
<1>4. CASE position # 0 /\ row = NoRow /\ row' = ReconciledRow
  <2>1. row' = [source |-> 0, side |-> PositionSide, size |-> Size, price |-> entryPrice]
    BY <1>4 DEF ReconciledRow
  <2>2. PositionSide \in Sides /\ Size \in Nat
    BY <1>4, SizeIsNat DEF LiveInv, LiveShape, PositionSide, Sides
  <2>3. ARow(row') /\ row'.size = Size
    BY <2>1, <2>2, IsARow
  <2> QED
    BY <1>2, <1>1, <1>4, <2>3, RowStep
<1>5. CASE ~(position # 0 /\ row = NoRow /\ row' = ReconciledRow)
  <2>1. row' = row \/ row' = NoRow
    BY <1>1, <1>5 DEF ReconciledRow
  <2> QED
    BY <1>2, <1>1, <1>3, <2>1, RowStep
<1> QED
  BY <1>4, <1>5

\* Linking a row to its signal leaves its side and its size.
LEMMA LinkedRow ==
    LiveInv => IF row = NoRow THEN Linked = NoRow ELSE ARow(Linked) /\ Linked.size = row.size
<1> SUFFICES ASSUME LiveInv
             PROVE  IF row = NoRow THEN Linked = NoRow ELSE ARow(Linked) /\ Linked.size = row.size
  OBVIOUS
<1>1. CASE row = NoRow
  <2>1. \A s \in Signals : PlanOf[s].side # row.side
    BY <1>1, PlanSize DEF NoRow, Sides
  <2> QED
    BY <1>1, <2>1 DEF Linked
<1>2. CASE row # NoRow
  <2>1. ARow(row)
    BY <1>2 DEF LiveInv, LiveShape
  <2>2. \A m : ARow([row EXCEPT !.source = m]) /\ [row EXCEPT !.source = m].size = row.size
    BY <2>1 DEF ARow
  <2> QED
    BY <1>2, <2>1, <2>2 DEF Linked
<1> QED
  BY <1>1, <1>2

LEMMA EnsureStep ==
    ASSUME LiveInv, Ensure
    PROVE  LiveInv'
<1>1. /\ UNCHANGED <<order, position, price, pending, task>>
      /\ GoTo("signals") /\ row' = Linked
  BY DEF Ensure, queueVars
<1> QED
  <2>1. row' = NoRow \/ ARow(row')
    BY <1>1, LinkedRow
  <2>2. row' # NoRow => row # NoRow /\ row'.size = row.size
    BY <1>1, LinkedRow
  <2>3. "signals" \in LoopStages
    BY DEF LoopStages
  <2> QED
    BY <1>1, <2>1, <2>2, <2>3, RowStep

-----------------------------------------------------------------------------
(* The exchange                                                            *)

LEMMA PriceStep ==
    ASSUME LiveInv, PriceMoves
    PROVE  LiveInv'
<1>1. price' \in Int /\ UNCHANGED <<task, pending, row, order, position, pc>>
  BY LiveAssumption DEF LiveAssumption, PriceMoves, dbVars, queueVars, loopVars
<1>2. LiveShape' /\ RestsUnderKey'
  BY <1>1 DEF LiveInv, LiveShape, RestsUnderKey, Resting
<1>3. AtStage'
  BY <1>1 DEF LiveInv, AtStage, At, ReadyToPlace, OtherFilled, Filled, Resting, Size
<1> QED
  BY <1>1, <1>2, <1>3, BooksStay DEF LiveInv

LEMMA ExitStep ==
    ASSUME LiveInv, ExitFills
    PROVE  LiveInv'
<1>1. UNCHANGED <<task, pending, row, order, pc, price>>
  BY DEF ExitFills, dbVars, queueVars, loopVars
<1>2. Size \in Nat
  BY SizeIsNat DEF LiveInv
<1>3. PICK n \in 1..Size : ReduceBy(n)
  BY DEF ExitFills
<1>4. position' \in Int /\ Size' = Size - n
  BY <1>2, <1>3, Reduced DEF LiveInv
<1>5. position # 0 /\ Size' <= Size /\ Size' \in Nat
  BY <1>2, <1>4, SizeIsNat, SizeWillBeNat DEF LiveInv
<1>6. LiveShape' /\ RestsUnderKey'
  BY <1>1, <1>4 DEF LiveInv, LiveShape, RestsUnderKey, Resting
<1>7. \A s \in Signals : /\ Filled(s)' <=> Filled(s)
                         /\ OtherFilled(s)' <=> OtherFilled(s)
                         /\ Resting(s)' <=> Resting(s)
  BY <1>1 DEF Filled, OtherFilled, Resting
<1>8. \A s \in Signals : ReadyToPlace(s) => ReadyToPlace(s)'
  BY <1>1, <1>2, <1>5, <1>7, PlanSize DEF ReadyToPlace
<1>9. pc.at \notin LoopStages => pc.of \in Signals
  BY DEF LiveInv, LiveShape
<1>10. AtStage'
  BY <1>1, <1>5, <1>7, <1>8, <1>9 DEF LiveInv, AtStage, At, LoopStages, OpenStages
<1> QED
  BY <1>1, <1>4, <1>5, <1>6, <1>10, BooksShrink DEF LiveInv

\* Where a single order has filled, nothing was there before it.
LEMMA EntryStep ==
    ASSUME LiveInv, NEW x \in Signals, OrderFills(x)
    PROVE  LiveInv'
<1>1. /\ UNCHANGED <<task, pending, row, pc, price>>
      /\ position' = position + Signed(PlanOf[x].side, PlanOf[x].size)
      /\ order' = [order EXCEPT ![x] =
             [is |-> "FILLED", at |-> IF order[x].is = "LIMIT" THEN PlanOf[x].entry ELSE price]]
      /\ Resting(x)
  BY DEF OrderFills, CanFill, Resting, dbVars, queueVars, loopVars
<1>2. /\ position \in Int /\ price \in Int /\ order \in [Signals -> [is : OrderStatus, at : Int]]
      /\ pc.at \notin LoopStages => pc.of \in Signals
  BY DEF LiveInv, LiveShape
<1>3. position' \in Int /\ order' \in [Signals -> [is : OrderStatus, at : Int]]
  BY <1>1, <1>2, PlanSize DEF Signed, OrderStatus
<1>4. /\ ~Filled(x) /\ Filled(x)' /\ ~Resting(x)'
      /\ \A s \in Signals \ {x} : (Filled(s)' <=> Filled(s)) /\ (Resting(s)' <=> Resting(s))
  BY <1>1, <1>2 DEF Filled, Resting
<1>5. position = 0 => Size' = PlanOf[x].size
  BY <1>1, PlanSize DEF Size, Abs, Signed
<1>6. LiveShape'
  BY <1>1, <1>2, <1>3 DEF LiveInv, LiveShape
<1>7. RestsUnderKey'
  BY <1>1, <1>4 DEF LiveInv, RestsUnderKey
<1>8. Books'
  <2>1. ASSUME NEW s \in Signals, OnlyFilled(s)'
        PROVE  s = x /\ position = 0 /\ row = NoRow
    <3>1. s = x
      BY <1>4, <2>1 DEF OnlyFilled
    <3>2. \A r \in Signals : ~Filled(r)
      BY <1>4, <2>1, <3>1 DEF OnlyFilled
    <3> QED
      BY <3>1, <3>2 DEF LiveInv, Books
  <2>2. \A s \in Signals : OnlyFilled(s)' => Size' <= PlanOf[s].size
    BY <1>5, <2>1, PlanSize
  <2> QED
    BY <1>1, <1>4, <2>1, <2>2 DEF Books
<1>9. ASSUME NEW s \in Signals, ReadyToPlace(s)
      PROVE  ReadyToPlace(s)'
  <2>1. x # s
    BY <1>1, <1>9 DEF ReadyToPlace
  <2>2. OtherFilled(s)' /\ ~Resting(s)'
    BY <1>4, <1>9, <2>1 DEF OtherFilled, ReadyToPlace
  <2>3. ASSUME NEW r \in Signals \ {s}, \A q \in Signals \ {s} : Filled(q)' => q = r
        PROVE  Size' <= PlanOf[r].size
    <3>1. r = x
      BY <1>4, <2>1, <2>3
    <3>2. ~OtherFilled(s)
      BY <1>4, <2>3, <3>1 DEF OtherFilled
    <3> QED
      BY <1>5, <1>9, <3>1, <3>2, PlanSize DEF ReadyToPlace
  <2> QED
    BY <1>1, <1>9, <2>2, <2>3 DEF ReadyToPlace
<1>10. At("closeRow") => OtherFilled(pc.of)'
  <2> SUFFICES ASSUME At("closeRow") PROVE OtherFilled(pc.of)'
    OBVIOUS
  <2>1. \E r \in Signals : Filled(r)
    BY DEF LiveInv, AtStage, At, Books
  <2> QED
    BY <1>1, <1>4, <2>1 DEF OtherFilled
<1>11. AtStage'
  BY <1>1, <1>2, <1>4, <1>9, <1>10 DEF LiveInv, AtStage, At, LoopStages, OpenStages
<1> QED
  BY <1>6, <1>7, <1>8, <1>11 DEF LiveInv

-----------------------------------------------------------------------------
LEMMA HandlerKeeps ==
    ASSUME LiveInv, "place" \notin Faulty, "record" \notin Faulty,
           NEW s \in Signals, HandlerStep(s)
    PROVE  LiveInv'
BY QueryStep, PlaceStep, RecordStep, FillStep, ProtectStep, CancelPendingStep,
   CancelExitsStep, CloseMarketStep, CancelAllStep, CloseAllStep, CloseRowStep
   DEF HandlerStep

LEMMA TaskKeeps ==
    ASSUME LiveInv, NEW t \in Tasks, StartTask(t)
    PROVE  LiveInv'
<1>1. PICK s \in Signals : t = <<"open", s>> \/ t = <<"close", s>>
  BY DEF Tasks
<1>2. task[t] = "waiting" /\ IF t[1] = "open" THEN StartOpen(t[2]) ELSE StartClose(t[2])
  BY DEF StartTask
<1> QED
  BY <1>1, <1>2, StartOpenStep, StartCloseStep

LEMMA LiveStep ==
    ASSUME LiveInv, "place" \notin Faulty, "record" \notin Faulty, [LiveNext]_liveVars
    PROVE  LiveInv'
<1>1. CASE UNCHANGED liveVars
  <2>1. UNCHANGED <<task, pending, row, order, position, price, pc>>
    BY <1>1 DEF liveVars, dbVars, queueVars, exchangeVars, loopVars
  <2>2. LiveShape' /\ RestsUnderKey'
    BY <2>1 DEF LiveInv, LiveShape, RestsUnderKey, Resting
  <2>3. AtStage'
    BY <2>1 DEF LiveInv, AtStage, At, ReadyToPlace, OtherFilled, Filled, Resting, Size
  <2> QED
    BY <2>1, <2>2, <2>3, BooksStay DEF LiveInv
<1>2. CASE CycleStep
  BY <1>2, RefreshStep, EnqueueCloseStep, QuietStep, ReconcileStep, EnsureStep DEF CycleStep
<1>3. CASE ExchangeStep
  BY <1>3, PriceStep, ExitStep, EntryStep DEF ExchangeStep
<1> QED
  BY <1>1, <1>2, <1>3, HandlerKeeps, TaskKeeps, QuietStep DEF LiveNext

\* Three steps write a row or its source; one that closes it finds the exchange
\* flat, or another signal's entry there.
LEMMA RowEndsFlat ==
    ASSUME LiveInv, LiveNext, row # NoRow, row' = NoRow
    PROVE  position = 0 \/ OtherFilled(pc.of)
<1>1. ASSUME NEW s \in Signals, CloseRow(s)
      PROVE  position = 0 \/ OtherFilled(pc.of)
  BY <1>1 DEF CloseRow, LiveInv, AtStage
<1>2. ASSUME NEW s \in Signals, FillEntry(s)
      PROVE  FALSE
  <2>1. ARow(row')
    BY <1>2, PlanSize, IsARow DEF FillEntry
  <2> QED
    BY <2>1, RowIsNot
<1>3. ASSUME Reconcile
      PROVE  position = 0
  BY <1>3 DEF Reconcile, ReconciledRow, NoRow
<1>4. ASSUME Ensure
      PROVE  FALSE
  BY <1>4, LinkedRow, RowIsNot DEF Ensure
<1>5. ASSUME NEW s \in Signals, HandlerStep(s), row' # row
      PROVE  CloseRow(s) \/ FillEntry(s)
  BY <1>5 DEF HandlerStep, QueryEntry, PlaceEntry, RecordEntry, ProtectEntry, CancelPending,
     CancelExits, CancelAll, CloseMarket, CloseAll, dbVars
<1>6. ASSUME CycleStep, row' # row
      PROVE  Reconcile \/ Ensure
  BY <1>6 DEF CycleStep, QueueEnds, Refresh, Tick, EnqueueClose, EventsEnd, ReconcileSignals,
     CycleFails, dbVars
<1>7. ASSUME ExchangeStep \/ Crash \/ \E t \in Tasks : StartTask(t)
      PROVE  row' = row
  BY <1>7 DEF ExchangeStep, PriceMoves, OrderFills, ExitFills, Crash, StartTask, StartOpen,
     StartClose, dbVars
<1> QED
  BY <1>1, <1>2, <1>3, <1>4, <1>5, <1>6, <1>7 DEF LiveNext

\* A row is closed only while the exchange is flat, or holds what the entry of
\* another signal has bought since, whatever else fails and wherever the process
\* dies (close_for_signal, reconcile_symbol).
THEOREM BooksKeepPosition ==
    ASSUME "place" \notin Faulty, "record" \notin Faulty
    PROVE  LiveSpec => RowOutlivesPosition
<1>1. ASSUME LiveInv, [LiveNext]_liveVars
      PROVE  [row # NoRow /\ row' = NoRow =>
                 position = 0 \/ \E s \in Signals \ {pc.of} : order[s].is = "FILLED"]_liveVars
  BY <1>1, RowEndsFlat DEF OtherFilled, Filled
<1>2. LiveInv /\ [LiveNext]_liveVars => LiveInv'
  BY LiveStep
<1> QED
  BY <1>1, <1>2, LiveInitOK, PTL DEF LiveSpec, RowOutlivesPosition

-----------------------------------------------------------------------------
(* No signal is in the market twice: on each side there is no more than    *)
(* the sizes of the entries that have filled and were not placed again.    *)

Sizes == [s \in Signals |-> PlanOf[s].size]

FilledOf(side) == {s \in Signals : PlanOf[s].side = side /\ Filled(s)}

Amount(side) == IF side = "LONG" THEN position ELSE -position

EntriesCover ==
    \A side \in Sides : Amount(side) <= SumFunctionOnSet(Sizes, FilledOf(side))

\* The entry about to be placed (again) has left nothing in the market.
OthersCover ==
    At("place") =>
        \A side \in Sides : Amount(side) <= SumFunctionOnSet(Sizes, FilledOf(side) \ {pc.of})

MarketInv == LiveInv /\ EntriesCover /\ OthersCover

LEMMA SumOfSizes ==
    ASSUME NEW S \in SUBSET Signals
    PROVE  /\ IsFiniteSet(S)
           /\ SumFunctionOnSet(Sizes, S) \in Nat
           /\ \A R \in SUBSET S : SumFunctionOnSet(Sizes, R) <= SumFunctionOnSet(Sizes, S)
           /\ \A s \in Signals \ S :
                 SumFunctionOnSet(Sizes, S \cup {s}) = PlanOf[s].size + SumFunctionOnSet(Sizes, S)
<1>1. IsFiniteSet(S)
  BY LiveAssumption, FS_Subset DEF LiveAssumption
<1>2. \A s \in Signals : Sizes[s] = PlanOf[s].size /\ Sizes[s] \in Nat
  BY PlanSize DEF Sizes
<1>3. \A s \in S : Sizes[s] \in Nat
  BY <1>2
<1>4. \A R \in SUBSET S : /\ SumFunctionOnSet(Sizes, R) \in Nat
                          /\ SumFunctionOnSet(Sizes, R) <= SumFunctionOnSet(Sizes, S)
  BY <1>1, <1>3, SumSubset
<1>5. ASSUME NEW s \in Signals \ S
      PROVE  SumFunctionOnSet(Sizes, S \cup {s}) = Sizes[s] + SumFunctionOnSet(Sizes, S)
  <2>1. s \notin S /\ Sizes[s] \in Int /\ \A r \in S : Sizes[r] \in Int
    BY <1>2
  <2> QED
    BY <1>1, <2>1, SumWithout
<1> QED
  BY <1>1, <1>2, <1>4, <1>5

\* No entry fills or is placed anew, and the position does not grow.
LEMMA CoverStays ==
    ASSUME MarketInv, \A s \in Signals : Filled(s)' <=> Filled(s),
           position' = position \/ \E n \in Nat : n <= Size /\ ReduceBy(n),
           At("place")' => pc' = pc \/ position' = 0 \/ ~Filled(pc'.of)
    PROVE  EntriesCover' /\ OthersCover'
<1>1. \A side \in Sides : FilledOf(side)' = FilledOf(side) /\ FilledOf(side) \in SUBSET Signals
  BY DEF FilledOf
<1>2. \A side \in Sides : Amount(side)' <= Amount(side) \/ Amount(side)' <= 0
  BY DEF MarketInv, LiveInv, LiveShape, Amount, ReduceBy, Size, Abs, Signed, PositionSide, Sides
<1>3. \A side \in Sides : Amount(side) \in Int /\ Amount(side)' \in Int
  BY Reduced DEF MarketInv, LiveInv, LiveShape, Amount
<1>4. \A S \in SUBSET Signals : SumFunctionOnSet(Sizes, S) \in Nat
  BY SumOfSizes
<1>5. EntriesCover'
  <2> SUFFICES ASSUME NEW side \in Sides
               PROVE  Amount(side)' <= SumFunctionOnSet(Sizes, FilledOf(side)')
    BY DEF EntriesCover, Sizes
  <2>1. /\ Amount(side) <= SumFunctionOnSet(Sizes, FilledOf(side)')
        /\ SumFunctionOnSet(Sizes, FilledOf(side)') \in Nat
    BY <1>1, <1>4 DEF MarketInv, EntriesCover
  <2> QED
    BY <1>2, <1>3, <2>1
<1>6. OthersCover'
  <2> SUFFICES ASSUME At("place")', NEW side \in Sides
               PROVE  Amount(side)' <= SumFunctionOnSet(Sizes, FilledOf(side)' \ {pc'.of})
    BY DEF OthersCover, Sizes
  <2>1. SumFunctionOnSet(Sizes, FilledOf(side)' \ {pc'.of}) \in Nat
    BY <1>1, <1>4
  <2>2. CASE pc' = pc
    <3>1. Amount(side) <= SumFunctionOnSet(Sizes, FilledOf(side)' \ {pc'.of})
      BY <1>1, <2>2 DEF MarketInv, OthersCover, At
    <3> QED
      BY <1>2, <1>3, <2>1, <3>1
  <2>3. CASE position' = 0
    BY <2>1, <2>3 DEF Amount
  <2>4. CASE ~Filled(pc'.of)
    <3>1. FilledOf(side)' \ {pc'.of} = FilledOf(side)'
      BY <1>1, <2>4 DEF FilledOf
    <3> QED
      BY <1>5, <3>1 DEF EntriesCover, Sizes
  <2> QED
    BY <2>2, <2>3, <2>4
<1> QED
  BY <1>5, <1>6
\* The signal's earlier entry, if it had filled, counts no longer.
LEMMA PlacedCover ==
    ASSUME MarketInv, "place" \notin Faulty, NEW s \in Signals, PlaceEntry(s)
    PROVE  EntriesCover' /\ OthersCover'
<1>1. At("place") /\ pc.of = s /\ ReadyToPlace(s) /\ ~Fault
  BY DEF PlaceEntry, MarketInv, LiveInv, AtStage, At, Fault
<1>2. /\ Placed(s) /\ pc' = [at |-> "record", of |-> s] /\ UNCHANGED position
  BY <1>1 DEF PlaceEntry, ReadyToPlace, Proceed
<1>3. \A r \in Signals : Filled(r)' <=> Filled(r) /\ r # s
  BY <1>2 DEF MarketInv, LiveInv, LiveShape, Placed, Filled
<1>4. \A side \in Sides : FilledOf(side)' = FilledOf(side) \ {s}
  BY <1>3 DEF FilledOf
<1>5. EntriesCover'
  <2> SUFFICES ASSUME NEW side \in Sides
               PROVE  Amount(side)' <= SumFunctionOnSet(Sizes, FilledOf(side)')
    BY DEF EntriesCover, Sizes
  <2>1. Amount(side)' = Amount(side)
    BY <1>2 DEF Amount
  <2> QED
    BY <1>1, <1>4, <2>1 DEF MarketInv, OthersCover
<1> QED
  BY <1>2, <1>5 DEF OthersCover, At

\* What fills is added on its side, and taken off the other.
LEMMA FilledCover ==
    ASSUME MarketInv, NEW x \in Signals, OrderFills(x)
    PROVE  EntriesCover' /\ OthersCover'
<1>1. /\ position' = position + Signed(PlanOf[x].side, PlanOf[x].size)
      /\ UNCHANGED pc /\ Resting(x) /\ ~Filled(x)
  BY DEF OrderFills, CanFill, Resting, Filled, loopVars
<1>2. \A s \in Signals : Filled(s)' <=> Filled(s) \/ s = x
  BY DEF OrderFills, Filled, MarketInv, LiveInv, LiveShape
<1>3. At("place") => pc.of # x
  BY <1>1 DEF MarketInv, LiveInv, AtStage, ReadyToPlace
<1>4. ASSUME NEW side \in Sides, NEW S \in SUBSET FilledOf(side), NEW T,
             T = IF side = PlanOf[x].side THEN S \cup {x} ELSE S,
             Amount(side) <= SumFunctionOnSet(Sizes, S)
      PROVE  Amount(side)' <= SumFunctionOnSet(Sizes, T)
  <2>1. S \in SUBSET Signals /\ x \notin S
    BY <1>1 DEF FilledOf
  <2>2. SumFunctionOnSet(Sizes, S \cup {x}) = PlanOf[x].size + SumFunctionOnSet(Sizes, S)
        /\ SumFunctionOnSet(Sizes, S) \in Nat
    BY <2>1, SumOfSizes
  <2>3. PlanOf[x].size \in Nat /\ PlanOf[x].side \in Sides /\ position \in Int
    BY PlanSize DEF MarketInv, LiveInv, LiveShape
  <2>4. Amount(side)' = IF side = PlanOf[x].side THEN Amount(side) + PlanOf[x].size
                        ELSE Amount(side) - PlanOf[x].size
    BY <1>1, <2>3 DEF Amount, Signed, Sides
  <2>5. Amount(side) \in Int
    BY <2>3 DEF Amount
  <2> QED
    BY <1>4, <2>2, <2>3, <2>4, <2>5
<1>5. \A side \in Sides : FilledOf(side)' = IF side = PlanOf[x].side THEN FilledOf(side) \cup {x}
                                            ELSE FilledOf(side)
  BY <1>2 DEF FilledOf
<1>6. EntriesCover'
  <2> SUFFICES ASSUME NEW side \in Sides
               PROVE  Amount(side)' <= SumFunctionOnSet(Sizes, FilledOf(side)')
    BY DEF EntriesCover, Sizes
  <2>1. Amount(side) <= SumFunctionOnSet(Sizes, FilledOf(side))
    BY DEF MarketInv, EntriesCover
  <2> QED
    BY <1>4, <1>5, <2>1
<1>7. OthersCover'
  <2> SUFFICES ASSUME At("place"), NEW side \in Sides
               PROVE  Amount(side)' <= SumFunctionOnSet(Sizes, FilledOf(side)' \ {pc.of})
    BY <1>1 DEF OthersCover, Sizes, At
  <2> DEFINE S == FilledOf(side) \ {pc.of}
             T == FilledOf(side)' \ {pc.of}
  <2>1. Amount(side) <= SumFunctionOnSet(Sizes, S)
    BY DEF MarketInv, OthersCover
  <2>2. S \in SUBSET FilledOf(side) /\ T = IF side = PlanOf[x].side THEN S \cup {x} ELSE S
    BY <1>3, <1>5
  <2> HIDE DEF S
  <2> QED
    BY <1>4, <2>1, <2>2
<1> QED
  BY <1>6, <1>7

\* A handler starts to place only what has not filled, or on a flat symbol.
LEMMA HandlerCovers ==
    ASSUME MarketInv, NEW s \in Signals, HandlerStep(s), ~PlaceEntry(s)
    PROVE  EntriesCover' /\ OthersCover'
<1>1. LiveShape /\ Size \in Nat
  BY SizeIsNat DEF MarketInv, LiveInv
<1>2. CASE QueryEntry(s) \/ RecordEntry(s) \/ FillEntry(s) \/ ProtectEntry(s) \/ CancelExits(s)
           \/ CloseRow(s)
  <2>1. UNCHANGED <<order, position>>
    BY <1>2 DEF QueryEntry, RecordEntry, FillEntry, ProtectEntry, CancelExits, CloseRow,
       exchangeVars
  <2>2. At("place")' => ~Filled(pc'.of)
    BY <1>2 DEF QueryEntry, RecordEntry, FillEntry, ProtectEntry, CancelExits, CloseRow,
       Proceed, GoTo, Done, Deferred, Failed, At, Filled
  <2> QED
    BY <2>1, <2>2, CoverStays DEF Filled
<1>3. CASE CancelPending(s) \/ CancelAll(s)
  <2>1. UNCHANGED position /\ ~At("place")'
    BY <1>3 DEF CancelPending, CancelAll, Proceed, Done, Failed, GoTo, At
  <2>2. \A r \in Signals : Filled(r)' <=> Filled(r)
    <3>1. CASE CancelPending(s)
      BY <1>1, <3>1 DEF CancelPending, LiveShape, Resting, Filled
    <3>2. CASE CancelAll(s)
      BY <1>1, <3>2 DEF CancelAll, LiveShape, Resting, Filled
    <3> QED
      BY <1>3, <3>1, <3>2
  <2> QED
    BY <2>1, <2>2, CoverStays
<1>4. CASE CloseMarket(s) \/ CloseAll(s)
  <2>1. UNCHANGED order /\ ~At("place")'
    BY <1>4 DEF CloseMarket, CloseAll, Proceed, Failed, GoTo, At
  <2>2. position' = position \/ \E n \in Nat : n <= Size /\ ReduceBy(n)
    <3>1. CASE CloseMarket(s)
      <4>1. \/ UNCHANGED position
            \/ ReduceBy(IF row.size < Size THEN row.size ELSE Size)
        BY <3>1 DEF CloseMarket
      <4>2. row.size \in Nat
        BY <3>1, RowIsNot DEF CloseMarket, MarketInv, LiveInv, LiveShape, AtStage, At
      <4> QED
        BY <1>1, <4>1, <4>2
    <3>2. CASE CloseAll(s)
      BY <1>1, <3>2 DEF CloseAll
    <3> QED
      BY <1>4, <3>1, <3>2
  <2> QED
    BY <2>1, <2>2, CoverStays DEF Filled
<1> QED
  BY <1>2, <1>3, <1>4 DEF HandlerStep

LEMMA TaskCovers ==
    ASSUME MarketInv, NEW t \in Tasks, StartTask(t)
    PROVE  EntriesCover' /\ OthersCover'
<1>1. UNCHANGED <<order, position>>
  BY DEF StartTask, StartOpen, StartClose, exchangeVars
<1>2. At("place")' => position' = 0
  BY DEF StartTask, StartOpen, StartClose, CloseStage, exchangeVars, Running, Done, Failed,
     Proceed, GoTo, At
<1> QED
  BY <1>1, <1>2, CoverStays DEF Filled

LEMMA MarketStep ==
    ASSUME MarketInv, "place" \notin Faulty, "record" \notin Faulty, [LiveNext]_liveVars
    PROVE  MarketInv'
<1> SUFFICES EntriesCover' /\ OthersCover'
  BY LiveStep DEF MarketInv
<1>1. ASSUME UNCHANGED <<order, pc>>,
             position' = position \/ \E n \in Nat : n <= Size /\ ReduceBy(n)
      PROVE  EntriesCover' /\ OthersCover'
  BY <1>1, CoverStays DEF Filled
<1>2. CASE UNCHANGED liveVars
  BY <1>1, <1>2 DEF liveVars, exchangeVars, loopVars
<1>3. CASE CycleStep \/ Crash
  <2>1. UNCHANGED <<order, position>>
    BY <1>3 DEF CycleStep, QueueEnds, Refresh, Tick, EnqueueClose, EventsEnd, Reconcile, Ensure,
       ReconcileSignals, CycleFails, Crash, exchangeVars
  <2>2. At("place")' => pc' = pc
    BY <1>3 DEF CycleStep, QueueEnds, Refresh, Tick, EnqueueClose, EventsEnd, Reconcile, Ensure,
       ReconcileSignals, CycleFails, Crash, GoTo, At
  <2> QED
    BY <2>1, <2>2, CoverStays DEF Filled
<1>4. CASE PriceMoves
  BY <1>1, <1>4 DEF PriceMoves, loopVars
<1>5. CASE ExitFills
  <2>1. \E n \in Nat : n <= Size /\ ReduceBy(n)
    BY <1>5, SizeIsNat DEF ExitFills, MarketInv, LiveInv
  <2> QED
    BY <1>1, <1>5, <2>1 DEF ExitFills, loopVars
<1>6. ASSUME NEW x \in Signals, OrderFills(x)
      PROVE  EntriesCover' /\ OthersCover'
  BY <1>6, FilledCover
<1>7. ASSUME NEW s \in Signals, HandlerStep(s)
      PROVE  EntriesCover' /\ OthersCover'
  BY <1>7, PlacedCover, HandlerCovers
<1>8. ASSUME NEW t \in Tasks, StartTask(t)
      PROVE  EntriesCover' /\ OthersCover'
  BY <1>8, TaskCovers
<1> QED
  BY <1>2, <1>3, <1>4, <1>5, <1>6, <1>7, <1>8 DEF LiveNext, ExchangeStep

\* No signal is in the market twice, whatever the worker polls, fails and tries
\* again, and wherever the process dies, as long as placing and recording an entry
\* do not fail (open_from_signal and its pending key).
THEOREM EntersOnce ==
    ASSUME "place" \notin Faulty, "record" \notin Faulty
    PROVE  LiveSpec => []NoDoubleEntry
<1>1. LiveInit => MarketInv
  <2> SUFFICES ASSUME LiveInit PROVE MarketInv
    OBVIOUS
  <2>1. position = 0 /\ ~At("place")
    BY DEF LiveInit, At
  <2>2. \A side \in Sides : SumFunctionOnSet(Sizes, FilledOf(side)) \in Nat
    BY SumOfSizes DEF FilledOf
  <2> QED
    BY <2>1, <2>2, LiveInitOK DEF MarketInv, EntriesCover, OthersCover, Amount
<1>2. MarketInv /\ [LiveNext]_liveVars => MarketInv'
  BY MarketStep
<1>3. MarketInv => NoDoubleEntry
  <2> SUFFICES ASSUME MarketInv, position # 0
               PROVE  Size <= SizesOf(PositionSide)
    BY DEF NoDoubleEntry
  <2>1. /\ PositionSide \in Sides /\ Size = Amount(PositionSide) /\ Size \in Nat
    BY DEF MarketInv, LiveInv, LiveShape, PositionSide, Size, Abs, Amount, Sides
  <2>2. FilledOf(PositionSide) \in SUBSET {s \in Signals : PlanOf[s].side = PositionSide}
    BY DEF FilledOf
  <2>3. {s \in Signals : PlanOf[s].side = PositionSide} \in SUBSET Signals
    OBVIOUS
  <2>4. /\ SumFunctionOnSet(Sizes, FilledOf(PositionSide)) <= SizesOf(PositionSide)
        /\ SumFunctionOnSet(Sizes, FilledOf(PositionSide)) \in Nat
        /\ SizesOf(PositionSide) \in Nat
    BY <2>2, <2>3, SumOfSizes DEF SizesOf, Sizes
  <2> QED
    BY <2>1, <2>4 DEF MarketInv, EntriesCover
<1> QED
  BY <1>1, <1>2, <1>3, PTL DEF LiveSpec
-----------------------------------------------------------------------------
(* The types, whichever calls fail.                                        *)

LiveTypes ==
    /\ LiveTypeOK
    /\ order \in [Signals -> [is : OrderStatus, at : Int]]
    /\ price \in Int
    /\ pc.at \notin LoopStages => pc.of \in Signals
    /\ row = [source |-> row.source, side |-> row.side, size |-> row.size, price |-> row.price]
    /\ row # NoRow => row.side \in Sides
    /\ At("ensure") => row # NoRow

\* What the queue's operations do to the rows' types
LEMMA TaskMoveTypes ==
    ASSUME LiveTypes, NEW t \in Tasks, Done(t) \/ Deferred(t) \/ Failed(t)
    PROVE  /\ task' \in [Tasks -> TaskStatus] /\ tries' \in [Tasks -> 0..MaxAttempts - 1]
           /\ pc' = [at |-> "queue", of |-> 0]
BY LiveAssumption
   DEF Done, Deferred, Failed, GoTo, LiveTypes, LiveTypeOK, TaskStatus, LiveAssumption

LEMMA RunningTypes ==
    ASSUME LiveTypes, NEW t \in Tasks, NEW stage, Running(t, stage)
    PROVE  /\ task' \in [Tasks -> TaskStatus] /\ tries' \in [Tasks -> 0..MaxAttempts - 1]
           /\ pc' = [at |-> stage, of |-> t[2]]
BY DEF Running, Proceed, LiveTypes, LiveTypeOK, TaskStatus

LEMMA EnqueuedTypes ==
    ASSUME LiveTypes, NEW tasks, Enqueued(tasks) \/ UNCHANGED queueVars
    PROVE  /\ task' \in [Tasks -> TaskStatus] /\ tries' \in [Tasks -> 0..MaxAttempts - 1]
BY LiveAssumption
   DEF Enqueued, queueVars, LiveTypes, LiveTypeOK, TaskStatus, LiveAssumption

LEMMA FaultTypes ==
    ASSUME LiveTypes, Fault \/ NoFault
    PROVE  faults' \in 0..MaxFaults
BY LiveAssumption DEF Fault, NoFault, LiveTypes, LiveTypeOK, LiveAssumption

LEMMA PositionTypes ==
    ASSUME LiveTypes, NEW n \in Nat, ReduceBy(n)
    PROVE  position' \in Int /\ stops' \subseteq Sides
BY DEF ReduceBy, BookAfter, Signed, LiveTypes, LiveTypeOK

\* The parts of the types that a step may disturb, one by one
SignalTypes == signal' \in [Signals -> SignalStatus]
QueueTypes ==
    task' \in [Tasks -> TaskStatus] /\ tries' \in [Tasks -> 0..MaxAttempts - 1]
PendingTypes == pending' \in [Signals -> BOOLEAN]
RowTypes ==
    /\ row' = [source |-> row'.source, side |-> row'.side, size |-> row'.size,
               price |-> row'.price]
    /\ row'.source \in Signals \cup {0}
    /\ row'.side \in Sides \cup {"none"}
    /\ row'.size \in Nat
    /\ row' # NoRow => row'.side \in Sides
PcTypes ==
    /\ pc' \in [at : Stages, of : Signals \cup {0}]
    /\ pc'.at \notin LoopStages => pc'.of \in Signals
    /\ pc'.at = "ensure" => row' # NoRow
LoopTypes == events' \subseteq Signals /\ handled' \subseteq Tasks
ExchangeTypes ==
    /\ order' \in [Signals -> [is : OrderStatus, at : Int]]
    /\ position' \in Int
    /\ stops' \subseteq Sides
    /\ price' \in Int
BoundTypes == faults' \in 0..MaxFaults /\ crashes' \in 0..MaxCrashes

LEMMA TypesTogether ==
    ASSUME SignalTypes, QueueTypes, PendingTypes, RowTypes, PcTypes, LoopTypes, ExchangeTypes,
           BoundTypes
    PROVE  LiveTypes'
<1>1. \A s \in Signals : order'[s].is \in {"none", "STOP", "LIMIT", "FILLED", "CANCELED"}
  BY DEF ExchangeTypes, OrderStatus
<1> QED
  BY <1>1 DEF SignalTypes, QueueTypes, PendingTypes, RowTypes, PcTypes, LoopTypes, ExchangeTypes,
     BoundTypes, LiveTypes, LiveTypeOK, At

\* What a step leaves alone keeps its type.
LEMMA TypesStay ==
    ASSUME LiveTypes
    PROVE  /\ UNCHANGED signal => SignalTypes
           /\ UNCHANGED queueVars => QueueTypes
           /\ UNCHANGED pending => PendingTypes
           /\ UNCHANGED row => RowTypes
           /\ UNCHANGED <<pc, row>> => PcTypes
           /\ UNCHANGED <<events, handled>> => LoopTypes
           /\ UNCHANGED <<order, position, stops, price>> => ExchangeTypes
           /\ (Fault \/ NoFault) /\ UNCHANGED crashes => BoundTypes
BY FaultTypes
   DEF SignalTypes, QueueTypes, PendingTypes, RowTypes, PcTypes, LoopTypes, ExchangeTypes,
       BoundTypes, LiveTypes, LiveTypeOK, queueVars, At
LEMMA StartTypes ==
    ASSUME LiveTypes, NEW t \in Tasks, StartTask(t)
    PROVE  LiveTypes'
<1>1. PICK s \in Signals : t = <<"open", s>> \/ t = <<"close", s>>
  BY DEF Tasks
<1>2. /\ UNCHANGED <<pending, row, order, position, stops, price, events, crashes>>
      /\ Fault \/ NoFault
      /\ handled' \subseteq Tasks
  BY <1>1 DEF StartTask, StartOpen, StartClose, exchangeVars, NoFault, LiveTypes, LiveTypeOK
<1>3. SignalTypes
  BY <1>1 DEF StartTask, StartOpen, StartClose, SignalTypes, SignalStatus, LiveTypes, LiveTypeOK
<1>4. QueueTypes /\ PcTypes
  <2>1. CASE Done(t) \/ Failed(t)
    BY <2>1, TaskMoveTypes DEF QueueTypes, PcTypes, Stages, LoopStages
  <2>2. ASSUME NEW stage \in {"query", "place", "cancelExits", "cancelPending", "cancelAll"},
               Running(t, stage)
        PROVE  QueueTypes /\ PcTypes
    BY <1>1, <2>2, RunningTypes DEF QueueTypes, PcTypes, Stages
  <2> QED
    BY <1>1, <2>1, <2>2 DEF StartTask, StartOpen, StartClose, CloseStage
<1> QED
  BY <1>2, <1>3, <1>4, TypesStay, TypesTogether DEF LoopTypes, LiveTypes, LiveTypeOK

LEMMA OpenTypes ==
    ASSUME LiveTypes, NEW s \in Signals,
           QueryEntry(s) \/ PlaceEntry(s) \/ RecordEntry(s) \/ FillEntry(s) \/ ProtectEntry(s)
    PROVE  LiveTypes'
<1>1. UNCHANGED <<events, handled, position, price, crashes>> /\ (Fault \/ NoFault)
  BY DEF QueryEntry, PlaceEntry, RecordEntry, FillEntry, ProtectEntry, exchangeVars, boundVars,
     NoFault
<1>2. SignalTypes /\ PendingTypes
  BY DEF QueryEntry, PlaceEntry, RecordEntry, FillEntry, ProtectEntry, SignalTypes, PendingTypes,
     SignalStatus, LiveTypes, LiveTypeOK
<1>3. RowTypes
  <2>1. CASE FillEntry(s)
    <3>1. PICK at : row' = [source |-> s, side |-> PlanOf[s].side, size |-> PlanOf[s].size,
                            price |-> at]
      BY <2>1 DEF FillEntry
    <3> QED
      BY <3>1, PlanSize DEF RowTypes
  <2>2. CASE ~FillEntry(s)
    BY <2>2, TypesStay DEF QueryEntry, PlaceEntry, RecordEntry, ProtectEntry
  <2> QED
    BY <2>1, <2>2
<1>4. QueueTypes /\ PcTypes
  <2>1. <<"open", s>> \in Tasks
    BY OpenIsTask
  <2>2. CASE Done(<<"open", s>>) \/ Deferred(<<"open", s>>) \/ Failed(<<"open", s>>)
    BY <2>1, <2>2, TaskMoveTypes DEF QueueTypes, PcTypes, Stages, LoopStages
  <2>3. CASE UNCHANGED queueVars /\ \E stage \in {"fill", "place", "record", "protect"} :
                Proceed(stage, s)
    BY <2>3, TypesStay DEF PcTypes, Proceed, Stages
  <2> QED
    BY <2>2, <2>3 DEF QueryEntry, PlaceEntry, RecordEntry, FillEntry, ProtectEntry
<1>5. ExchangeTypes
  <2>1. stops' \subseteq Sides
    BY PlanSize DEF QueryEntry, PlaceEntry, RecordEntry, FillEntry, ProtectEntry, exchangeVars,
       LiveTypes, LiveTypeOK
  <2>2. order' \in [Signals -> [is : OrderStatus, at : Int]]
    <3>1. UNCHANGED order \/ Placed(s)
      BY DEF QueryEntry, PlaceEntry, RecordEntry, FillEntry, ProtectEntry, exchangeVars
    <3> QED
      BY <3>1 DEF Placed, OrderStatus, LiveTypes
  <2> QED
    BY <1>1, <2>1, <2>2 DEF ExchangeTypes, LiveTypes, LiveTypeOK
<1> QED
  BY <1>1, <1>2, <1>3, <1>4, <1>5, TypesStay, TypesTogether

LEMMA CloseTypes ==
    ASSUME LiveTypes, NEW s \in Signals,
           \/ CancelPending(s) \/ CancelExits(s) \/ CloseMarket(s)
           \/ CancelAll(s) \/ CloseAll(s) \/ CloseRow(s)
    PROVE  LiveTypes'
<1>1. UNCHANGED <<signal, events, handled, price, crashes>> /\ (Fault \/ NoFault)
  BY DEF CancelPending, CancelExits, CloseMarket, CancelAll, CloseAll, CloseRow, dbVars,
     exchangeVars, NoFault
<1>2. PendingTypes
  BY DEF CancelPending, CancelExits, CloseMarket, CancelAll, CloseAll, CloseRow, dbVars,
     PendingTypes, LiveTypes, LiveTypeOK
<1>3. RowTypes
  <2>1. row' = row \/ row' = NoRow
    BY DEF CancelPending, CancelExits, CloseMarket, CancelAll, CloseAll, CloseRow, dbVars
  <2>2. row' = NoRow => RowTypes
    BY DEF NoRow, RowTypes
  <2> QED
    BY <2>1, <2>2, TypesStay
<1>4. QueueTypes /\ PcTypes
  <2>1. <<"close", s>> \in Tasks
    BY OpenIsTask
  <2>2. CASE Done(<<"close", s>>) \/ Failed(<<"close", s>>)
    BY <2>1, <2>2, TaskMoveTypes DEF QueueTypes, PcTypes, Stages, LoopStages
  <2>3. CASE UNCHANGED queueVars /\ \E stage \in {"closeMarket", "closeAll", "closeRow"} :
                Proceed(stage, s)
    BY <2>3, TypesStay DEF PcTypes, Proceed, Stages
  <2> QED
    BY <2>2, <2>3 DEF CancelPending, CancelExits, CloseMarket, CancelAll, CloseAll, CloseRow,
       dbVars
<1>5. position' \in Int /\ stops' \subseteq Sides
  <2>1. CASE CloseMarket(s) \/ CloseAll(s)
    <3>1. Size \in Nat /\ (IF row.size < Size THEN row.size ELSE Size) \in Nat
      BY DEF LiveTypes, LiveTypeOK, Size, Abs
    <3> QED
      BY <2>1, <3>1, PositionTypes DEF CloseMarket, CloseAll, LiveTypes, LiveTypeOK
  <2>2. CASE ~(CloseMarket(s) \/ CloseAll(s))
    BY <2>2 DEF CancelPending, CancelExits, CancelAll, CloseRow, exchangeVars, LiveTypes,
       LiveTypeOK
  <2> QED
    BY <2>1, <2>2
<1>6. order' \in [Signals -> [is : OrderStatus, at : Int]]
  <2>1. CASE CancelPending(s)
    BY <2>1 DEF CancelPending, OrderStatus, LiveTypes
  <2>2. CASE CancelAll(s)
    BY <2>2 DEF CancelAll, OrderStatus, LiveTypes
  <2>3. CASE ~CancelPending(s) /\ ~CancelAll(s)
    BY <2>3 DEF CancelExits, CloseMarket, CloseAll, CloseRow, exchangeVars, LiveTypes
  <2> QED
    BY <2>1, <2>2, <2>3
<1>7. ExchangeTypes
  BY <1>1, <1>5, <1>6 DEF ExchangeTypes, LiveTypes
<1> QED
  BY <1>1, <1>2, <1>3, <1>4, <1>7, TypesStay, TypesTogether
LEMMA LoopPcTypes ==
    ASSUME NEW stage \in LoopStages, GoTo(stage), stage = "ensure" => row' # NoRow
    PROVE  PcTypes
BY DEF GoTo, PcTypes, LoopStages, Stages

\* The oldest of the candidates is one of them.
LEMMA OldestIn ==
    ASSUME NEW S \in SUBSET Signals, S # {}
    PROVE  Min(S) \in S
<1>1. IsFiniteSet(S) /\ \A n \in S : n \in Int
  <2>1. IsFiniteSet(Signals)
    BY LiveAssumption DEF LiveAssumption
  <2> QED
    BY <2>1, FS_Subset, PlanSize
<1>2. \E m \in S : \A n \in S : n >= m
  BY <1>1, LeastNumber
<1>3. \E m \in S : \A n \in S : m <= n
  BY <1>1, <1>2
<1> QED
  BY <1>3 DEF Min

LEMMA CycleTypes ==
    ASSUME LiveTypes, CycleStep
    PROVE  LiveTypes'
<1>1. /\ UNCHANGED <<order, position, price, pending, crashes>> /\ (Fault \/ NoFault)
  BY DEF CycleStep, QueueEnds, Refresh, Tick, EnqueueClose, EventsEnd, Reconcile, Ensure,
     ReconcileSignals, CycleFails, dbVars, exchangeVars, boundVars, NoFault
<1>2. SignalTypes
  <2>1. UNCHANGED signal \/ Refresh \/ Tick \/ ReconcileSignals
    BY DEF CycleStep, QueueEnds, Refresh, Tick, EnqueueClose, EventsEnd, Reconcile, Ensure,
       ReconcileSignals, CycleFails, dbVars
  <2>2. CASE Refresh
    BY <2>2 DEF Refresh, SignalTypes, SignalStatus, LiveTypes, LiveTypeOK
  <2>3. CASE Tick
    BY <2>3 DEF Tick, SignalTypes, SignalStatus, LiveTypes, LiveTypeOK
  <2>4. CASE ReconcileSignals
    BY <2>4 DEF ReconcileSignals, SignalTypes, SignalStatus, LiveTypes, LiveTypeOK
  <2> QED
    BY <2>1, <2>2, <2>3, <2>4, TypesStay
<1>3. QueueTypes
  <2>1. UNCHANGED queueVars \/ \E tasks : Enqueued(tasks)
    BY DEF CycleStep, QueueEnds, Refresh, Tick, EnqueueClose, EventsEnd, Reconcile, Ensure,
       ReconcileSignals, CycleFails, dbVars
  <2> QED
    BY <2>1, EnqueuedTypes DEF QueueTypes
<1>4. PcTypes
  <2>1. \/ UNCHANGED <<pc, row>>
        \/ \E stage \in LoopStages : GoTo(stage) /\ (stage = "ensure" => row' # NoRow)
    BY DEF CycleStep, QueueEnds, Refresh, Tick, EnqueueClose, EventsEnd, Reconcile, Ensure,
       ReconcileSignals, CycleFails, LoopStages
  <2> QED
    BY <2>1, LoopPcTypes, TypesStay
<1>5. events' \subseteq Signals
  BY DEF CycleStep, QueueEnds, Refresh, Tick, EnqueueClose, EventsEnd, Reconcile, Ensure,
     ReconcileSignals, CycleFails, LiveTypes, LiveTypeOK
<1>6. handled' \subseteq Tasks
  BY DEF CycleStep, QueueEnds, Refresh, Tick, EnqueueClose, EventsEnd, Reconcile, Ensure,
     ReconcileSignals, CycleFails, LiveTypes, LiveTypeOK
<1>7. RowTypes
  <2>1. UNCHANGED row \/ row' = ReconciledRow \/ (row' = Linked /\ row # NoRow)
    BY DEF CycleStep, QueueEnds, Refresh, Tick, EnqueueClose, EventsEnd, Reconcile, Ensure,
       ReconcileSignals, CycleFails, dbVars, LiveTypes
  <2>2. CASE row' = ReconciledRow
    <3>1. \/ row' = NoRow
          \/ row' = row
          \/ /\ row' = [source |-> 0, side |-> PositionSide, size |-> Size, price |-> entryPrice]
             /\ PositionSide \in Sides /\ Size \in Nat
      BY <2>2 DEF ReconciledRow, PositionSide, Size, Abs, Sides, LiveTypes, LiveTypeOK
    <3>2. row' = NoRow => RowTypes
      BY DEF NoRow, RowTypes
    <3>3. ASSUME row' = [source |-> 0, side |-> PositionSide, size |-> Size,
                         price |-> entryPrice],
                 PositionSide \in Sides, Size \in Nat
          PROVE  RowTypes
      <4>1. PICK side \in Sides : side = PositionSide
        BY <3>3
      <4>2. PICK n \in Nat : n = Size
        BY <3>3
      <4>3. row' = [source |-> 0, side |-> side, size |-> n, price |-> entryPrice]
        BY <3>3, <4>1, <4>2
      <4> QED
        BY <4>3 DEF RowTypes
    <3> QED
      BY <3>1, <3>2, <3>3, TypesStay
  <2>3. CASE row' = Linked /\ row # NoRow
    <3> DEFINE candidates == {s \in Signals : IsOpen(s) /\ PlanOf[s].side = row.side}
    <3>1. candidates # {} => Min(candidates) \in Signals
      BY OldestIn
    <3>2. row' = row \/ \E m \in Signals : row' = [row EXCEPT !.source = m]
      BY <2>3, <3>1 DEF Linked
    <3>3. ASSUME NEW m \in Signals, row' = [row EXCEPT !.source = m]
          PROVE  RowTypes
      <4>1. row' = [source |-> m, side |-> row.side, size |-> row.size, price |-> row.price]
        BY <3>3 DEF LiveTypes
      <4>2. row.side \in Sides /\ row.size \in Nat
        BY <2>3 DEF LiveTypes, LiveTypeOK
      <4> QED
        BY <4>1, <4>2 DEF RowTypes
    <3> QED
      BY <3>2, <3>3, TypesStay
  <2> QED
    BY <2>1, <2>2, <2>3, TypesStay
<1>8. stops' \subseteq Sides
  <2>1. Ensure => row.side \in Sides
    BY DEF Ensure, LiveTypes
  <2> QED
    BY <2>1 DEF CycleStep, QueueEnds, Refresh, Tick, EnqueueClose, EventsEnd, Reconcile, Ensure,
       ReconcileSignals, CycleFails, exchangeVars, LiveTypes, LiveTypeOK
<1> QED
  BY <1>1, <1>2, <1>3, <1>4, <1>5, <1>6, <1>7, <1>8, TypesStay, TypesTogether
     DEF LoopTypes, ExchangeTypes, LiveTypes, LiveTypeOK
LEMMA ExchangeStepTypes ==
    ASSUME LiveTypes, ExchangeStep
    PROVE  LiveTypes'
<1>1. UNCHANGED <<signal, task, tries, pending, row, events, handled, pc, faults, crashes>>
  BY DEF ExchangeStep, PriceMoves, OrderFills, ExitFills, dbVars, queueVars, loopVars, boundVars
<1>2. ExchangeTypes
  <2>1. CASE PriceMoves
    BY <2>1, LiveAssumption DEF PriceMoves, LiveAssumption, ExchangeTypes, LiveTypes, LiveTypeOK
  <2>2. CASE ExitFills
    <3>1. \E n \in Nat : ReduceBy(n)
      BY <2>2 DEF ExitFills, Size, Abs, LiveTypes, LiveTypeOK
    <3> QED
      BY <2>2, <3>1, PositionTypes DEF ExitFills, ExchangeTypes, LiveTypes
  <2>3. ASSUME NEW s \in Signals, OrderFills(s)
        PROVE  ExchangeTypes
    <3>1. UNCHANGED price /\ position' \in Int /\ stops' \subseteq Sides
      BY <2>3, PlanSize DEF OrderFills, Signed, BookAfter, LiveTypes, LiveTypeOK
    <3>2. order' = [order EXCEPT ![s] =
              [is |-> "FILLED", at |-> IF order[s].is = "LIMIT" THEN PlanOf[s].entry ELSE price]]
      BY <2>3 DEF OrderFills
    <3>3. order' \in [Signals -> [is : OrderStatus, at : Int]]
      BY <3>2, PlanSize DEF OrderStatus, LiveTypes
    <3> QED
      BY <3>1, <3>3 DEF ExchangeTypes, LiveTypes
  <2> QED
    BY <2>1, <2>2, <2>3 DEF ExchangeStep
<1> QED
  BY <1>1, <1>2, TypesStay, TypesTogether DEF NoFault, queueVars

LEMMA CrashTypes ==
    ASSUME LiveTypes, Crash
    PROVE  LiveTypes'
<1>1. /\ UNCHANGED <<dbVars, exchangeVars, faults>> /\ events' = {} /\ handled' = {}
      /\ pc' = [at |-> "startup", of |-> 0]
  BY DEF Crash, GoTo
<1>2. PcTypes /\ LoopTypes
  BY <1>1 DEF PcTypes, LoopTypes, Stages, LoopStages
<1>3. BoundTypes
  BY LiveAssumption DEF Crash, LiveAssumption, BoundTypes, LiveTypes, LiveTypeOK
<1> QED
  BY <1>1, <1>2, <1>3, TypesStay, TypesTogether DEF dbVars, exchangeVars

\* The state has its types: no task is tried more often than its cap, none is lost
\* from the table, and a row, wherever it came from, names a signal or none.
THEOREM LiveTypesHold == LiveSpec => []LiveTypeOK
<1>1. LiveInit => LiveTypes
  BY LiveAssumption
     DEF LiveInit, LiveAssumption, LiveTypes, LiveTypeOK, SignalStatus, TaskStatus, NoRow, Stages,
         LoopStages, OrderStatus, At
<1>2. LiveTypes /\ [LiveNext]_liveVars => LiveTypes'
  <2> SUFFICES ASSUME LiveTypes, [LiveNext]_liveVars PROVE LiveTypes'
    OBVIOUS
  <2>1. CASE UNCHANGED liveVars
    BY <2>1, TypesStay, TypesTogether
       DEF liveVars, dbVars, exchangeVars, loopVars, boundVars, NoFault
  <2>2. ASSUME NEW s \in Signals, HandlerStep(s)
        PROVE  LiveTypes'
    BY <2>2, OpenTypes, CloseTypes DEF HandlerStep
  <2>3. ASSUME NEW t \in Tasks, StartTask(t)
        PROVE  LiveTypes'
    BY <2>3, StartTypes
  <2> QED
    BY <2>1, <2>2, <2>3, CycleTypes, ExchangeStepTypes, CrashTypes DEF LiveNext
<1>3. LiveTypes => LiveTypeOK
  BY DEF LiveTypes
<1> QED
  BY <1>1, <1>2, <1>3, PTL DEF LiveSpec
=============================================================================
