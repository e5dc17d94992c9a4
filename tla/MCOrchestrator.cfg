\* The queue: three keys, so that a row is fetched, handled and left behind in one batch; three
\* attempts, so that a row is retried, exhausted and reset; a threshold of two
\* failures, so that the breaker trips with a fetched row still in the batch; a batch
\* that can hold every row, without which a younger task may never be fetched.
\* The signals: two of one slot, a plan and its successor.
SPECIFICATION OrchestratorSpec
CONSTANTS
    Keys = {"open:1", "close:1", "open:2"}
    BatchLimit = 3
    MaxAttempts = 3
    BreakerEnabled = TRUE
    BreakerFailures = 2
    MaxRestarts = 1
    Slots = {"4H"}
    TimeStopSlots = {"4H"}
    Analyses <- MCAnalyses
    Prices <- MCPrices
    Fills = {9}
    Modes = {"entry_only", "pending", "signal_price"}
    Gates = {TRUE, FALSE}
    EdgeMode = FALSE
    MaxSignals = 2
INVARIANTS
    QueueTypeOK
    SnapshotFresh
    TaskOwnsItsRow
    SignalTypeOK
    OnePlanPerSlot
    NoSameThesisReentry
    StatusMatchesHits
PROPERTIES
    WorkQueueSpec
    NoStartWhileOpen
    EveryTaskTried
    RunningEndsUnlessKilled
    TerminalIsFinal
    StopNeverLoosens
    BreakevenAtTP1
    LifecycleSpec
