SPECIFICATION TradingSpec
CONSTANTS
    StartPrice = 20000
    LegLengths = {1000, 1600, 3800}
    BarGaps = {5}
    MaxPivots = 7
    Drifts <- MCDrifts
    Atr = 300
    IndicatorSignals <- MCSignals
    Histories <- MCHistories
    BarPrices = {0, 1, 3, 4, 5, 6, 7, 9, 10}
    Setups <- MCSetups
    TimeLimit = 4
    MaxBars = 6
    Datasets = {1, 2}
    Windows <- MCWindows
    Horizon = 3
    Rewards <- MCRewards
    Waves = {"w1"}
    Limits = {1, 2}
    InitialCapital = 64
    RiskParts = 4
    Signals <- MCTwoSignals
    PlanOf <- MCBigLongPlans
    Prices <- MCPrices
    MaxAttempts = 2
    Faulty <- MCAllButPlacing
    MaxFaults = 1
    MaxCrashes = 1
INVARIANTS
    LossOnlyShrinks
    SimulatorsAgree
    SizedOnKnownResults
    ScenariosTradeable
    EntriesApart
    SummaryAgrees
    NoLoserExecuted
    LiveTypeOK
    NoDoubleEntry
PROPERTIES
    RowOutlivesPosition
