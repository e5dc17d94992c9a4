SPECIFICATION ServicesSpec
CONSTANTS
    Members = {a}
    Amounts = {2}
    Rates = {2}
    Months = {1}
    Days = {1, 2}
    Handlers = {h1, h2}
    MaxTrades = 2
    Entries = {"s1", "s2"}
    Jobs = {"j1"}
    ExchangeModes = {"off", "market", "managed"}
    MaxFaults = 1
    News = {1, 2, 3}
    MaxItems = 2
    MaxNewsFaults = 2
    Keys = {"sc", "lv"}
    Watched <- MCWatched
    Cooldown = 2
    AlertPrices = {0, 2, 3}
    MaxLostSaves = 1
    MaxRestarts = 2
    Lookback = 2
    MaxCandles = 4
    MaxDeaths = 1
    Emails = {101}
    AdminEmail = 101
    Threads = {"h1", "h2"}
    Period = 2
    MaxAccounts = 2
    MaxPayments = 2
    MaxDay = 3
    WindowLength = 2
    Grace = 1
    SlotPrices = {15000, 25000}
    SlotScenarios <- MCSlotScenarios
    Targets = {20000}
    MaxMoment = 3
    MaxCrashes = 1
    Marks = {1, 2, 3, 5, 6, 7, 8}
    EntryAt = 4
    PlanStop = 2
    PlanTargets <- MCPlanTargets
    EmergencyStop = 1
    Weights <- MCWeights
    Lots = 5
    Strays <- MCStrays
    MaxLadderFaults = 1
    Symbols = {"btc", "eth", "sol"}
    EntryStyles = {"signal_price", "market"}
    MaxOpen = 2
    RiskLimit = 15
    RiskPerTrade = 10
    Margin = 8000
    Wallets = {10000, 2000}
    Fills = {150}
    EmergencyRisk = 1500
    MaxLostAnswers = 1
INVARIANTS
    ServicesTypeOK
    ReconcileRestores
    TargetsSellTheirShare
    LimitsHoldButForRecovered
    LedgerBalances
    PaidAsClosed
    RepeatedOnlyUnmarked
    MailedOncePerFault
    TableFinal
    NothingLostByOneAtATime
    OnePredictionPerWindow
PROPERTIES
    AlertsSpaced
    EntriesAnnounced
CHECK_DEADLOCK FALSE
