SPECIFICATION LiveSpec
CONSTANTS
    Signals <- MCOneSignal
    PlanOf <- MCLongPlan
    Prices <- MCPrices
    MaxAttempts = 2
    Faulty <- Stages
    MaxFaults = 0
    MaxCrashes = 0
INVARIANTS
    ExitLeavesNothing
