SPECIFICATION FairLiveSpec
CONSTANTS
    Signals <- MCTwoSignals
    PlanOf <- MCOpposedPlans
    Prices <- MCEntryPrices
    MaxAttempts = 2
    Faulty <- Stages
    MaxFaults = 0
    MaxCrashes = 0
PROPERTIES
    EventuallyProtected
