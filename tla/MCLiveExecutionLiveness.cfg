SPECIFICATION FairLiveSpec
CONSTANTS
    Signals <- MCOneSignal
    PlanOf <- MCLongPlan
    Prices <- MCLowPrices
    MaxAttempts = 2
    Faulty <- Stages
    MaxFaults = 1
    MaxCrashes = 1
PROPERTIES
    EventuallyProtected
    LinkedExposureClosed
