\* No failed call, and nothing left on the book by an earlier trade.
SPECIFICATION LadderSpec
CONSTANTS
    Marks = {1, 2, 3, 5, 6, 7, 8}
    EntryAt = 4
    PlanStop = 2
    PlanTargets <- MCPlanTargets
    EmergencyStop = 1
    Weights <- MCWeights
    Lots = 5
    Strays = {}
    MaxLadderFaults = 0
INVARIANT
    EmergencyOnlyWithoutPlan
CHECK_DEADLOCK FALSE
