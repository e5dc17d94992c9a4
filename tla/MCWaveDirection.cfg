SPECIFICATION AnalysisSpec
CONSTANTS
    StartPrice = 20000
    LegLengths = {1000, 1700, 3200}
    BarGaps = {5}
    MaxPivots = 7
    Drifts <- MCDrifts
    Atr = 300
    IndicatorSignals <- MCSignals
    Histories <- MCHistories
INVARIANT
    BuiltWaveLeavesItsStart
CHECK_DEADLOCK FALSE
