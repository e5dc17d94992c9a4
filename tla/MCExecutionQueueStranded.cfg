\* Two keys, and one restart at any time.
SPECIFICATION FairQueueSpec
CONSTANTS
    Keys = {"open:1", "close:1"}
    BatchLimit = 2
    MaxAttempts = 3
    BreakerEnabled = TRUE
    BreakerFailures = 2
    MaxRestarts = 1
PROPERTY
    RunningEnds
