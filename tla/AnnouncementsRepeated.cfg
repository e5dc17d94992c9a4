SPECIFICATION AnnounceSpec
CONSTANTS
    Entries = {"s1"}
    Jobs = {}
    ExchangeModes = {"off"}
    MaxFaults = 1
INVARIANTS
    EntryAnnouncedOnce
CHECK_DEADLOCK FALSE
