CONSTANTS
    Pages = {"p", "q"}
    MemoryIds = {"m"}
    MaxFaults = 1
SPECIFICATION MemorySpec
INVARIANT CommittedClearStays
CHECK_DEADLOCK FALSE
