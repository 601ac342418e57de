CONSTANTS
    a = a
    b = b
    ToolIds = {a}
    Hooks = TRUE
    AutoCompact = TRUE
    MaxTurns = 2
    PreserveRecent = 1
    MemoryKeepRecent = 1
    MaxFailures = 1
    MaxPtlRetries = 1
    MaxStreamRetries = 1
    Restored <- Snapshots
    MaxSent = 2
    MaxStops = 1
    Spawners = {"s1", "s2"}
    TaskCallers = {"a", "b"}
    MaxActive = 1
    MaxRecords = 1
    MaxChunks = 1
    Accounts = {"A", "B"}
    NoAccount = "-"
    SwitchTools = {"t"}
    StaleTools = {"old"}
    MaxSwitches = 2
    MaxBuffer = 5
    MaxChunk = 2
    MaxBytes = 6
    Responses <- MCResponses
    ModelRetries = 1
    MaxDelta = 2
SPECIFICATION Spec
INVARIANTS RequestWellPaired TaskRegistryHolds SwitchesHold
    ResponseTextHolds
PROPERTIES StateChangesValid StopEndsQuery WaitersReturn SavedOrReported
CHECK_DEADLOCK FALSE
