CONSTANTS
    a = a
    b = b
    ToolIds = {a}
    Hooks = FALSE
    AutoCompact = FALSE
    MaxTurns = 2
    PreserveRecent = 1
    MemoryKeepRecent = 1
    MaxFailures = 1
    MaxPtlRetries = 1
    MaxStreamRetries = 1
    Restored <- Sessions
    MaxSent = 2
    MaxStops = 1
    MaxClears = 1
SPECIFICATION ChatSpec
PROPERTY ClearWaitsForKernel
CHECK_DEADLOCK FALSE
