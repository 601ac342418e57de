CONSTANTS
    a = a
    b = b
    ToolIds = {a}
    Hooks = TRUE
    AutoCompact = FALSE
    MaxTurns = 2
    PreserveRecent = 1
    MemoryKeepRecent = 1
    MaxFailures = 1
    MaxPtlRetries = 1
    MaxStreamRetries = 1
    Restored <- FreshOnly
    MaxSent = 2
    MaxStops = 1
SPECIFICATION KernelSpec
PROPERTY PresetStopKept
CHECK_DEADLOCK FALSE
