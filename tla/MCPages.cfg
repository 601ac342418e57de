CONSTANTS
    a = a
    b = b
    ToolIds = {a}
    Hooks = FALSE
    AutoCompact = FALSE
    MaxTurns = 2
    PreserveRecent = 1
    MemoryKeepRecent = 1
    MaxFailures = 1
    MaxPtlRetries = 1
    MaxStreamRetries = 1
    Restored <- Sessions
    MaxSent = 2
    MaxStops = 1
    MaxClears = 1
    Pages = {"p", "q"}
    MemoryIds = {"m"}
    MaxFaults = 1
    Deposit = 2
    Price = 1
    SendRetries = 1
    RedisFaults = TRUE
    Loads = {"l1", "l2"}
    MaxConfirms = 1
    MaxToggles = 1
    AdminRows = {"r", "s"}
    ListPages = {1, 2}
    Fetches = {"f", "g"}
    MaxSaves = 2
    TenantPages <- MCTenantPages
SPECIFICATION Spec
INVARIANTS MirrorAgrees ClearedForGood StopHitsShownQuery PagesHold ClearedStaysGone
PROPERTIES GrantStaysInItsTurn InputUnlocks
CHECK_DEADLOCK FALSE
