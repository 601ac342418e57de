CONSTANTS
    Accounts = {"A", "B"}
    NoAccount = "-"
    SwitchTools = {"t"}
    StaleTools = {"old"}
    MaxSwitches = 2
SPECIFICATION ToolStatesSpec
INVARIANT OwnersKeptApart
CHECK_DEADLOCK FALSE
