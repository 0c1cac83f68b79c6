SPECIFICATION ReloadSpec
CONSTANTS
    Reloads = {1}
    Runs = {1}
    MaxVersion = 1
INVARIANT ToolsFrozen
CHECK_DEADLOCK FALSE
