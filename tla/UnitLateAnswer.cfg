SPECIFICATION Spec
CONSTANTS
    Values = {0, 1}
    InitValue = 0
    Calls = {"write_async"}
    Timeouts = {"overflow"}
    Masked = FALSE
    Drifts = FALSE
    VersionMod = 3
    MaxCalls = 2
    Window = 2
INVARIANTS HonestWrite
CHECK_DEADLOCK FALSE
