SPECIFICATION LiveSpec
CONSTANTS
    Values = {0, 1}
    InitValue = 0
    Calls = {"write_async"}
    Timeouts = {"ordinary"}
    Masked = TRUE
    Drifts = FALSE
    VersionMod = 3
    MaxCalls = 1
    Window = 1
PROPERTIES ToldExactlyOnce
CHECK_DEADLOCK FALSE
