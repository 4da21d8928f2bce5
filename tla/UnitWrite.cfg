SPECIFICATION LiveSpec
CONSTANTS
    Values = {0, 1}
    InitValue = 0
    Calls = {"write_async", "write_async_unchecked"}
    Timeouts = {"ordinary", "overflow"}
    Masked = FALSE
    Drifts = FALSE
    VersionMod = 3
    MaxCalls = 2
    Window = 1
INVARIANTS RetireLosesNothing OwnReply HonestWrite
PROPERTIES EveryCallCompletes
CHECK_DEADLOCK FALSE
