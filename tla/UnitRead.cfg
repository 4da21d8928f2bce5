SPECIFICATION Spec
CONSTANTS
    Values = {0, 1}
    InitValue = 0
    Calls = {"read_async", "read_async_unchecked"}
    Timeouts = {"ordinary", "negative"}
    Masked = FALSE
    Drifts = TRUE
    VersionMod = 2
    MaxCalls = 2
    Window = 2
INVARIANTS ReadDelivers
PROPERTIES ContractSpec
CHECK_DEADLOCK FALSE
