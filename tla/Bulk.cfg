SPECIFICATION LiveSpec
CONSTANTS
    RawMax = 3
    Scale = 2
    Masks <- MCMasks
    Calls <- MCCalls
    MaxCalls = 2
    Window = 2
INVARIANTS LatchOutlivesCalls WaitMeansDone SilentJoints LayoutSound ConversionsSound
PROPERTY BulkReturns
CHECK_DEADLOCK FALSE
