SPECIFICATION Spec
CONSTANTS
    Joints = {j1, j2}
    Operators = {1, 2}
    MaxFaults = 3
    MaxCalls = 5
INVARIANTS EnabledPutBack DeviceFollowsHost OperatorsAttached DeathExplained
PROPERTIES ModeChangesAtRest
CHECK_DEADLOCK FALSE
