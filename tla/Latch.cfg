SPECIFICATION LiveSpec
CONSTANTS
    Ops = {o1, o2, o3}
    MaxStarts = 5
INVARIANTS ReturnsWhenDone NoLostWakeUp
PROPERTIES BarrierSpec WaitReturns
CHECK_DEADLOCK FALSE
