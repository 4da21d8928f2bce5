SPECIFICATION LiveSpec
CONSTANTS
    N = 2
    MaxFrames = 2
    MaxSets = 1
    MaxSessions = 2
    Pending = 2
INVARIANTS NeverStepsBlind StepSeesFinishedSets
PROPERTIES PositionsAdvance DetachReturns
CHECK_DEADLOCK FALSE
