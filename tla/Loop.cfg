SPECIFICATION LiveSpec
CONSTANTS
    Devices = {d1, d2, d3, d4}
    Matching = {d1, d2, d3}
INVARIANTS InitAllOrNothing FreedAtRest StuckOnlyByRace
PROPERTIES ShutdownEnds
CHECK_DEADLOCK FALSE
