SPECIFICATION Spec
CONSTANTS
    Elems = {a, b}
    Raw = raw
    Size = 4
    CounterMod = 8
INVARIANTS SlotsExclusive NothingLeaks NoMissedData
PROPERTIES FifoSpec
CHECK_DEADLOCK TRUE
