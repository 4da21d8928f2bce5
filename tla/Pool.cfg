SPECIFICATION LiveSpec
CONSTANTS
    Transfers = {t1, t2, t3, t4}
    RingSize = 4
    Types = {sdo, pdo}
    NoType = notype
    None = none
    Chunks = {0, 1, 3}
    Prefill = 2
    Crc = 1
    Block = 4
    MaxLength = 8
INVARIANTS EveryTransferOnce RecycleHasRoom FramesWellFormed
PROPERTIES FetchEnds DestroyEnds
CHECK_DEADLOCK FALSE
