SPECIFICATION FairSpec
CONSTANTS
    NB = NB
    NoBval = NB
    PARTITIONS = 3
    Records <- ScanRecords
    Filters <- WholeOf3
    MaxRecords = {0, 2}
    Recordsets = {r1}
    StreamCap = 3
    MaxFaults = 3
INVARIANTS
    StatusHoldsOwnDigest
    LastPageComplete
PROPERTIES
    CursorNeverMovesBack
    ExactlyOnce
    EveryRecordArrives
