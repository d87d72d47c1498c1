SPECIFICATION Spec
CONSTANTS
    NB = NB
    NoBval = NB
    PARTITIONS = 3
    Records <- ScanRecords
    Filters <- InnerOf3
    MaxRecords = {0, 2}
    Recordsets = {r1}
    StreamCap = 3
    MaxFaults = 2
CHECK_DEADLOCK FALSE
INVARIANTS
    StatusHoldsOwnDigest
