SPECIFICATION Spec
CONSTANTS
    NB = NB
    NoBval = NB
    PARTITIONS = 2
    Records <- QueryRecords
    Filters <- AllOf2
    MaxRecords = {0}
    Recordsets = {r1, r2}
    StreamCap = 2
    MaxFaults = 1
SYMMETRY Symmetry
CHECK_DEADLOCK FALSE
INVARIANTS
    TypeOK
    CursorSound
    StreamInOrder
