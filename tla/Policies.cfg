SPECIFICATION Spec
CONSTANTS
    Classes <- AllClasses
    Seconds = {60}
    Timeouts = {0, 4294, 4295, 10000}
    Numbers = {0, 2}
    MaxSets = 2
INVARIANTS
    TypeOK
    GetReturnsLastSet
    CommandKeepsItsPolicy
    AdminTimeoutFits
