SPECIFICATION Spec
CONSTANTS
    p1 = p1
    p2 = p2
    Procs <- TwoProcs
    Calls <- BothCalls
    Founds <- NoneOrAll
    ClusterPrivileges <- SomePrivileges
    KeyKinds <- HashableOrNot
    Filters <- SomeFilters
INVARIANTS
    TypeOK
    ArgumentsArrive
    InternalMeansUnsent
    ToldIsTrue
