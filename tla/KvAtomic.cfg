SPECIFICATION Spec
INVARIANTS TypeOK
PROPERTIES Atomic
CONSTANTS
    t1 = t1
    t2 = t2
    t3 = t3
    none = none
    None = none
    Threads <- MCThreads
    ClientOf <- MCClientOf
    Requests <- AllRequests
    MaxCalls = 2
    MaxRetries = 0
    MaxCrashes = 1
