SPECIFICATION Spec
INVARIANTS DeleteTellsExistence
CONSTANTS
    t1 = t1
    t2 = t2
    t3 = t3
    none = none
    None = none
    Threads <- MCThreads
    ClientOf <- MCClientOf
    Requests <- DeleteRequests
    MaxCalls = 2
    MaxRetries = 0
    MaxCrashes = 1
