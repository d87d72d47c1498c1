SPECIFICATION FairSpec
INVARIANTS CertainErrorHasNoEffect SuccessWasExecuted
PROPERTIES EveryCallReturns
CONSTANTS
    t1 = t1
    t2 = t2
    t3 = t3
    none = none
    None = none
    Threads <- MCThreads
    ClientOf <- MCClientOf
    Requests <- RetryRequests
    MaxCalls = 2
    MaxRetries = 1
    MaxCrashes = 1
