SPECIFICATION FairSpec
CONSTANTS
    t1 = t1
    t2 = t2
    t3 = t3
    none = none
    Threads <- MCThreads3
    VERSION = 1
    Versions <- MCVersions
    MaxStarts = 2
    None = none
INVARIANTS MismatchOnlyAfterRestart
PROPERTIES ConnectReturns OneClientInTheEnd HandleRecovers
