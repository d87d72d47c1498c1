SPECIFICATION FairSpec
CONSTANTS
    s1 = s1
    s2 = s2
    s3 = s3
    Streams <- MCThree
    StreamWindow = 1
    ConnWindow = 3
    MaxRecords = 2
INVARIANTS OnlyUnreadBlocks
PROPERTIES BlockedCallReturns CallSignalsServer
