SPECIFICATION FairSpec
CONSTANTS
    Daemons = {d1, d2}
    Clusters = {c1, c2}
    NoFile = NoFile
    Stale = Stale
    MaxFaults = 3
INVARIANTS
    TypeOK
    ServedIsReachable
    QuietExitLeavesNoFile
PROPERTIES
    PathLostOnlyToCleanUp
    SignalledEnds
    AllServedInTheEnd
CHECK_DEADLOCK FALSE
