CONSTANTS
    p1 = p1
    p2 = p2
    k1 = k1
    k2 = k2
    d1 = d1
    d2 = d2
    Partitions <- OnePartition
    Keys <- OneKey
    Dests <- TwoDests
    PartitionOf <- AllOnOne
    MaxCommands = 4
    MaxRebalances = 3
SPECIFICATION FairSpec
INVARIANTS
    TypeOK
    DeferredOnlyWhileDownloading
    InStep
    ReplayLeadsToBook
PROPERTY DownloadEnds
CHECK_DEADLOCK FALSE
