CONSTANTS
    p1 = p1
    p2 = p2
    k1 = k1
    k2 = k2
    d1 = d1
    d2 = d2
    Partitions <- TwoPartitions
    Keys <- TwoKeys
    Dests <- TwoDests
    PartitionOf <- OneOnEach
    MaxCommands = 1
    MaxRebalances = 3
SPECIFICATION Spec
INVARIANT DownloadHasAnswerComing
CHECK_DEADLOCK FALSE
