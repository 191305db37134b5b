CONSTANTS
    p1 = p1
    p2 = p2
    k1 = k1
    k2 = k2
    d1 = d1
    d2 = d2
    Partitions <- OnePartition
    Keys <- TwoKeys
    Dests <- TwoDests
    PartitionOf <- AllOnOne
    MaxCommands = 3
    MaxRebalances = 1
SPECIFICATION Spec
INVARIANT EveryDestinationServed
CHECK_DEADLOCK FALSE
