CONSTANTS
    NoStream = NoStream
    Streams = {"btc@trade"}
    Subscriptions <- Shared
    StreamOf <- Lower
    UpdateKey <- Upper
    MaxTasks = 2
SPECIFICATION FairSpec
INVARIANTS
    TypeOK
    NoStalePrice
    BookKept
PROPERTY EventuallyPriced
CHECK_DEADLOCK FALSE
