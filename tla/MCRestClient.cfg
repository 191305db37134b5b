CONSTANTS
    MaxRequests = 3
    Bodies <- AnyBody
SPECIFICATION FairSpec
INVARIANTS
    TypeOK
    OneOperationForFront
    NoStalledQueue
    RetryArmed
PROPERTIES
    EverySnapshotAnswered
    ImplementsService
CHECK_DEADLOCK FALSE
