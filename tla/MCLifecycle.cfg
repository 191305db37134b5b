SPECIFICATION FairSpec
INVARIANTS
    TypeOK
    StartedLoopEndsFirst
    LifecycleAnnounced
PROPERTIES
    StopEndsProcess
    DestructorReturns
CHECK_DEADLOCK FALSE
