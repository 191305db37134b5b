CONSTANTS
    s1 = s1
    s2 = s2
    s3 = s3
    Streams <- ThreeStreams
SPECIFICATION FairSpec
INVARIANTS
    TypeOK
    OneWriteAtATime
    NoStrandedWork
    AgreementOutsideRaces
PROPERTIES
    Reconnects
    ReplayCompletes
    UnsubsNotStarved
    ImplementsStreams
CHECK_DEADLOCK FALSE
