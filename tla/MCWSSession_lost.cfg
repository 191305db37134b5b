CONSTANTS
    s1 = s1
    s2 = s2
    s3 = s3
    Streams <- TwoStreams
SPECIFICATION Spec
INVARIANT NoLostSubscription
CHECK_DEADLOCK FALSE
