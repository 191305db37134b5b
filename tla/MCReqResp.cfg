CONSTANTS
    c1 = c1
    c2 = c2
    Requests <- SharedIds
    MaxSent = 3
    MaxCrashes = 1
SPECIFICATION FairSpec
INVARIANTS
    TypeOK
    AnswerReachesItsAsker
    BookedIsOnItsWay
PROPERTIES
    OvertakenOnlyInRace
    EveryRequestSettled
CHECK_DEADLOCK FALSE
