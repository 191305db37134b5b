CONSTANT MaxChanges = 4
SPECIFICATION FairSpec
INVARIANTS
    TypeOK
    CurrentUnlessOvertaken
    DetailTrue
    NeverInit
PROPERTY Converges
CHECK_DEADLOCK FALSE
