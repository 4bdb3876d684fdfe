CONSTANTS
    MaxTime = 2
    MaxWrites = 2
    QueueSize = 1
    Retain = 1
    IOErrors = TRUE
SPECIFICATION FairSpec
INVARIANTS StartsFromPublished SavedSurvives ShutdownCovers
PROPERTY ShutdownEnds
CHECK_DEADLOCK FALSE
