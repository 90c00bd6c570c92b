\* The deployed schedule and thresholds at a third of their hours, with every
\* fault, until they cease.
CONSTANTS
    None = None
    Period = 2
    StaleAfter = 8
    GreenBefore = 4
    RedFrom = 12
    PageAttempts = 3
    JsonAttempts = 4
    BackoffLimit = 2
SPECIFICATION FairSpec
INVARIANTS
    TypeOK
    QuietMeansFresh
    
PROPERTIES
    AlarmMeansStaleOrStampLost
    JobsEnd
    Recovers
