CONSTANTS
    MaxDelay = 1
    Scenarios <- Some
SPECIFICATION FairSpec
INVARIANTS SessionExact ConStateSound
PROPERTY Progress
CHECK_DEADLOCK FALSE
