SPECIFICATION FairSpec
CONSTANTS
    Services <- OnlyOsd
    Scenarios <- Some
    MaxMult = 3
    MaxIn = 2
INVARIANTS MonStateSound
PROPERTIES CallersReturn OsdAuthorized
CHECK_DEADLOCK FALSE
