SPECIFICATION FairSpec
CONSTANTS
    Scenarios <- Mappings
    Maps = {"a", "b"}
    MaxChain = 2
    MaxClients = 4
    MaxFaults = 1
INVARIANTS HeaderFollows DevStateSound
PROPERTY CallsReturn
CHECK_DEADLOCK FALSE
