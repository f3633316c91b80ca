SPECIFICATION FairSpec
CONSTANTS
    NumOsds = 2
    NumSlots = 6
    MaxFaults = 1
    Locality <- Nearest
    Scenarios <- Workloads
INVARIANTS EffectsExact ClientStateSound
PROPERTIES RequestsComplete LossReported
CHECK_DEADLOCK FALSE
