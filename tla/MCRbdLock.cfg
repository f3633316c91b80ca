SPECIFICATION Spec
CONSTANTS
    c1 = c1
    c2 = c2
    Client = {c1, c2}
    Exclusive = {}
    MaxReqs = 1
    MaxWatches = 2
    MaxFaults = 1
SYMMETRY Symmetry
INVARIANTS OneOwner IoUnderLock LockStateSound
CHECK_DEADLOCK FALSE
