SPECIFICATION Spec
CONSTANTS
    NumObjs = 2
    ObjBlocks = 2
    Parent <- ParentData
    AllocSize = 1
    Extents <- IoExtents
    Slots = {s1, s2}
    MaxReqs = 2
    MaxFaults = 1
SYMMETRY Symmetry
INVARIANTS ReadsCommitted ContentKept SnapshotIntact IoStateSound
CHECK_DEADLOCK FALSE
