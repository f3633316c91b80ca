SPECIFICATION Spec
CONSTANTS
    Cases <- CrushCases
    First <- FirstMap
    Plans <- MapPlans
    Crushed <- CrushedTo
    Shies <- ShySets
    Raws <- RawGroups
    MapFaults = 1
    Layouts <- Layouts2
    Extents <- FileExtents
    Mappers = {a, b, c}
    MaxCpus = 2
    PageSize = 2
    HeadLen = 2
    EpilLen = 2
    BlockLen = 2
    TagLen = 1
    PreLen = 1
    OutCases <- Writes
    InCases <- Reads
INVARIANTS CrushSound OsdMapSound StripedExact PoolSound FramesSound
PROPERTY Retargeted
CHECK_DEADLOCK FALSE
