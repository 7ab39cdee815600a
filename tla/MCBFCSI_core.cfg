SPECIFICATION Spec
CONSTANTS
    Keys = {1, 2, 3}
    TIDs = {t1}
    Relation <- LoadedR
    Probers = {p1}
    Writers = {w1, w2}
    NoThread = none
    NullKey = null
    Positions = {1, 2, 3}
    Hash <- TwoBits
    NumShards = 2
    NumSlots = 2
    ThresholdNum = 1
    ThresholdDen = 2
    MaxWrites = 3
    MaxProbes = 2
SYMMETRY Symmetry
INVARIANTS
    TypeOK
    FilterHidesOverlapped
    CacheHidesLate
    RebuildsExclude
PROPERTY
    MissJustified
