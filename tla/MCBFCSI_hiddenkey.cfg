SPECIFICATION Spec
CONSTANTS
    Keys = {1, 2, 3}
    TIDs = {t1}
    Relation <- LoadedR
    Probers = {}
    Writers = {w1, w2}
    NoThread = none
    NullKey = null
    Positions = {1, 2, 3}
    Hash <- TwoBits
    NumShards = 1
    NumSlots = 1
    ThresholdNum = 1
    ThresholdDen = 2
    MaxWrites = 3
    MaxProbes = 1
SYMMETRY Symmetry
INVARIANT
    FilterComplete
