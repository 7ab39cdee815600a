SPECIFICATION Spec
CONSTANTS
    Threads = {w1, w2, r}
    Writers = {w1, w2}
    Keys = {1, 2, 3, 4}
    ByteOf <- TopByte
    Capacity <- NodeCapacity
    Object <- Objects
    RetireThreshold = 2
    MaxOps = 3
    MaxClears = 1
INVARIANTS
    GracePeriod
    NodesInUseLive
    OnlyLosersDangle
    DuplicateAfterMiss
    SizeCountsSlots
PROPERTY
    RSpec
SYMMETRY Symmetry
\* The last operation ends the behaviour.
CHECK_DEADLOCK FALSE
