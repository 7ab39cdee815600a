SPECIFICATION FairSpec
CONSTANTS
    Threads = {w1, w2}
    Writers = {w1, w2}
    Keys = {1, 2}
    ByteOf <- TopByte
    Capacity <- NodeCapacity
    Object <- Objects
    RetireThreshold = 2
    MaxOps = 4
    MaxClears = 0
PROPERTY
    EveryPutEnds
\* The last operation ends the behaviour.
CHECK_DEADLOCK FALSE
