SPECIFICATION Spec
CONSTANTS
    Threads = {t1, t2}
    Keys = {1, 2}
    Root = root
    Object <- RootPage
    RetireThreshold = 2
    DeltaChainThreshold = 2
    MaxKeys = 3
    MaxOps = 4
    MaxClears = 1
INVARIANTS
    RootNeverFreed
    PageFromChain
PROPERTY
    IsDictionary
SYMMETRY Symmetry
\* The last operation ends the behaviour.
CHECK_DEADLOCK FALSE
