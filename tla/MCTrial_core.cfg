SPECIFICATION Spec
CONSTANTS
    k1 = k1
    k2 = k2
    Keys = {k1, k2}
    TIDs = {t1, t2}
    Relation <- LoadedR
    S <- ThreeProbes
    NumProbeThreads = 2
    NumWriteThreads = 2
    Timed = FALSE
    NoThread = none
    MaxWrites = 2
INVARIANTS
    TuplesProbedOnce
    CountsAgree
    IndexOutlivesThreads
    JoinBetween
PROPERTY
    TrialEnds
