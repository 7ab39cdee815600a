SPECIFICATION FairSpec
CONSTANTS
    Keys = {k1}
    TIDs = {t1}
    Relation <- LoadedR
    Probers = {p1}
    Writers = {w1}
    Timer = timer
    Main = main
    NoThread = none
    TimerOn = TRUE
    DeltaThreshold = 2
    EpochModulus = 2
    MaxWrites = 2
    MaxProbes = 1
PROPERTY
    EventuallyVisible
