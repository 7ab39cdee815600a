SPECIFICATION FairSpec
CONSTANTS
    Keys = {k1}
    TIDs = {t1}
    Relation <- LoadedR
    Probers = {p1}
    Writers = {w1, w2}
    Timer = timer
    Main = main
    NoThread = none
    TimerOn = TRUE
    DeltaThreshold = 2
    EpochModulus = 2
    MaxWrites = 3
    MaxProbes = 1
INVARIANTS
    TransitionExclusive
    MapIsPrefix
    NoWriteLost
    DeltaBound
    TriggeringWriteVisible
    DestructorDrains
PROPERTIES
    ImplementsStaleIndex
    ProbesReturn
    PublishedOrOverslept
