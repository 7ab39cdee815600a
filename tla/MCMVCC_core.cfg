SPECIFICATION FairSpec
CONSTANTS
    Keys = {k1}
    TIDs = {t1, t2}
    Relation <- LoadedR
    Probers = {p1, p2}
    Writers = {w1, w2}
    Collector = collector
    Main = main
    NoThread = none
    CollectorOn = TRUE
    MaxWrites = 2
    MaxProbes = 1
INVARIANTS
    TypeOK
    NoLostUpdate
    OneLiveVersion
    InOrderSnapshotRead
PROPERTIES
    CoveredProbesKeepAnswer
    QuietProbeExact
    WritesComplete
    ChainsShrink
