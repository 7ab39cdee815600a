SPECIFICATION Spec
CONSTANTS
    Keys = {1, 2, 3}
    BuildSizes = {1, 2}
    NumPartitions = 4
    PartitionOf <- Hash
    SampleSize = 1
    MinHotFrequency = 1
    NumThreads = 3
    MaxArgs = 2
    Warmups = 1
    Measurements = 2
    ThreadCounts <- Rounds
INVARIANTS
    JoinedOnce
    ReportTrue
    BaselineJoinsAgree
\* The program ends.
CHECK_DEADLOCK FALSE
