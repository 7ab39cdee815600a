SPECIFICATION Spec
CONSTANTS
    Keys = {1, 2, 3}
    BuildSizes = {1, 2}
    NumPartitions = 4
    PartitionOf <- Hash
    SampleSize = 1
    MinHotFrequency = 1
    NumThreads = 3
    MaxArgs = 0
    Warmups = 0
    Measurements = 1
    ThreadCounts <- Rounds
INVARIANT EveryPairJoined
\* The program ends.
CHECK_DEADLOCK FALSE
