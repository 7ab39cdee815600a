------------------------------ MODULE SkewJoin ------------------------------
(***************************************************************************)
(* SkewAwareJoinExecutor: both relations are split into partitions by the  *)
(* hash of the key, frequent keys are detected in a sample, and threads    *)
(* take every NumThreads-th partition each.  In a partition with a hot key *)
(* the hot keys are joined by scanning, all others ask the index first.    *)
(*                                                                         *)
(* The executor writes its shared state before it starts the threads, which *)
(* write to a vector each, so a partition is one step of a thread.          *)
(* The index is an ARTIndex at rest: all keys of a dataset are below 2^56  *)
(* and share their top byte, so it has one slot (module ART).              *)
(***************************************************************************)
EXTENDS BaselineJoin, FiniteSetsExt

CONSTANTS
    Keys,            \* the join keys
    BuildSizes,      \* the sizes of datasets tried (dataset_size)
    NumPartitions,   \* NUM_PARTITIONS (64)
    PartitionOf,     \* key -> hash64(key) % NUM_PARTITIONS
    SampleSize,      \* SAMPLE_SIZE (10000)
    MinHotFrequency, \* the threshold of a hot key in the sample (100)
    NumThreads       \* config_.num_threads

Partitions == 0 .. NumPartitions - 1
Workers    == 0 .. NumThreads - 1

ASSUME SkewAssumption ==
    /\ IsFiniteSet(Keys)
    /\ BuildSizes \subseteq Nat
    /\ NumPartitions \in Nat \ {0}
    /\ PartitionOf \in [Keys -> Partitions]
    /\ SampleSize \in Nat \ {0}
    /\ MinHotFrequency \in Nat \ {0}
    /\ NumThreads \in Nat \ {0}

VARIABLES
    build, probe,    \* the relations, as sequences of keys
    index,           \* the slot of the index: << >> or <<key, value>>
    buildParts,      \* build_partitions_, as sequences of positions
    probeParts,      \* probe_partitions_, likewise
    hot,             \* hot_keys_
    hotCount,        \* partition -> partition_stats_[p].hot_key_count
    sampled,         \* sampling_complete_
    work,            \* thread -> thread_work_counts_
    at,              \* thread -> the next partition it takes
    out              \* thread -> thread_results, a bag

relations == <<build, probe>>
joinVars  == <<index, buildParts, probeParts, hot, hotCount,
               sampled, work, at, out>>

-----------------------------------------------------------------------------
\* ARTIndex::insert into the only slot: the key is there, or it is replaced.
ArtInsert(slot, k, v) == IF slot # << >> /\ slot[1] = k THEN slot ELSE <<k, v>>

ArtIndex(relation) ==
    LET Upto[n \in 0 .. Len(relation)] ==
            IF n = 0 THEN << >> ELSE ArtInsert(Upto[n - 1], relation[n], n)
    IN  Upto[Len(relation)]

ArtHas(k) == index # << >> /\ index[1] = k

\* generateDataset: any relations of dataset_size and twice that size.
GenerateDataset ==
    \E n \in BuildSizes :
        /\ build \in [1 .. n -> Keys]
        /\ probe \in [1 .. 2 * n -> Keys]

NoPartitions == [p \in Partitions |-> << >>]
NoCounts     == [p \in Partitions |-> 0]
NoWork       == [w \in Workers |-> 0]

ExecutorInit ==
    /\ GenerateDataset
    /\ index = << >>
    /\ buildParts = NoPartitions /\ probeParts = NoPartitions
    /\ hot = {} /\ sampled = FALSE
    /\ hotCount = NoCounts
    /\ work = NoWork
    /\ at = [w \in Workers |-> NumPartitions]
    /\ out = [w \in Workers |-> EmptyBag]

-----------------------------------------------------------------------------
(* Plausible bug: sampling_complete_ is left set. *)
ForgetfulReset ==
    /\ hotCount' = NoCounts
    /\ hot' = {}
    /\ buildParts' = NoPartitions /\ probeParts' = NoPartitions
    /\ work' = NoWork
    /\ UNCHANGED <<relations, index, sampled, at, out>>

Reset ==
    /\ hotCount' = NoCounts
    /\ hot' = {} /\ sampled' = FALSE
    /\ buildParts' = NoPartitions /\ probeParts' = NoPartitions
    /\ work' = NoWork
    /\ UNCHANGED <<relations, index, at, out>>

\* buildIndex, into a new index.
BuildIndex ==
    /\ index' = ArtIndex(build)
    /\ UNCHANGED <<relations, buildParts, probeParts, hot, hotCount, sampled, work, at, out>>

\* getPartition: what hot_keys_ notes of a key is the same hash.
GetPartition(k) == PartitionOf[k]

\* The positions of the tuples that belong to a partition.
Positions(relation, p) ==
    LET Upto[n \in 0 .. Len(relation)] ==
            IF n = 0 THEN << >>
            ELSE IF GetPartition(relation[n]) = p THEN Append(Upto[n - 1], n)
            ELSE Upto[n - 1]
    IN  Upto[Len(relation)]

PartitionRelations ==
    /\ buildParts' = [p \in Partitions |-> buildParts[p] \o Positions(build, p)]
    /\ probeParts' = [p \in Partitions |-> probeParts[p] \o Positions(probe, p)]
    /\ UNCHANGED <<relations, index, hot, hotCount, sampled, work, at, out>>

\* The keys of every step-th tuple of a partition, and how often they occur.
SampleCount(part, k) ==
    LET step == Max({1, Len(part) \div SampleSize})
    IN  Cardinality({i \in DOMAIN part : (i - 1) % step = 0 /\ build[part[i]] = k})

\* sampleAndDetectHotKeys looks at build_partitions_[0]: the vector of
\* partitions is never empty.
DetectHotKeys ==
    LET found == {k \in Keys : SampleCount(buildParts[0], k) >= MinHotFrequency}
    IN  IF sampled
        THEN UNCHANGED <<hot, hotCount, sampled>>
        ELSE /\ hot' = hot \cup found
             /\ hotCount' = [p \in Partitions |->
                    hotCount[p] + Cardinality({k \in found : GetPartition(k) = p})]
             /\ sampled' = TRUE

-----------------------------------------------------------------------------
\* A result of a hot key has the value of the probe tuple, one that went
\* through the index the value of the index.
HotResult(b, p)   == [build |-> b, right |-> <<"probe", p>>]
IndexResult(b, p) == [build |-> b, right |-> <<"index", index[2]>>]

\* The results of a partition in executeSkewAwareJoin: in one with a hot key,
\* hot keys are joined first and the others after them.
SkewResults(part) ==
    LET b(ij)   == buildParts[part][ij[1]]
        p(ij)   == probeParts[part][ij[2]]
        pairs   == {ij \in (DOMAIN buildParts[part]) \X (DOMAIN probeParts[part]) :
                        build[b(ij)] = probe[p(ij)]}
        scanned == {ij \in pairs : hotCount[part] > 0 /\ build[b(ij)] \in hot}
        asked   == {ij \in pairs \ scanned : ArtHas(build[b(ij)])}
    IN  Vector([ij \in scanned \cup asked |->
                   IF ij \in scanned THEN HotResult(b(ij), p(ij))
                                     ELSE IndexResult(b(ij), p(ij))])

\* The threads start, each with the partition of its number.
SpawnWorkers ==
    /\ DetectHotKeys
    /\ at' = [w \in Workers |-> w]
    /\ out' = [w \in Workers |-> EmptyBag]
    /\ UNCHANGED <<relations, index, buildParts, probeParts, work>>

(* Plausible bug: a thread takes the next partition. *)
CrowdedSkewWorker(w) ==
    /\ at[w] < NumPartitions
    /\ out' = [out EXCEPT ![w] = @ (+) SkewResults(at[w])]
    /\ at' = [at EXCEPT ![w] = @ + 1]
    /\ work' = [work EXCEPT ![w] = @ + NumResults(SkewResults(at[w]))]
    /\ UNCHANGED <<relations, index, buildParts, probeParts, hot, hotCount, sampled>>

SkewWorker(w) ==
    /\ at[w] < NumPartitions
    /\ out' = [out EXCEPT ![w] = @ (+) SkewResults(at[w])]
    /\ at' = [at EXCEPT ![w] = @ + NumThreads]
    /\ work' = [work EXCEPT ![w] = @ + NumResults(SkewResults(at[w]))]
    /\ UNCHANGED <<relations, index, buildParts, probeParts, hot, hotCount, sampled>>

Joined(w) == at[w] >= NumPartitions

SkewDone == \A w \in Workers : Joined(w)

SkewJoinResult == Collected(out, NumThreads)
=============================================================================
