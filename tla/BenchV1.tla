------------------------------ MODULE BenchV1 ------------------------------
(***************************************************************************)
(* The v1 program: main reads its arguments, and BenchmarkRunner runs the  *)
(* benchmarks they select one after the other - the locked index, the ART  *)
(* index, the skew-aware join - or the scalability test, and prints a      *)
(* table.  The indexes of the first two see one thread; their data is the  *)
(* build relation, made from the same seed.  Times are left out.           *)
(***************************************************************************)
EXTENDS SkewJoin

CONSTANTS
    MaxArgs,        \* bound: arguments on the command line
    Warmups,        \* warmup_iterations
    Measurements,   \* measurement_iterations
    ThreadCounts    \* the rounds of the scalability test

ASSUME BenchAssumption ==
    /\ MaxArgs \in Nat
    /\ Warmups \in Nat
    /\ Measurements \in Nat \ {0}
    /\ ThreadCounts \in Seq(Nat \ {0})

Flags == {"--baseline", "--concurrent", "--skew-aware", "--all",
          "--scalability", "--help"}

VARIABLES
    args,        \* what is left of the command line
    config,      \* the benchmarks selected
    pc,          \* where the program is
    iter,        \* iterations of the present benchmark done
    total,       \* its total_ops
    results,     \* results_
    printed,     \* the table
    completed    \* the counts of the scalability test

benchVars == <<args, config, pc, iter, total, results, printed, completed>>
vars == <<benchVars, relations, joinVars>>

AllBenchmarks == [baseline |-> TRUE, concurrent |-> TRUE, skewAware |-> TRUE,
                  scalability |-> FALSE]

Init ==
    /\ ExecutorInit
    /\ args \in UNION {[1 .. n -> Flags] : n \in 0 .. MaxArgs}
    /\ config = AllBenchmarks
    /\ pc = "parse"
    /\ iter = 0 /\ total = 0
    /\ results = << >> /\ printed = << >> /\ completed = << >>

-----------------------------------------------------------------------------
\* An "only" flag clears the other two and sets nothing.
Selected(flag) ==
    CASE flag = "--baseline" ->
            [config EXCEPT !.concurrent = FALSE, !.skewAware = FALSE]
      [] flag = "--concurrent" ->
            [config EXCEPT !.baseline = FALSE, !.skewAware = FALSE]
      [] flag = "--skew-aware" ->
            [config EXCEPT !.baseline = FALSE, !.concurrent = FALSE]
      [] flag = "--all" ->
            [AllBenchmarks EXCEPT !.scalability = config.scalability]
      [] flag = "--scalability" -> [config EXCEPT !.scalability = TRUE]
      [] OTHER -> config

ParseArg ==
    /\ pc = "parse" /\ args # << >>
    /\ config' = Selected(Head(args))
    /\ args' = Tail(args)
    /\ pc' = IF Head(args) = "--help" THEN "end" ELSE "parse"
    /\ UNCHANGED <<iter, total, results, printed, completed, relations, joinVars>>

StartSuite ==
    /\ pc = "parse" /\ args = << >>
    /\ pc' = IF config.scalability THEN "scalability" ELSE "baseline"
    /\ UNCHANGED <<args, config, iter, total, results, printed, completed,
                   relations, joinVars>>

-----------------------------------------------------------------------------
Selects(bench) ==
    CASE bench = "baseline" -> config.baseline
      [] bench = "art"      -> config.concurrent
      [] bench = "skew"     -> config.skewAware

After(bench) ==
    CASE bench = "baseline" -> "art"
      [] bench = "art"      -> "skew"
      [] bench = "skew"     -> "report"

Benchmarks == {"baseline", "art", "skew"}

Skip ==
    /\ pc \in Benchmarks /\ ~ Selects(pc)
    /\ pc' = After(pc)
    /\ UNCHANGED <<args, config, iter, total, results, printed, completed,
                   relations, joinVars>>

\* The benchmark of an index: every iteration fills a new one with the data,
\* a measured one finds every tuple of it.  Neither index can fail here.
IndexIteration ==
    /\ pc \in {"baseline", "art"} /\ Selects(pc)
    /\ iter < Warmups + Measurements
    /\ iter' = iter + 1
    /\ total' = IF iter < Warmups THEN total ELSE total + Len(build)
    /\ UNCHANGED <<args, config, pc, results, printed, completed,
                   relations, joinVars>>

\* A result is the mean of the iterations.
Finish ==
    /\ pc \in Benchmarks /\ Selects(pc)
    /\ iter = Warmups + Measurements
    /\ results' = Append(results, [bench |-> pc,
                                   operations |-> total \div Measurements])
    /\ pc' = After(pc)
    /\ iter' = 0 /\ total' = 0
    /\ UNCHANGED <<args, config, printed, completed, relations, joinVars>>

\* An iteration of the join benchmark: reset, build, and if it is measured
\* partition, detect, join, count.
SkewGoTo(from, to) ==
    /\ pc = from
    /\ pc' = to
    /\ UNCHANGED <<args, config, results, printed, completed>>

SkewReset ==
    /\ SkewGoTo("skew", "build")
    /\ Selects("skew") /\ iter < Warmups + Measurements
    /\ Reset
    /\ UNCHANGED <<iter, total>>

SkewBuild ==
    /\ SkewGoTo("build", IF iter < Warmups THEN "skew" ELSE "partition")
    /\ iter' = IF iter < Warmups THEN iter + 1 ELSE iter
    /\ BuildIndex
    /\ UNCHANGED total

SkewPartition ==
    /\ SkewGoTo("partition", "spawn")
    /\ PartitionRelations
    /\ UNCHANGED <<iter, total>>

SkewSpawn ==
    /\ SkewGoTo("spawn", "join")
    /\ SpawnWorkers
    /\ UNCHANGED <<iter, total>>

SkewWork ==
    /\ pc = "join"
    /\ \E w \in Workers : SkewWorker(w)
    /\ UNCHANGED benchVars

SkewJoined ==
    /\ SkewGoTo("join", "skew")
    /\ SkewDone
    /\ total' = total + NumResults(SkewJoinResult)
    /\ iter' = iter + 1
    /\ UNCHANGED <<relations, joinVars>>

-----------------------------------------------------------------------------
\* printResults names the rows by their place.
Names == <<"baseline", "art", "skew">>

Report ==
    /\ pc = "report"
    /\ printed' = [i \in DOMAIN results |-> [label |-> Names[i], row |-> results[i]]]
    /\ pc' = "end"
    /\ UNCHANGED <<args, config, iter, total, results, completed, relations, joinVars>>

\* A round of the scalability test: each thread inserts and finds its chunk of
\* the data and counts twice the size of a chunk.  Two threads may lock the
\* only node of the index for good (module ART), and the round has no end.
ScalabilityRound ==
    /\ pc = "scalability" /\ Len(completed) < Len(ThreadCounts)
    /\ LET threads == ThreadCounts[Len(completed) + 1]
       IN  \/ /\ completed' = Append(completed,
                                threads * (2 * (Len(build) \div threads)))
              /\ UNCHANGED pc
           \/ /\ threads > 1
              /\ pc' = "stalled"
              /\ UNCHANGED completed
    /\ UNCHANGED <<args, config, iter, total, results, printed, relations, joinVars>>

ScalabilityEnds ==
    /\ pc = "scalability" /\ Len(completed) = Len(ThreadCounts)
    /\ pc' = "end"
    /\ UNCHANGED <<args, config, iter, total, results, printed, completed,
                   relations, joinVars>>

Next ==
    \/ ParseArg \/ StartSuite \/ Skip
    \/ IndexIteration \/ Finish
    \/ SkewReset \/ SkewBuild \/ SkewPartition \/ SkewSpawn \/ SkewWork
    \/ SkewJoined
    \/ Report \/ ScalabilityRound \/ ScalabilityEnds

Spec == Init /\ [][Next]_vars

-----------------------------------------------------------------------------
\* The positions of the tuples of all results of an iteration, from the
\* relations alone: the keys that are hot, with the value of the probe tuple,
\* and the last key that was built, with the value of the index.
ExpectedJoin ==
    LET pairs == {bp \in (DOMAIN build) \X (DOMAIN probe) : build[bp[1]] = probe[bp[2]]}
        Result(bp) == IF build[bp[1]] \in hot THEN HotResult(bp[1], bp[2])
                                              ELSE IndexResult(bp[1], bp[2])
        last == build[Len(build)]
    IN  Vector([bp \in {bp \in pairs : build[bp[1]] \in hot \cup {last}} |-> Result(bp)])

\* The tuples that match a tuple of the build relation.
Matches(b) == {p \in DOMAIN probe : probe[p] = build[b]}

\* A result has the value of a tuple of its own key.
OfOneKey(r) ==
    LET relation == IF r.right[1] = "probe" THEN probe ELSE build
    IN  r.right[2] \in DOMAIN relation /\ relation[r.right[2]] = build[r.build]

\* How often a result is in a vector.
Copies(r, vector) == IF r \in DOMAIN vector THEN vector[r] ELSE 0

\* The threads, which share the partitions by stride and write a vector each,
\* lose no pair they can find and add none: a tuple of a hot key is joined with
\* each of its matches once, a tuple of a key that the index still has once for
\* each match, and no result mixes keys (skew_aware_join.hpp:252-319).  Which
\* keys the index still has is another matter: EveryPairJoined.
JoinedOnce ==
    (pc = "join" /\ SkewDone) =>
        /\ \A r \in DOMAIN SkewJoinResult :
              OfOneKey(r) /\ Copies(r, SkewJoinResult) <= Cardinality(Matches(r.build))
        /\ \A b \in DOMAIN build : \A p \in Matches(b) :
              IF build[b] \in hot
              THEN Copies(HotResult(b, p), SkewJoinResult) = 1
              ELSE ArtHas(build[b]) =>
                     Copies(IndexResult(b, p), SkewJoinResult) = Cardinality(Matches(b))

\* What the design says of the join: hot keys are joined inside their partition
\* and all others through the index of the whole build relation
\* (ref-docs/SYSTEM_DESIGN.md:178-180), so that no matching pair is lost.  The
\* index keeps one key of those that were built (concurrent_index.hpp:332).
EveryPairJoined ==
    (pc = "join" /\ SkewDone) =>
        NumResults(SkewJoinResult) = NumResults(ExecuteHashJoin(build, probe))

\* Nothing of an iteration is left in the next: a row shows what one iteration
\* does, which is the same in all of them (skew_aware_join.hpp:335).
ReportTrue ==
    \A i \in DOMAIN printed :
        LET row == printed[i].row
        IN  row.operations = IF row.bench = "skew" THEN NumResults(ExpectedJoin)
                             ELSE Len(build)

\* The baseline joins agree: any number of threads finds what one thread
\* finds (baseline_join.hpp:73), which is what the hash join finds with the
\* first tuple of each key, also when the tuples do not divide evenly.
BaselineJoinsAgree ==
    LET table == LockedIndex(build)
        one   == ExecuteJoin(table, probe)
        first == {i \in DOMAIN build : \A j \in 1 .. i - 1 : build[j] # build[i]}
    IN  /\ \A n \in Workers : ExecuteJoinParallel(table, probe, n + 1) = one
        /\ BagToSet(one) = {bp \in BagToSet(ExecuteHashJoin(build, probe)) : bp[1] \in first}
=============================================================================
