---------------------------- MODULE BaselineJoin ----------------------------
(***************************************************************************)
(* The v1 baselines: BaselineLockedIndex, a map under one reader-writer    *)
(* lock whose insert keeps the value that is there, and the joins of       *)
(* BaselineNaiveJoin over it.                                              *)
(*                                                                         *)
(* A relation is the sequence of its keys; the value of a tuple is its     *)
(* position.  A join result is <<build position, probe position>>, and a   *)
(* result vector is the bag of its elements: no caller looks at the order. *)
(***************************************************************************)
EXTENDS Integers, Sequences, FiniteSets, Bags, Functions

EmptyIndex == << >>

Has(index, k) == k \in DOMAIN index

\* BaselineLockedIndex::insert answers EXISTS and keeps the first value.
LockedInsert(index, k, v) ==
    IF Has(index, k) THEN index
    ELSE [j \in DOMAIN index \cup {k} |-> IF j = k THEN v ELSE index[j]]

\* buildIndex
LockedIndex(build) ==
    LET Upto[n \in 0 .. Len(build)] ==
            IF n = 0 THEN EmptyIndex ELSE LockedInsert(Upto[n - 1], build[n], n)
    IN  Upto[Len(build)]

\* The results of the probe tuples at the positions of a set, in one thread.
Probed(index, probe, positions) ==
    SetToBag({<<index[probe[i]], i>> : i \in {j \in positions : Has(index, probe[j])}})

\* The vector with the result f[z] for each z that was joined.
Vector(f) == [r \in Range(f) |-> Cardinality({z \in DOMAIN f : f[z] = r})]

\* How many results are in a vector.
NumResults(vector) == Cardinality(UNION {{r} \X (1 .. vector[r]) : r \in DOMAIN vector})

\* The vectors of the threads, one after the other.
Collected(vectors, threads) ==
    LET Upto[n \in 0 .. threads] ==
            IF n = 0 THEN EmptyBag ELSE Upto[n - 1] (+) vectors[n - 1]
    IN  Upto[threads]

ExecuteJoin(index, probe) == Probed(index, probe, DOMAIN probe)

(* Plausible bug: the last thread takes no more than the others. *)
EvenChunk(n, threads, t) == {i \in 1 .. n : i > t * (n \div threads)
                                         /\ i <= (t + 1) * (n \div threads)}

\* The share of thread t of n tuples: the last one takes the remainder.
Chunk(n, threads, t) ==
    LET size == n \div threads
        end  == IF t = threads - 1 THEN n ELSE (t + 1) * size
    IN  t * size + 1 .. end

ExecuteJoinParallel(index, probe, threads) ==
    Collected([t \in 0 .. threads - 1 |->
                  Probed(index, probe, Chunk(Len(probe), threads, t))], threads)

\* The join of the relations, with every pair of tuples of one key.
ExecuteHashJoin(build, probe) ==
    SetToBag({bp \in (DOMAIN build) \X (DOMAIN probe) : build[bp[1]] = probe[bp[2]]})
=============================================================================
