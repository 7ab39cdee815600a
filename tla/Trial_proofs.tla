----------------------------- MODULE Trial_proofs -----------------------------
(***************************************************************************)
(* Proofs about Trial for any relation S, any numbers of threads, keys,    *)
(* tids and writes.  The shares n * w / threads of the workers follow each *)
(* other without gap or overlap (ShareStarts, SharesInOrder, ShareOf), so  *)
(* a tuple is probed by the one worker that has it, when its counter       *)
(* passes it (HitsOK).  The phases of run_single say which threads may     *)
(* still be there (PhaseOK).                                               *)
(*                                                                         *)
(* What the threads count is a sum over the threads, and the size of a     *)
(* join a sum over the tuples.  Such a sum is what it was but for what the *)
(* one thread of a step has added (SumChanges), and it grows with its      *)
(* terms (SumMonotone).  CountsOK says where a probe or a write is that    *)
(* the index has counted and its thread has not yet; BoundsOK compares the *)
(* pairs found so far with those the tuples probed so far would find in    *)
(* the relation as loaded and in the table as it is.                       *)
(*                                                                         *)
(* LockOK says who has rw_mutex_; with it, every thread that waits waits   *)
(* for one that goes on (NoDeadlock).                                      *)
(***************************************************************************)
EXTENDS Trial, FiniteSetTheorems, WellFoundedInduction, TLAPS

(* A set of natural numbers has a smallest one, which is its Min. *)
LEMMA MinIsElement ==
  ASSUME NEW T \in SUBSET Nat, T # {}
  PROVE  Min(T) \in T /\ \A y \in T : Min(T) <= y
<1>1. PICK x \in T : \A y \in T : ~ (<<y, x>> \in OpToRel(<, Nat))
  BY NatLessThanWellFounded, WFMin
<1>2. ASSUME NEW y \in T PROVE x <= y
  <2>1. ~ (y < x)
    BY <1>1 DEF OpToRel
  <2>2. QED
    BY <2>1
<1>3. QED
  BY <1>2 DEF Min

-----------------------------------------------------------------------------
(* Sums over a finite set.  The sum of the community module takes the elements
   one by one, as CHOOSE finds them; what follows shows that this recursion has
   a solution, and that the order does not matter.  Every proof by induction is
   by a smallest subset for which the claim fails. *)

LEMMA SmallestSubset ==
  ASSUME NEW T, IsFiniteSet(T), NEW B \in SUBSET SUBSET T, B # {}
  PROVE  \E s \in B : \A t \in B : t \subseteq s => t = s
<1>1. IsWellFoundedOn(StrictSubsetOrdering(T), SUBSET T)
  BY FS_StrictSubsetOrderingWellFounded, FS_FiniteSubsetsOfFinite
<1>2. PICK s \in B : \A t \in B : ~ (<<t, s>> \in StrictSubsetOrdering(T))
  BY <1>1, WFMin
<1>3. QED
  BY <1>2 DEF StrictSubsetOrdering

First(s) == CHOOSE x \in s : TRUE

(* g is a solution of the recursion for the subsets of T. *)
Sums(g, f, T) ==
    g = [s \in SUBSET T |-> IF s = {} THEN 0 ELSE f[First(s)] + g[s \ {First(s)}]]

LEMMA SumIsSolution ==
  ASSUME NEW f, NEW T
  PROVE  SumFunctionOnSet(f, T) = (CHOOSE g : Sums(g, f, T))[T]
BY DEF SumFunctionOnSet, FoldFunctionOnSet, MapThenFoldSet, Sums, First

LEMMA FirstIsElement ==
  ASSUME NEW s, s # {}
  PROVE  First(s) \in s
BY DEF First

LEMMA SolutionsAgree ==
  ASSUME NEW f, NEW T, IsFiniteSet(T), NEW U, NEW g, NEW h, Sums(g, f, T), Sums(h, f, U),
         NEW s \in SUBSET T, s \in SUBSET U
  PROVE  g[s] = h[s]
<1> DEFINE B == {t \in SUBSET T : t \in SUBSET U /\ g[t] # h[t]}
<1> SUFFICES ASSUME B # {} PROVE FALSE
  OBVIOUS
<1>1. PICK t \in B : \A u \in B : u \subseteq t => u = t
  <2>1. B \in SUBSET SUBSET T
    OBVIOUS
  <2> HIDE DEF B
  <2>2. QED
    BY <2>1, SmallestSubset
<1>2. t # {}
  BY <1>1 DEF Sums
<1>3. First(t) \in t
  BY <1>2, FirstIsElement
<1>4. g[t \ {First(t)}] = h[t \ {First(t)}]
  BY <1>1, <1>3
<1>5. g[t] = f[First(t)] + g[t \ {First(t)}] /\ h[t] = f[First(t)] + h[t \ {First(t)}]
  BY <1>1, <1>2 DEF Sums
<1>6. QED
  BY <1>1, <1>4, <1>5

LEMMA SolutionExists ==
  ASSUME NEW f, NEW T, IsFiniteSet(T)
  PROVE  \E g : Sums(g, f, T)
<1> DEFINE B == {s \in SUBSET T : ~ \E g : Sums(g, f, s)}
<1> SUFFICES ASSUME B # {} PROVE FALSE
  OBVIOUS
<1>1. PICK s \in B : \A u \in B : u \subseteq s => u = s
  <2>1. B \in SUBSET SUBSET T
    OBVIOUS
  <2> HIDE DEF B
  <2>2. QED
    BY <2>1, SmallestSubset
<1> DEFINE Sol(u) == CHOOSE g : Sums(g, f, u)
           Rest(u) == u \ {First(u)}
           g == [u \in SUBSET s |-> IF u = {} THEN 0 ELSE f[First(u)] + Sol(Rest(u))[Rest(u)]]
<1>2. ASSUME NEW u \in SUBSET s, u # s
      PROVE  Sums(Sol(u), f, u)
  <2>1. u \notin B /\ u \in SUBSET T
    BY <1>1, <1>2
  <2>2. QED
    BY <2>1
<1>3. ASSUME NEW u \in SUBSET s, u # {}
      PROVE  g[Rest(u)] = Sol(Rest(u))[Rest(u)]
  <2> DEFINE v == Rest(u)
  <2>1. First(u) \in u
    BY <1>3, FirstIsElement
  <2>2. v \in SUBSET s /\ v # s
    BY <2>1
  <2>3. Sums(Sol(v), f, v)
    BY <1>2, <2>2
  <2>4. CASE v = {}
    <3>1. g[v] = 0
      BY <2>2, <2>4
    <3>2. Sol(v)[v] = 0
      <4> DEFINE h == Sol(v)
      <4>1. Sums(h, f, v)
        BY <2>3
      <4> HIDE DEF h
      <4>2. h[v] = 0
        BY <4>1, <2>4 DEF Sums
      <4>3. QED
        BY <4>2 DEF h
    <3>3. QED
      BY <3>1, <3>2
  <2>5. CASE v # {}
    <3> DEFINE w == Rest(v)
               h == Sol(v)
               k == Sol(w)
    <3>1. First(v) \in v
      BY <2>5, FirstIsElement
    <3>2. w \in SUBSET s /\ w # s /\ w \in SUBSET v /\ w \in SUBSET w
      BY <3>1, <2>2
    <3>3. Sums(k, f, w) /\ Sums(h, f, v)
      BY <1>2, <3>2, <2>3
    <3>4. IsFiniteSet(v)
      BY <2>2, FS_Subset
    <3>5. g[v] = f[First(v)] + k[w]
      BY <2>2, <2>5
    <3> HIDE DEF h, k, v, w
    <3>6. k[w] = h[w]
      BY <3>2, <3>3, <3>4, SolutionsAgree
    <3>7. h[v] = f[First(v)] + h[w]
      BY <3>3, <2>5 DEF Sums, w
    <3>8. QED
      BY <3>5, <3>6, <3>7 DEF h, v
  <2>6. QED
    BY <2>4, <2>5
<1>4. Sums(g, f, s)
  <2> DEFINE k == [u \in SUBSET s |-> IF u = {} THEN 0 ELSE f[First(u)] + g[Rest(u)]]
  <2>1. g = k
    <3>1. ASSUME NEW u \in SUBSET s PROVE g[u] = k[u]
      <4>1. CASE u = {}
        BY <4>1
      <4>2. CASE u # {}
        <5>1. g[u] = f[First(u)] + Sol(Rest(u))[Rest(u)]
          BY <4>2
        <5>2. k[u] = f[First(u)] + g[Rest(u)]
          BY <4>2
        <5>3. g[Rest(u)] = Sol(Rest(u))[Rest(u)]
          BY <1>3, <4>2
        <5> HIDE DEF g, k, Sol, Rest
        <5>4. QED
          BY <5>1, <5>2, <5>3
      <4>3. QED
        BY <4>1, <4>2
    <3>2. g = [u \in SUBSET s |-> g[u]] /\ k = [u \in SUBSET s |-> k[u]]
      OBVIOUS
    <3> HIDE DEF g, k
    <3>3. QED
      BY <3>1, <3>2
  <2> HIDE DEF g
  <2>2. QED
    BY <2>1 DEF Sums
<1>5. QED
  BY <1>1, <1>4

LEMMA SumUnfolds ==
  ASSUME NEW f, NEW T, IsFiniteSet(T)
  PROVE  SumFunctionOnSet(f, T) =
            IF T = {} THEN 0 ELSE f[First(T)] + SumFunctionOnSet(f, T \ {First(T)})
<1> DEFINE U == T \ {First(T)}
           g == CHOOSE g : Sums(g, f, T)
           h == CHOOSE h : Sums(h, f, U)
<1>1. IsFiniteSet(U)
  BY FS_Subset
<1>2. Sums(g, f, T) /\ Sums(h, f, U)
  BY <1>1, SolutionExists
<1>3. SumFunctionOnSet(f, T) = g[T] /\ SumFunctionOnSet(f, U) = h[U]
  BY SumIsSolution
<1>4. U \in SUBSET T /\ U \in SUBSET U /\ T \in SUBSET T
  OBVIOUS
<1> HIDE DEF g, h
<1>5. g[U] = h[U]
  <2> HIDE DEF U
  <2>1. QED
    BY <1>2, <1>4, SolutionsAgree
<1>6. g[T] = IF T = {} THEN 0 ELSE f[First(T)] + g[U]
  BY <1>2, <1>4 DEF Sums
<1>7. QED
  BY <1>3, <1>5, <1>6

LEMMA SumType ==
  ASSUME NEW T, IsFiniteSet(T), NEW f, \A x \in T : f[x] \in Nat
  PROVE  SumFunctionOnSet(f, T) \in Nat
<1> DEFINE B == {s \in SUBSET T : SumFunctionOnSet(f, s) \notin Nat}
<1> SUFFICES ASSUME B # {} PROVE FALSE
  OBVIOUS
<1>1. PICK s \in B : \A u \in B : u \subseteq s => u = s
  <2>1. B \in SUBSET SUBSET T
    OBVIOUS
  <2> HIDE DEF B
  <2>2. QED
    BY <2>1, SmallestSubset
<1>2. IsFiniteSet(s) /\ s \in SUBSET T
  BY <1>1, FS_Subset
<1>3. s # {}
  <2>1. ASSUME s = {} PROVE FALSE
    <3>1. SumFunctionOnSet(f, s) = 0
      BY <1>2, <2>1, SumUnfolds
    <3>2. QED
      BY <1>1, <3>1
  <2>2. QED
    BY <2>1
<1>4. First(s) \in s
  BY <1>3, FirstIsElement
<1>5. SumFunctionOnSet(f, s \ {First(s)}) \in Nat
  BY <1>1, <1>4
<1>6. SumFunctionOnSet(f, s) = f[First(s)] + SumFunctionOnSet(f, s \ {First(s)})
  BY <1>2, <1>3, SumUnfolds
<1>7. f[First(s)] \in Nat
  BY <1>2, <1>4
<1>8. QED
  BY <1>1, <1>5, <1>6, <1>7

(* Any element may be taken first. *)
LEMMA SumRemoves ==
  ASSUME NEW T, IsFiniteSet(T), NEW f, \A x \in T : f[x] \in Nat, NEW x \in T
  PROVE  SumFunctionOnSet(f, T) = f[x] + SumFunctionOnSet(f, T \ {x})
<1> DEFINE Sum(s) == SumFunctionOnSet(f, s)
           B == {s \in SUBSET T : \E y \in s : Sum(s) # f[y] + Sum(s \ {y})}
<1> SUFFICES ASSUME B # {} PROVE FALSE
  OBVIOUS
<1>1. PICK s \in B : \A u \in B : u \subseteq s => u = s
  <2>1. B \in SUBSET SUBSET T
    OBVIOUS
  <2> HIDE DEF B
  <2>2. QED
    BY <2>1, SmallestSubset
<1>2. PICK y \in s : Sum(s) # f[y] + Sum(s \ {y})
  BY <1>1
<1> DEFINE c == First(s)
<1>3. s \in SUBSET T /\ c \in s
  BY <1>1, <1>2, FirstIsElement
<1>4. ASSUME NEW u \in SUBSET T
      PROVE  IsFiniteSet(u) /\ Sum(u) \in Nat
  <2>1. IsFiniteSet(u)
    BY FS_Subset
  <2>2. QED
    BY <2>1, SumType
<1>5. Sum(s) = f[c] + Sum(s \ {c})
  <2>1. s # {} /\ IsFiniteSet(s)
    BY <1>3, <1>4
  <2>2. QED
    BY <2>1, SumUnfolds
<1>6. ASSUME NEW u \in SUBSET s, u # s, NEW z \in u
      PROVE  Sum(u) = f[z] + Sum(u \ {z})
  <2>1. u \in SUBSET T /\ u \notin B
    BY <1>1, <1>3, <1>6
  <2>2. QED
    BY <2>1
<1> HIDE DEF c, B, Sum
<1>7. c # y
  BY <1>2, <1>5
<1> DEFINE r == (s \ {c}) \ {y}
<1>8. Sum(s \ {c}) = f[y] + Sum(r)
  BY <1>3, <1>6, <1>7
<1>9. Sum(s \ {y}) = f[c] + Sum(r)
  <2>1. r = (s \ {y}) \ {c}
    OBVIOUS
  <2> HIDE DEF r
  <2>2. QED
    BY <1>3, <1>6, <1>7, <2>1
<1>10. Sum(r) \in Nat /\ f[c] \in Nat /\ f[y] \in Nat
  BY <1>3, <1>4
<1>11. QED
  BY <1>2, <1>5, <1>8, <1>9, <1>10

LEMMA SumSame ==
  ASSUME NEW T, IsFiniteSet(T), NEW f, NEW g, \A x \in T : f[x] = g[x]
  PROVE  SumFunctionOnSet(f, T) = SumFunctionOnSet(g, T)
<1> DEFINE B == {s \in SUBSET T : SumFunctionOnSet(f, s) # SumFunctionOnSet(g, s)}
<1> SUFFICES ASSUME B # {} PROVE FALSE
  OBVIOUS
<1>1. PICK s \in B : \A u \in B : u \subseteq s => u = s
  <2>1. B \in SUBSET SUBSET T
    OBVIOUS
  <2> HIDE DEF B
  <2>2. QED
    BY <2>1, SmallestSubset
<1>2. IsFiniteSet(s) /\ s \in SUBSET T
  BY <1>1, FS_Subset
<1>3. s # {}
  BY <1>1, <1>2, SumUnfolds
<1>4. First(s) \in s
  BY <1>3, FirstIsElement
<1>5. SumFunctionOnSet(f, s \ {First(s)}) = SumFunctionOnSet(g, s \ {First(s)})
  BY <1>1, <1>4
<1>6. f[First(s)] = g[First(s)]
  BY <1>2, <1>4
<1>7. /\ SumFunctionOnSet(f, s) = f[First(s)] + SumFunctionOnSet(f, s \ {First(s)})
      /\ SumFunctionOnSet(g, s) = g[First(s)] + SumFunctionOnSet(g, s \ {First(s)})
  BY <1>2, <1>3, SumUnfolds
<1>8. QED
  BY <1>1, <1>5, <1>6, <1>7

LEMMA SumMonotone ==
  ASSUME NEW T, IsFiniteSet(T), NEW f, NEW g,
         \A x \in T : f[x] \in Nat /\ g[x] \in Nat /\ f[x] <= g[x]
  PROVE  SumFunctionOnSet(f, T) <= SumFunctionOnSet(g, T)
<1> DEFINE B == {s \in SUBSET T : ~ (SumFunctionOnSet(f, s) <= SumFunctionOnSet(g, s))}
<1> SUFFICES ASSUME B # {} PROVE FALSE
  OBVIOUS
<1>1. PICK s \in B : \A u \in B : u \subseteq s => u = s
  <2>1. B \in SUBSET SUBSET T
    OBVIOUS
  <2> HIDE DEF B
  <2>2. QED
    BY <2>1, SmallestSubset
<1>2. IsFiniteSet(s) /\ s \in SUBSET T
  BY <1>1, FS_Subset
<1>3. s # {}
  <2>1. ASSUME s = {} PROVE FALSE
    <3>1. SumFunctionOnSet(f, s) = 0 /\ SumFunctionOnSet(g, s) = 0
      BY <1>2, <2>1, SumUnfolds
    <3>2. QED
      BY <1>1, <3>1
  <2>2. QED
    BY <2>1
<1> DEFINE c == First(s)
           r == s \ {c}
<1>4. c \in s
  BY <1>3, FirstIsElement
<1>5. r \in SUBSET T /\ SumFunctionOnSet(f, r) <= SumFunctionOnSet(g, r)
  BY <1>1, <1>4
<1>6. f[c] \in Nat /\ g[c] \in Nat /\ f[c] <= g[c]
  BY <1>2, <1>4
<1>7. /\ SumFunctionOnSet(f, s) = f[c] + SumFunctionOnSet(f, r)
      /\ SumFunctionOnSet(g, s) = g[c] + SumFunctionOnSet(g, r)
  BY <1>2, <1>3, SumUnfolds
<1>8. SumFunctionOnSet(f, r) \in Nat /\ SumFunctionOnSet(g, r) \in Nat
  <2>1. IsFiniteSet(r)
    BY <1>5, FS_Subset
  <2>2. \A x \in r : f[x] \in Nat /\ g[x] \in Nat
    BY <1>5
  <2> HIDE DEF r, c
  <2>3. QED
    BY <2>1, <2>2, SumType
<1>9. ~ (SumFunctionOnSet(f, s) <= SumFunctionOnSet(g, s))
  BY <1>1
<1> HIDE DEF c, r, B
<1>10. QED
  BY <1>5, <1>6, <1>7, <1>8, <1>9

LEMMA SumZero ==
  ASSUME NEW T, IsFiniteSet(T), NEW f, \A x \in T : f[x] = 0
  PROVE  SumFunctionOnSet(f, T) = 0
<1> DEFINE B == {s \in SUBSET T : SumFunctionOnSet(f, s) # 0}
<1> SUFFICES ASSUME B # {} PROVE FALSE
  OBVIOUS
<1>1. PICK s \in B : \A u \in B : u \subseteq s => u = s
  <2>1. B \in SUBSET SUBSET T
    OBVIOUS
  <2> HIDE DEF B
  <2>2. QED
    BY <2>1, SmallestSubset
<1>2. IsFiniteSet(s) /\ s \in SUBSET T
  BY <1>1, FS_Subset
<1>3. s # {}
  BY <1>1, <1>2, SumUnfolds
<1>4. First(s) \in s
  BY <1>3, FirstIsElement
<1>5. SumFunctionOnSet(f, s \ {First(s)}) = 0 /\ f[First(s)] = 0
  BY <1>1, <1>2, <1>4
<1>6. SumFunctionOnSet(f, s) = f[First(s)] + SumFunctionOnSet(f, s \ {First(s)})
  BY <1>2, <1>3, SumUnfolds
<1>7. QED
  BY <1>1, <1>5, <1>6

(* One value changes. *)
LEMMA SumChanges ==
  ASSUME NEW T, IsFiniteSet(T), NEW f, NEW g, \A x \in T : f[x] \in Nat /\ g[x] \in Nat,
         NEW x \in T, \A y \in T \ {x} : g[y] = f[y]
  PROVE  /\ SumFunctionOnSet(f, T) \in Nat /\ SumFunctionOnSet(g, T) \in Nat
         /\ SumFunctionOnSet(g, T) = SumFunctionOnSet(f, T) - f[x] + g[x]
<1>1. IsFiniteSet(T \ {x})
  BY FS_Subset
<1>2. SumFunctionOnSet(f, T \ {x}) = SumFunctionOnSet(g, T \ {x})
  <2> DEFINE U == T \ {x}
  <2>1. IsFiniteSet(U) /\ \A y \in U : f[y] = g[y]
    BY <1>1
  <2> HIDE DEF U
  <2>2. SumFunctionOnSet(f, U) = SumFunctionOnSet(g, U)
    BY <2>1, SumSame
  <2>3. QED
    BY <2>2 DEF U
<1>3. SumFunctionOnSet(f, T \ {x}) \in Nat
  BY <1>1, SumType
<1>4. /\ SumFunctionOnSet(f, T) = f[x] + SumFunctionOnSet(f, T \ {x})
      /\ SumFunctionOnSet(g, T) = g[x] + SumFunctionOnSet(g, T \ {x})
  BY SumRemoves
<1>5. QED
  BY <1>2, <1>3, <1>4

-----------------------------------------------------------------------------
(* The shares. *)

LEMMA WorkersType ==
  /\ Len(S) \in Nat
  /\ NumWorkers \in Nat \ {0}
  /\ NumWorkers <= Len(S) \/ Len(S) = 0
BY TrialAssumption DEF NumWorkers

(* A quotient grows with its dividend. *)
LEMMA DivMonotone ==
  ASSUME NEW a \in Nat, NEW b \in Nat, NEW m \in Nat \ {0}, a <= b
  PROVE  a \div m \in Nat /\ a \div m <= b \div m
OBVIOUS

LEMMA DivExact ==
  ASSUME NEW n \in Nat, NEW m \in Nat \ {0}
  PROVE  (n * m) \div m = n
OBVIOUS

LEMMA TimesMonotone ==
  ASSUME NEW n \in Nat, NEW v \in Nat, NEW w \in Nat, v <= w
  PROVE  n * v \in Nat /\ n * v <= n * w
OBVIOUS

LEMMA SharesInOrder ==
  ASSUME NEW v \in Nat, NEW w \in Nat, v <= w
  PROVE  Begin(v) \in Nat /\ Begin(v) <= Begin(w)
BY WorkersType, TimesMonotone, DivMonotone DEF Begin

LEMMA ShareStarts == Begin(0) = 0 /\ Begin(NumWorkers) = Len(S)
<1>1. Len(S) * 0 = 0
  BY WorkersType
<1>2. 0 \div NumWorkers = 0
  BY WorkersType
<1>3. QED
  BY <1>1, <1>2, WorkersType, DivExact DEF Begin

(* Every tuple is in the share of a worker: the first one that ends behind it. *)
LEMMA ShareOf ==
  ASSUME NEW i \in 1 .. Len(S)
  PROVE  \E p \in Workers : i \in Begin(p) + 1 .. Begin(p + 1)
<1> DEFINE T == {w \in Nat : i <= Begin(w)}
           q == Min(T)
<1>1. NumWorkers \in T
  BY ShareStarts, WorkersType
<1>2. q \in T /\ \A y \in T : q <= y
  BY <1>1, MinIsElement
<1>3. q \in Nat /\ i <= Begin(q) /\ q <= NumWorkers
  BY <1>1, <1>2
<1> HIDE DEF q
<1>4. q # 0
  BY <1>3, ShareStarts
<1>5. q - 1 \in Workers /\ q - 1 \in Nat
  BY <1>3, <1>4, WorkersType DEF Workers
<1>6. ~ (i <= Begin(q - 1))
  BY <1>2, <1>5
<1>7. Begin(q - 1) \in Nat /\ Begin(q) \in Nat /\ (q - 1) + 1 = q
  BY <1>3, <1>5, SharesInOrder
<1>8. i \in Begin(q - 1) + 1 .. Begin((q - 1) + 1)
  BY <1>3, <1>6, <1>7
<1>9. QED
  BY <1>5, <1>8

-----------------------------------------------------------------------------
(* The invariant. *)

ShapeOK ==
    /\ writer = [w \in Writers |-> writer[w]]
    /\ \A w \in Writers :
        writer[w] \in [at : {"unborn", "test", "lock", "update", "count", "done"}, op : WriteOp \cup {NoOp}]
    /\ worker = [p \in Workers |-> worker[p]]
    /\ \A p \in Workers :
        /\ DOMAIN worker[p] = {"at", "i", "probes", "pairs"}
        /\ worker[p] = [f \in DOMAIN worker[p] |-> worker[p][f]]
    /\ hits \in [1 .. Len(S) -> Nat]

(* A worker stays in its share, and has probed the tuples it has passed. *)
HitsOK ==
    \A p \in Workers :
        /\ worker[p].at \in {"unborn", "loop", "try", "wait", "read", "done"}
        /\ worker[p].i \in Begin(p) .. Begin(p + 1)
        /\ worker[p].at \in {"try", "wait", "read"} => worker[p].i < Begin(p + 1)
        /\ worker[p].at = "done" => worker[p].i = Begin(p + 1)
        /\ \A j \in Begin(p) + 1 .. Begin(p + 1) :
            hits[j] = IF j <= worker[p].i THEN 1 ELSE 0

PhaseOK ==
    /\ main \in {"load", "start", "spawn", "execute", "stats", "stop", "join", "collect", "done"}
    /\ main \in {"load", "start"} => started = FALSE
    /\ main \in {"spawn", "execute", "stats", "stop", "join"} => started = TRUE
    /\ main \in {"stats", "stop", "join", "collect", "done"} =>
        \A p \in Workers : worker[p].at = "done"
    /\ main \in {"collect", "done"} => \A w \in Writers : writer[w].at = "done"

Inv == ShapeOK /\ HitsOK /\ PhaseOK

-----------------------------------------------------------------------------
LEMMA ShareType ==
  ASSUME NEW p \in Workers
  PROVE  p \in Nat /\ Begin(p) \in Nat /\ Begin(p + 1) \in Nat /\ Begin(p) <= Begin(p + 1)
         /\ Begin(p + 1) <= Len(S)
<1>1. p \in Nat /\ p + 1 \in Nat /\ p <= p + 1 /\ p + 1 <= NumWorkers
  BY WorkersType DEF Workers
<1>2. QED
  BY <1>1, ShareStarts, SharesInOrder, WorkersType

LEMMA InitInv == Init => Inv
<1> SUFFICES ASSUME Init PROVE Inv
  OBVIOUS
<1>1. ShapeOK
  BY WorkersType DEF Init, ShapeOK
<1>2. HitsOK
  <2> SUFFICES ASSUME NEW p \in Workers
               PROVE  /\ worker[p].at = "unborn" /\ worker[p].i \in Begin(p) .. Begin(p + 1)
                      /\ \A j \in Begin(p) + 1 .. Begin(p + 1) :
                            hits[j] = IF j <= worker[p].i THEN 1 ELSE 0
    BY DEF HitsOK
  <2>1. worker[p].at = "unborn" /\ worker[p].i = Begin(p)
    BY DEF Init
  <2>2. QED
    BY <2>1, ShareType, WorkersType DEF Init
<1>3. PhaseOK
  BY DEF Init, PhaseOK
<1>4. QED
  BY <1>1, <1>2, <1>3 DEF Inv

(* The thread that is started next has not been started. *)
LEMMA UnbornWriter ==
  ASSUME Unborn(Writers, writer) # {}
  PROVE  Min(Unborn(Writers, writer)) \in Unborn(Writers, writer)
<1>1. Unborn(Writers, writer) \in SUBSET Nat
  BY TrialAssumption DEF Unborn, Writers
<1>2. QED
  BY <1>1, MinIsElement

LEMMA UnbornWorker ==
  ASSUME Unborn(Workers, worker) # {}
  PROVE  Min(Unborn(Workers, worker)) \in Unborn(Workers, worker)
<1>1. Unborn(Workers, worker) \in SUBSET Nat
  BY WorkersType DEF Unborn, Workers
<1>2. QED
  BY <1>1, MinIsElement

(* No tuple is in two shares. *)
LEMMA SharesDisjoint ==
  ASSUME NEW p \in Workers, NEW q \in Workers, p # q,
         NEW i \in Begin(p) + 1 .. Begin(p + 1)
  PROVE  i \notin Begin(q) + 1 .. Begin(q + 1)
<1>1. p \in Nat /\ q \in Nat /\ p + 1 \in Nat /\ q + 1 \in Nat
  BY ShareType
<1>2. CASE p < q
  <2>1. Begin(p + 1) <= Begin(q)
    BY <1>1, <1>2, SharesInOrder
  <2>2. QED
    BY <2>1, ShareType
<1>3. CASE q < p
  <2>1. Begin(q + 1) <= Begin(p)
    BY <1>1, <1>3, SharesInOrder
  <2>2. QED
    BY <2>1, ShareType
<1>4. QED
  BY <1>1, <1>2, <1>3

(* A step of a worker that does not read keeps what holds of it, if it only
   moves on within what its counter allows. *)
LEMMA WorkerMoves ==
  ASSUME Inv, NEW p \in Workers, NEW to \in {"loop", "try", "wait", "read", "done"},
         worker' = [worker EXCEPT ![p].at = to], UNCHANGED <<writer, hits>>,
         to \in {"try", "wait", "read"} => worker[p].i < Begin(p + 1),
         to = "done" => worker[p].i = Begin(p + 1)
  PROVE  /\ ShapeOK' /\ HitsOK'
         /\ worker'[p].at = to
         /\ \A q \in Workers \ {p} : worker'[q] = worker[q]
<1> USE DEF Inv, ShapeOK
<1>1. worker'[p].at = to /\ worker'[p].i = worker[p].i
  OBVIOUS
<1>2. \A q \in Workers \ {p} : worker'[q] = worker[q]
  OBVIOUS
<1>3. ShapeOK'
  OBVIOUS
<1>4. HitsOK'
  <2> SUFFICES ASSUME NEW q \in Workers
               PROVE  /\ worker'[q].at \in {"unborn", "loop", "try", "wait", "read", "done"}
                      /\ worker'[q].i \in Begin(q) .. Begin(q + 1)
                      /\ worker'[q].at \in {"try", "wait", "read"} => worker'[q].i < Begin(q + 1)
                      /\ worker'[q].at = "done" => worker'[q].i = Begin(q + 1)
                      /\ \A j \in Begin(q) + 1 .. Begin(q + 1) :
                            hits'[j] = IF j <= worker'[q].i THEN 1 ELSE 0
    BY DEF HitsOK
  <2>1. CASE q = p
    BY <1>1, <2>1 DEF HitsOK
  <2>2. CASE q # p
    BY <1>2, <2>2 DEF HitsOK
  <2>3. QED
    BY <2>1, <2>2
<1>5. QED
  BY <1>1, <1>2, <1>3, <1>4

-----------------------------------------------------------------------------
(* The steps. *)

(* A worker that reads counts the tuple its counter passes. *)
LEMMA ReadStep ==
  ASSUME Inv, NEW p \in Workers, WorkerRead(p)
  PROVE  ShapeOK' /\ HitsOK'
<1> USE DEF Inv, ShapeOK
<1> DEFINE i == worker[p].i
<1>1. /\ worker[p].at = "read" /\ i \in Nat /\ i >= Begin(p) /\ i < Begin(p + 1)
      /\ i + 1 \in 1 .. Len(S) /\ i + 1 \in Begin(p) + 1 .. Begin(p + 1)
  BY ShareType, WorkersType DEF WorkerRead, WorkerReads, HitsOK
<1>2. /\ worker'[p].at = "loop" /\ worker'[p].i = i + 1
      /\ \A q \in Workers \ {p} : worker'[q] = worker[q]
      /\ hits' = [hits EXCEPT ![i + 1] = @ + 1]
      /\ writer' = writer
  BY DEF WorkerRead, WorkerReads, txn
<1>3. ShapeOK'
  <2>1. hits' \in [1 .. Len(S) -> Nat]
    <3>1. i + 1 \in 1 .. Len(S) /\ hits[i + 1] + 1 \in Nat
      BY <1>1
    <3> HIDE DEF i
    <3>2. QED
      BY <1>2, <3>1
  <2>2. /\ worker' = [q \in Workers |-> worker'[q]]
        /\ \A q \in Workers :
            /\ DOMAIN worker'[q] = {"at", "i", "probes", "pairs"}
            /\ worker'[q] = [f \in DOMAIN worker'[q] |-> worker'[q][f]]
    BY SMTT(40) DEF WorkerRead, WorkerReads
  <2>3. QED
    BY <1>2, <2>1, <2>2
<1>4. HitsOK'
  <2> SUFFICES ASSUME NEW q \in Workers
               PROVE  /\ worker'[q].at \in {"unborn", "loop", "try", "wait", "read", "done"}
                      /\ worker'[q].i \in Begin(q) .. Begin(q + 1)
                      /\ worker'[q].at \in {"try", "wait", "read"} => worker'[q].i < Begin(q + 1)
                      /\ worker'[q].at = "done" => worker'[q].i = Begin(q + 1)
                      /\ \A j \in Begin(q) + 1 .. Begin(q + 1) :
                            hits'[j] = IF j <= worker'[q].i THEN 1 ELSE 0
    BY DEF HitsOK
  <2>1. CASE q = p
    <3>1. ASSUME NEW j \in Begin(p) + 1 .. Begin(p + 1)
          PROVE  hits'[j] = IF j <= i + 1 THEN 1 ELSE 0
      <4>1. hits[j] = (IF j <= i THEN 1 ELSE 0) /\ j \in 1 .. Len(S) /\ j \in Int
        BY ShareType, WorkersType DEF HitsOK
      <4>2. CASE j = i + 1
        BY <1>1, <1>2, <4>1, <4>2
      <4>3. CASE j # i + 1
        <5>1. hits'[j] = hits[j]
          BY <1>2, <4>1, <4>3
        <5>2. j <= i <=> j <= i + 1
          BY <1>1, <4>1, <4>3
        <5>3. QED
          BY <4>1, <5>1, <5>2
      <4>4. QED
        BY <4>2, <4>3
    <3>2. i + 1 \in Begin(p) .. Begin(p + 1)
      BY <1>1, ShareType
    <3> HIDE DEF i
    <3>3. QED
      BY <1>2, <2>1, <3>1, <3>2
  <2>2. CASE q # p
    <3>1. i + 1 \notin Begin(q) + 1 .. Begin(q + 1)
      BY <1>1, <2>2, SharesDisjoint
    <3>2. \A j \in Begin(q) + 1 .. Begin(q + 1) : j \in 1 .. Len(S) /\ hits'[j] = hits[j]
      BY <1>2, <3>1, ShareType, WorkersType
    <3>3. QED
      BY <1>2, <2>2, <3>2 DEF HitsOK
  <2>3. QED
    BY <2>1, <2>2
<1>5. QED
  BY <1>3, <1>4

LEMMA WorkerStep ==
  ASSUME Inv, NEW p \in Workers, Worker(p)
  PROVE  Inv'
<1> USE DEF Inv
<1>1. worker[p].at # "done" /\ UNCHANGED <<main, started, writer>>
  BY DEF Worker, WorkerLoop, WorkerTry, WorkerWait, WorkerRead, WorkerReads, Step, run, txn
<1>2. PhaseOK'
  BY <1>1 DEF PhaseOK
<1>3. ShapeOK' /\ HitsOK'
  <2>1. CASE WorkerLoop(p)
    <3> DEFINE to == IF worker[p].i < Begin(p + 1) THEN "try" ELSE "done"
    <3>1. worker' = [worker EXCEPT ![p].at = to] /\ UNCHANGED <<writer, hits>>
      BY <2>1 DEF WorkerLoop, Step, txn
    <3>2. /\ to \in {"loop", "try", "wait", "read", "done"}
          /\ to \in {"try", "wait", "read"} => worker[p].i < Begin(p + 1)
          /\ to = "done" => worker[p].i = Begin(p + 1)
      BY ShareType DEF HitsOK
    <3> HIDE DEF to
    <3>3. QED
      BY <3>1, <3>2, WorkerMoves
  <2>2. CASE WorkerTry(p) \/ WorkerWait(p)
    <3>1. PICK to \in {"read", "wait"} : worker' = [worker EXCEPT ![p].at = to]
      BY <2>2 DEF WorkerTry, WorkerWait, Step
    <3>2. worker[p].at \in {"try", "wait"} /\ UNCHANGED <<writer, hits>>
      BY <2>2 DEF WorkerTry, WorkerWait, Step, txn
    <3>3. worker[p].i < Begin(p + 1)
      BY <3>2 DEF HitsOK
    <3>4. QED
      BY <3>1, <3>2, <3>3, WorkerMoves
  <2>3. CASE WorkerRead(p)
    BY <2>3, ReadStep
  <2>4. QED
    BY <2>1, <2>2, <2>3 DEF Worker
<1>4. QED
  BY <1>2, <1>3

LEMMA WriterStep ==
  ASSUME Inv, NEW w \in Writers, Writer(w)
  PROVE  Inv'
<1> USE DEF Inv
<1>1. writer[w].at # "done" /\ UNCHANGED <<main, started, join>>
  BY DEF Writer, WriterLeave, WriterCall, WriterLock, WriterUpdate, WriterCount, Move, run
<1>2. PhaseOK'
  BY <1>1 DEF PhaseOK, join
<1>3. HitsOK'
  BY <1>1 DEF HitsOK, join
<1>4. ShapeOK'
  <2>1. CASE WriterCall(w)
    BY <1>1, <2>1 DEF ShapeOK, WriterCall, join
  <2>2. CASE WriterLeave(w) \/ WriterLock(w) \/ WriterUpdate(w) \/ WriterCount(w)
    <3>1. PICK to \in {"done", "update", "count", "test"} :
            writer' = [writer EXCEPT ![w].at = to]
      BY <2>2 DEF WriterLeave, WriterLock, WriterUpdate, WriterCount, Move
    <3>2. QED
      BY <1>1, <3>1 DEF ShapeOK, join
  <2>3. QED
    BY <2>1, <2>2 DEF Writer
<1>5. QED
  BY <1>2, <1>3, <1>4

LEMMA MainStep ==
  ASSUME Inv, Main
  PROVE  Inv'
<1> USE DEF Inv
<1>1. ASSUME UNCHANGED <<writer, worker, hits>> PROVE ShapeOK' /\ HitsOK'
  BY <1>1 DEF ShapeOK, HitsOK
<1>2. CASE Load
  BY <1>1, <1>2 DEF Load, MainGoto, PhaseOK, run, txn, join
<1>3. CASE Start
  BY <1>1, <1>3 DEF Start, MainGoto, PhaseOK, txn, join
<1>4. CASE SpawnWriter
  <2> DEFINE w == Min(Unborn(Writers, writer))
  <2>1. w \in Writers /\ writer' = [writer EXCEPT ![w].at = "test"]
        /\ UNCHANGED <<main, started, join>> /\ main = "spawn"
    BY <1>4, UnbornWriter DEF SpawnWriter, Unborn, run
  <2> HIDE DEF w
  <2>2. ShapeOK'
    BY <2>1 DEF ShapeOK, join
  <2>3. HitsOK' /\ PhaseOK'
    BY <2>1 DEF HitsOK, PhaseOK, join
  <2>4. QED
    BY <2>2, <2>3
<1>5. CASE WritersStarted
  BY <1>1, <1>5 DEF WritersStarted, MainGoto, PhaseOK, run, txn, join
<1>6. CASE SpawnWorker
  <2> DEFINE p == Min(Unborn(Workers, worker))
  <2>1. p \in Workers /\ worker' = [worker EXCEPT ![p].at = "loop"]
        /\ UNCHANGED <<main, started, writer, hits>> /\ main = "execute"
    BY <1>6, UnbornWorker DEF SpawnWorker, Unborn, run, txn
  <2> HIDE DEF p
  <2>2. ShapeOK' /\ HitsOK'
    BY <2>1, WorkerMoves
  <2>3. PhaseOK'
    BY <2>1 DEF PhaseOK
  <2>4. QED
    BY <2>2, <2>3
<1>7. CASE JoinWorkers
  BY <1>1, <1>7 DEF JoinWorkers, MainGoto, PhaseOK, run, txn, join
<1>8. CASE JoinStats
  BY <1>1, <1>8 DEF JoinStats, MainGoto, PhaseOK, run, txn, join
<1>9. CASE RaiseStop
  BY <1>1, <1>9 DEF RaiseStop, MainGoto, PhaseOK, txn, join
<1>10. CASE JoinWriters
  BY <1>1, <1>10 DEF JoinWriters, MainGoto, PhaseOK, txn, join
<1>11. CASE Collect
  BY <1>1, <1>11 DEF Collect, MainGoto, PhaseOK, run, txn, join
<1>12. QED
  BY <1>2, <1>3, <1>4, <1>5, <1>6, <1>7, <1>8, <1>9, <1>10, <1>11 DEF Main

LEMMA StepInv == Inv /\ [Next]_vars => Inv'
<1> SUFFICES ASSUME Inv, [Next]_vars PROVE Inv'
  OBVIOUS
<1>1. CASE UNCHANGED vars
  BY <1>1 DEF vars, Inv, ShapeOK, HitsOK, PhaseOK, run, txn, join
<1>2. CASE Next
  BY <1>1, <1>2, WorkerStep, WriterStep, MainStep DEF Next, Terminated
<1>3. QED
  BY <1>1, <1>2

LEMMA Invariance == Spec => []Inv
BY InitInv, StepInv, PTL DEF Spec

-----------------------------------------------------------------------------
(* However S and the number of threads divide, no tuple is probed twice, and
   none is left when the workers are done (join_executor.cpp:39). *)
THEOREM EachTupleOnce == Spec => []TuplesProbedOnce
<1>1. Inv => TuplesProbedOnce
  <2> SUFFICES ASSUME Inv, NEW i \in 1 .. Len(S)
               PROVE  hits[i] \in IF \A p \in Workers : worker[p].at = "done"
                                  THEN {1} ELSE {0, 1}
    BY DEF TuplesProbedOnce
  <2>1. PICK p \in Workers : i \in Begin(p) + 1 .. Begin(p + 1)
    BY ShareOf
  <2>2. /\ hits[i] = IF i <= worker[p].i THEN 1 ELSE 0
        /\ worker[p].at = "done" => worker[p].i = Begin(p + 1)
    BY <2>1 DEF Inv, HitsOK
  <2>3. i <= Begin(p + 1)
    BY <2>1, ShareType
  <2>4. QED
    BY <2>2, <2>3
<1>2. QED
  BY <1>1, Invariance, PTL

(* The index is destroyed after the last thread that has its address: stop is
   not a no-op, since nothing resets started_ between start and stop
   (benchmark.cpp:125). *)
THEOREM NoThreadOutlivesIndex == Spec => []IndexOutlivesThreads
<1>1. Inv => IndexOutlivesThreads
  BY DEF Inv, PhaseOK, IndexOutlivesThreads
<1>2. QED
  BY <1>1, Invariance, PTL

-----------------------------------------------------------------------------
(* The counters and the size of the join. *)

(* A worker that has asked for the lock has counted its probe in the index, but
   not yet in its own counter; a writer that has released it likewise. *)
Entered == [p \in Workers |->
    worker[p].probes + IF worker[p].at \in {"try", "wait", "read"} THEN 1 ELSE 0]

(* A probe is blocked once at most. *)
Delayed == [p \in Workers |->
    worker[p].probes + IF worker[p].at \in {"wait", "read"} THEN 1 ELSE 0]

Uncounted == [w \in Writers |-> IF writer[w].at = "count" THEN 1 ELSE 0]

CountsOK ==
    /\ \A p \in Workers : worker[p].probes \in Nat /\ worker[p].pairs \in Nat
    /\ totals \in [{"INSERT", "DELETE"} -> Nat]
    /\ mix \subseteq {"INSERT", "DELETE"}
    /\ \A w \in Writers : writer[w].at \in {"lock", "update", "count"} =>
        writer[w].op \in WriteOp /\ writer[w].op.op \in mix
    /\ probe_count = SumFunction(Entered)
    /\ probe_blocked \in Nat /\ probe_blocked <= SumFunction(Delayed)
    /\ write_count = totals["INSERT"] + totals["DELETE"] + SumFunction(Uncounted)

Within(low, high) == \A k \in Keys, t \in TIDs : low[k][t] <= high[k][t]

(* What the tuples probed so far would find in the contents c. *)
Answers(c) == [i \in 1 .. Len(S) |-> IF hits[i] = 0 THEN 0 ELSE Size(c[S[i]])]

Pairs == [p \in Workers |-> worker[p].pairs]

BoundsOK ==
    /\ table \in Contents
    /\ main \in {"load", "start"} => \A w \in Writers : writer[w].at = "unborn"
    /\ main \in {"load", "start", "spawn"} =>
        /\ \A p \in Workers : worker[p].at = "unborn"
        /\ \A i \in 1 .. Len(S) : hits[i] = 0
    /\ mix = {"INSERT"} =>
        /\ main # "load" => Within(Relation, table)
        /\ SumFunction(Answers(Relation)) <= SumFunction(Pairs)
        /\ SumFunction(Pairs) <= SumFunction(Answers(table))
    /\ mix = {"DELETE"} =>
        /\ main # "load" => Within(table, Relation)
        /\ SumFunction(Answers(table)) <= SumFunction(Pairs)
        /\ SumFunction(Pairs) <= SumFunction(Answers(Relation))
-----------------------------------------------------------------------------
LEMMA ThreadsFinite ==
  IsFiniteSet(Workers) /\ IsFiniteSet(Writers) /\ IsFiniteSet(1 .. Len(S)) /\ IsFiniteSet(TIDs)
<1>1. 0 \in Int /\ 1 \in Int /\ NumWorkers - 1 \in Int /\ NumWriteThreads \in Int /\ Len(S) \in Int
  BY WorkersType, TrialAssumption
<1>2. QED
  BY <1>1, FS_Interval, TrialAssumption DEF Workers, Writers

LEMMA TotalChanges ==
  ASSUME NEW T, IsFiniteSet(T), NEW f \in [T -> Nat], NEW g \in [T -> Nat],
         NEW x \in T, \A y \in T \ {x} : g[y] = f[y]
  PROVE  /\ SumFunction(f) \in Nat /\ SumFunction(g) \in Nat
         /\ SumFunction(g) = SumFunction(f) - f[x] + g[x]
<1>1. DOMAIN f = T /\ DOMAIN g = T /\ \A y \in T : f[y] \in Nat /\ g[y] \in Nat
  OBVIOUS
<1>2. QED
  BY <1>1, SumChanges DEF SumFunction

LEMMA TotalMonotone ==
  ASSUME NEW T, IsFiniteSet(T), NEW f \in [T -> Nat], NEW g \in [T -> Nat],
         \A x \in T : f[x] <= g[x]
  PROVE  /\ SumFunction(f) \in Nat /\ SumFunction(g) \in Nat
         /\ SumFunction(f) <= SumFunction(g)
<1>1. DOMAIN f = T /\ DOMAIN g = T /\ \A y \in T : f[y] \in Nat /\ g[y] \in Nat
  OBVIOUS
<1>2. QED
  BY <1>1, SumMonotone, SumType DEF SumFunction

LEMMA TotalZero ==
  ASSUME NEW T, IsFiniteSet(T), NEW f \in [T -> Nat], \A x \in T : f[x] = 0
  PROVE  SumFunction(f) = 0
BY SumZero DEF SumFunction

LEMMA SizeType ==
  ASSUME NEW a \in [TIDs -> Nat]
  PROVE  Size(a) \in Nat
BY ThreadsFinite, SumType DEF Size

LEMMA SizeMonotone ==
  ASSUME NEW a \in [TIDs -> Nat], NEW b \in [TIDs -> Nat], \A t \in TIDs : a[t] <= b[t]
  PROVE  Size(a) <= Size(b)
BY ThreadsFinite, SumMonotone DEF Size

LEMMA KeyOfTuple ==
  ASSUME NEW i \in 1 .. Len(S)
  PROVE  S[i] \in Keys
BY TrialAssumption

LEMMA AnswersType ==
  ASSUME NEW c \in Contents
  PROVE  Answers(c) \in [1 .. Len(S) -> Nat]
<1>1. ASSUME NEW i \in 1 .. Len(S) PROVE Size(c[S[i]]) \in Nat
  BY KeyOfTuple, SizeType DEF Contents
<1>2. QED
  BY <1>1 DEF Answers

(* The more the contents hold, the more the tuples find. *)
LEMMA AnswersMonotone ==
  ASSUME NEW a \in Contents, NEW b \in Contents, Within(a, b)
  PROVE  SumFunction(Answers(a)) \in Nat /\ SumFunction(Answers(b)) \in Nat
         /\ SumFunction(Answers(a)) <= SumFunction(Answers(b))
<1>1. ASSUME NEW i \in 1 .. Len(S) PROVE Answers(a)[i] <= Answers(b)[i]
  <2>1. Size(a[S[i]]) \in Nat /\ Size(b[S[i]]) \in Nat /\ Size(a[S[i]]) <= Size(b[S[i]])
    BY KeyOfTuple, SizeType, SizeMonotone DEF Contents, Within
  <2>2. QED
    BY <2>1 DEF Answers
<1>2. QED
  BY <1>1, AnswersType, ThreadsFinite, TotalMonotone

LEMMA NothingAnswered ==
  ASSUME NEW c \in Contents, \A i \in 1 .. Len(S) : hits[i] = 0
  PROVE  SumFunction(Answers(c)) = 0
<1>1. \A i \in 1 .. Len(S) : Answers(c)[i] = 0
  BY DEF Answers
<1>2. QED
  BY <1>1, AnswersType, ThreadsFinite, TotalZero

(* What one worker adds is what the sums of the workers grow by. *)
LEMMA WorkerTotals ==
  ASSUME CountsOK, NEW p \in Workers, \A q \in Workers \ {p} : worker'[q] = worker[q],
         worker'[p].probes \in Nat, worker'[p].pairs \in Nat
  PROVE  /\ SumFunction(Entered) \in Nat /\ SumFunction(Delayed) \in Nat
         /\ SumFunction(Pairs) \in Nat
         /\ SumFunction(Entered)' = SumFunction(Entered) - Entered[p] + Entered'[p]
         /\ SumFunction(Delayed)' = SumFunction(Delayed) - Delayed[p] + Delayed'[p]
         /\ SumFunction(Pairs)' = SumFunction(Pairs) - worker[p].pairs + worker'[p].pairs
         /\ \A q \in Workers : worker'[q].probes \in Nat /\ worker'[q].pairs \in Nat
<1>1. \A q \in Workers : worker'[q].probes \in Nat /\ worker'[q].pairs \in Nat
  BY DEF CountsOK
<1>2. \A q \in Workers : worker[q].probes \in Nat /\ worker[q].pairs \in Nat
  BY DEF CountsOK
<1>3. Entered \in [Workers -> Nat] /\ Delayed \in [Workers -> Nat] /\ Pairs \in [Workers -> Nat]
  BY <1>2 DEF Entered, Delayed, Pairs
<1>4. Entered' \in [Workers -> Nat] /\ Delayed' \in [Workers -> Nat] /\ Pairs' \in [Workers -> Nat]
  BY <1>1 DEF Entered, Delayed, Pairs
<1>5. \A q \in Workers \ {p} :
        Entered'[q] = Entered[q] /\ Delayed'[q] = Delayed[q] /\ Pairs'[q] = Pairs[q]
  BY DEF Entered, Delayed, Pairs
<1>6. Pairs[p] = worker[p].pairs /\ Pairs'[p] = worker'[p].pairs
  BY DEF Pairs
<1>7. SumFunction(Entered) \in Nat /\ SumFunction(Entered') = SumFunction(Entered) - Entered[p] + Entered'[p]
  <2>1. Entered \in [Workers -> Nat] /\ Entered' \in [Workers -> Nat]
    BY <1>3, <1>4
  <2>2. \A q \in Workers \ {p} : Entered'[q] = Entered[q]
    BY <1>5
  <2>3. QED
    BY <2>1, <2>2, ThreadsFinite, TotalChanges
<1>8. SumFunction(Delayed) \in Nat /\ SumFunction(Delayed') = SumFunction(Delayed) - Delayed[p] + Delayed'[p]
  <2>1. Delayed \in [Workers -> Nat] /\ Delayed' \in [Workers -> Nat]
    BY <1>3, <1>4
  <2>2. \A q \in Workers \ {p} : Delayed'[q] = Delayed[q]
    BY <1>5
  <2>3. QED
    BY <2>1, <2>2, ThreadsFinite, TotalChanges
<1>9. SumFunction(Pairs) \in Nat /\ SumFunction(Pairs') = SumFunction(Pairs) - Pairs[p] + Pairs'[p]
  <2>1. Pairs \in [Workers -> Nat] /\ Pairs' \in [Workers -> Nat]
    BY <1>3, <1>4
  <2>2. \A q \in Workers \ {p} : Pairs'[q] = Pairs[q]
    BY <1>5
  <2>3. QED
    BY <2>1, <2>2, ThreadsFinite, TotalChanges
<1>10. QED
  BY <1>1, <1>6, <1>7, <1>8, <1>9

LEMMA WriterTotals ==
  ASSUME NEW w \in Writers, \A v \in Writers \ {w} : writer'[v] = writer[v]
  PROVE  /\ SumFunction(Uncounted) \in Nat
         /\ SumFunction(Uncounted)' = SumFunction(Uncounted) - Uncounted[w] + Uncounted'[w]
<1>1. Uncounted \in [Writers -> Nat] /\ Uncounted' \in [Writers -> Nat]
  BY DEF Uncounted
<1>2. \A v \in Writers \ {w} : Uncounted'[v] = Uncounted[v]
  BY DEF Uncounted
<1>3. QED
  BY <1>1, <1>2, ThreadsFinite, TotalChanges

-----------------------------------------------------------------------------
(* What a step of a worker does to its record. *)
LEMMA WorkerRecord ==
  ASSUME Inv, CountsOK, NEW p \in Workers, Worker(p)
  PROVE  /\ UNCHANGED <<main, mix, writer, totals, table, write_count>>
         /\ \A q \in Workers \ {p} : worker'[q] = worker[q]
         /\ \/ /\ worker[p].at = "loop" /\ worker'[p].at = "try"
               /\ worker'[p].probes = worker[p].probes /\ worker'[p].pairs = worker[p].pairs
               /\ probe_count' = probe_count + 1
               /\ UNCHANGED <<probe_blocked, hits>>
            \/ /\ worker[p].at = "loop" /\ worker'[p].at = "done"
               /\ worker'[p].probes = worker[p].probes /\ worker'[p].pairs = worker[p].pairs
               /\ UNCHANGED <<probe_count, probe_blocked, hits>>
            \/ /\ worker[p].at = "try" /\ worker'[p].at \in {"read", "wait"}
               /\ worker'[p].probes = worker[p].probes /\ worker'[p].pairs = worker[p].pairs
               /\ probe_blocked' \in {probe_blocked, probe_blocked + 1}
               /\ UNCHANGED <<probe_count, hits>>
            \/ /\ worker[p].at = "wait" /\ worker'[p].at = "read"
               /\ worker'[p].probes = worker[p].probes /\ worker'[p].pairs = worker[p].pairs
               /\ UNCHANGED <<probe_count, probe_blocked, hits>>
            \/ /\ worker[p].at = "read" /\ worker'[p].at = "loop"
               /\ worker'[p].probes = worker[p].probes + 1
               /\ worker'[p].pairs = worker[p].pairs + Size(table[S[worker[p].i + 1]])
               /\ hits' = [hits EXCEPT ![worker[p].i + 1] = @ + 1]
               /\ UNCHANGED <<probe_count, probe_blocked>>
<1>0. /\ worker = [q \in Workers |-> worker[q]]
      /\ DOMAIN worker[p] = {"at", "i", "probes", "pairs"}
      /\ worker[p] = [f \in DOMAIN worker[p] |-> worker[p][f]]
  BY DEF Inv, ShapeOK
<1>1. ASSUME NEW to, worker' = [worker EXCEPT ![p].at = to]
      PROVE  /\ worker'[p].at = to
             /\ worker'[p].probes = worker[p].probes /\ worker'[p].pairs = worker[p].pairs
             /\ \A q \in Workers \ {p} : worker'[q] = worker[q]
  BY <1>0, <1>1
<1>2. CASE WorkerLoop(p)
  <2>1. worker[p].at = "loop" /\ UNCHANGED <<main, run, txn, hits>>
        /\ worker' = [worker EXCEPT ![p].at = IF worker[p].i < Begin(p + 1) THEN "try" ELSE "done"]
    BY <1>2 DEF WorkerLoop, Step
  <2>2. CASE worker[p].i < Begin(p + 1)
    BY <1>1, <1>2, <2>1, <2>2 DEF WorkerLoop, CountProbe, run, txn
  <2>3. CASE ~ (worker[p].i < Begin(p + 1))
    BY <1>1, <1>2, <2>1, <2>3 DEF WorkerLoop, index, counts, run, txn
  <2>4. QED
    BY <2>2, <2>3
<1>3. CASE WorkerTry(p)
  <2>1. worker[p].at = "try" /\ UNCHANGED <<main, run, txn, hits>>
    BY <1>3 DEF WorkerTry, Step
  <2>2. CASE Step(p, "try", "read") /\ EnterShared(p)
    BY <1>1, <2>1, <2>2 DEF Step, EnterShared, counts, run, txn
  <2>3. CASE Step(p, "try", "wait") /\ MissShared
    BY <1>1, <2>1, <2>3 DEF Step, MissShared, run, txn
  <2>4. QED
    BY <1>3, <2>2, <2>3 DEF WorkerTry
<1>4. CASE WorkerWait(p)
  BY <1>1, <1>4 DEF WorkerWait, WaitShared, EnterShared, Step, counts, run, txn
<1>5. CASE WorkerRead(p)
  <2>1. /\ worker[p].at = "read" /\ UNCHANGED <<main, run, txn, table, counts>>
        /\ hits' = [hits EXCEPT ![worker[p].i + 1] = @ + 1]
        /\ worker' = [worker EXCEPT ![p].at = "loop", ![p].i = @ + 1,
                ![p].probes = @ + 1, ![p].pairs = @ + Size(table[S[worker[p].i + 1]])]
    BY <1>5 DEF WorkerRead, WorkerReads, LeaveShared
  <2>2. /\ worker'[p].at = "loop"
        /\ worker'[p].probes = worker[p].probes + 1
        /\ worker'[p].pairs = worker[p].pairs + Size(table[S[worker[p].i + 1]])
        /\ \A q \in Workers \ {p} : worker'[q] = worker[q]
    BY <1>0, <2>1
  <2>3. QED
    BY <2>1, <2>2 DEF counts, run, txn
<1>6. QED
  BY <1>2, <1>3, <1>4, <1>5 DEF Worker

(* The tuple a worker reads. *)
LEMMA TupleRead ==
  ASSUME Inv, NEW p \in Workers, worker[p].at = "read"
  PROVE  worker[p].i + 1 \in 1 .. Len(S) /\ hits[worker[p].i + 1] = 0
<1>1. /\ worker[p].i \in Begin(p) .. Begin(p + 1) /\ worker[p].i < Begin(p + 1)
      /\ \A j \in Begin(p) + 1 .. Begin(p + 1) : hits[j] = IF j <= worker[p].i THEN 1 ELSE 0
  BY DEF Inv, HitsOK
<1>2. worker[p].i + 1 \in Begin(p) + 1 .. Begin(p + 1) /\ worker[p].i \in Nat
  BY <1>1, ShareType
<1>3. ~ (worker[p].i + 1 <= worker[p].i)
  BY <1>2
<1>4. QED
  BY <1>1, <1>2, <1>3, ShareType, WorkersType, SMTT(40)

LEMMA WorkerCounts ==
  ASSUME Inv, CountsOK, BoundsOK, NEW p \in Workers, Worker(p)
  PROVE  CountsOK'
<1> DEFINE i == worker[p].i + 1
<1>1. /\ UNCHANGED <<main, mix, writer, totals, table, write_count>>
      /\ \A q \in Workers \ {p} : worker'[q] = worker[q]
  BY WorkerRecord
<1>2. worker[p].probes \in Nat /\ worker[p].pairs \in Nat
  BY DEF CountsOK
<1>3. worker'[p].probes \in Nat /\ worker'[p].pairs \in Nat
  <2>1. CASE worker[p].at = "read"
    <3>1. Size(table[S[i]]) \in Nat
      BY <2>1, TupleRead, KeyOfTuple, SizeType DEF BoundsOK, Contents
    <3>2. QED
      BY <1>2, <2>1, <3>1, WorkerRecord
  <2>2. CASE worker[p].at # "read"
    BY <1>2, <2>2, WorkerRecord
  <2>3. QED
    BY <2>1, <2>2
<1>4. /\ SumFunction(Entered) \in Nat /\ SumFunction(Delayed) \in Nat
      /\ SumFunction(Entered)' = SumFunction(Entered) - Entered[p] + Entered'[p]
      /\ SumFunction(Delayed)' = SumFunction(Delayed) - Delayed[p] + Delayed'[p]
      /\ \A q \in Workers : worker'[q].probes \in Nat /\ worker'[q].pairs \in Nat
  BY <1>1, <1>3, WorkerTotals
<1>5. /\ Entered[p] = worker[p].probes + (IF worker[p].at \in {"try", "wait", "read"} THEN 1 ELSE 0)
      /\ Entered'[p] = worker'[p].probes + (IF worker'[p].at \in {"try", "wait", "read"} THEN 1 ELSE 0)
      /\ Delayed[p] = worker[p].probes + (IF worker[p].at \in {"wait", "read"} THEN 1 ELSE 0)
      /\ Delayed'[p] = worker'[p].probes + (IF worker'[p].at \in {"wait", "read"} THEN 1 ELSE 0)
  BY DEF Entered, Delayed
<1>6. /\ probe_count = SumFunction(Entered)
      /\ probe_blocked \in Nat /\ probe_blocked <= SumFunction(Delayed)
  BY DEF CountsOK
<1>7. /\ probe_count' = SumFunction(Entered)'
      /\ probe_blocked' \in Nat /\ probe_blocked' <= SumFunction(Delayed)'
  <2>1. CASE worker[p].at = "loop"
    BY <1>2, <1>4, <1>5, <1>6, <2>1, WorkerRecord
  <2>2. CASE worker[p].at = "try"
    BY <1>2, <1>4, <1>5, <1>6, <2>2, WorkerRecord
  <2>3. CASE worker[p].at = "wait"
    BY <1>2, <1>4, <1>5, <1>6, <2>3, WorkerRecord
  <2>4. CASE worker[p].at = "read"
    BY <1>2, <1>4, <1>5, <1>6, <2>4, WorkerRecord
  <2>5. QED
    BY <2>1, <2>2, <2>3, <2>4, WorkerRecord
<1>8. Uncounted' = Uncounted
  BY <1>1 DEF Uncounted
<1>9. QED
  BY <1>1, <1>4, <1>7, <1>8 DEF CountsOK

(* The answers to a tuple that is read for the first time. *)
LEMMA AnswerAdded ==
  ASSUME Inv, NEW c \in Contents, NEW i \in 1 .. Len(S), hits[i] = 0,
         hits' = [hits EXCEPT ![i] = @ + 1]
  PROVE  /\ SumFunction(Answers(c)) \in Nat /\ Size(c[S[i]]) \in Nat
         /\ SumFunction([j \in 1 .. Len(S) |-> IF hits'[j] = 0 THEN 0 ELSE Size(c[S[j]])])
              = SumFunction(Answers(c)) + Size(c[S[i]])
<1> DEFINE g == [j \in 1 .. Len(S) |-> IF hits'[j] = 0 THEN 0 ELSE Size(c[S[j]])]
           n == Size(c[S[i]])
<1>1. \A j \in 1 .. Len(S) : Size(c[S[j]]) \in Nat
  BY KeyOfTuple, SizeType DEF Contents
<1>2. g \in [1 .. Len(S) -> Nat] /\ Answers(c) \in [1 .. Len(S) -> Nat]
  BY <1>1, AnswersType
<1>3. hits'[i] = 1 /\ \A j \in (1 .. Len(S)) \ {i} : hits'[j] = hits[j]
  BY DEF Inv, ShapeOK
<1>4. g[i] = n /\ Answers(c)[i] = 0 /\ n \in Nat
  BY <1>1, <1>3 DEF Answers
<1>5. \A j \in (1 .. Len(S)) \ {i} : g[j] = Answers(c)[j]
  BY <1>3 DEF Answers
<1> HIDE DEF g, n
<1>6. /\ SumFunction(Answers(c)) \in Nat
      /\ SumFunction(g) = SumFunction(Answers(c)) - Answers(c)[i] + g[i]
  <2> DEFINE T == 1 .. Len(S)
  <2>1. IsFiniteSet(T) /\ i \in T
    BY <1>1, ThreadsFinite
  <2>2. /\ g \in [T -> Nat] /\ Answers(c) \in [T -> Nat]
        /\ \A j \in T \ {i} : g[j] = Answers(c)[j]
    BY <1>2, <1>5
  <2> HIDE DEF T
  <2>3. QED
    BY <2>1, <2>2, TotalChanges
<1>7. SumFunction(g) = SumFunction(Answers(c)) + n
  BY <1>4, <1>6
<1>8. QED
  BY <1>4, <1>6, <1>7 DEF g, n

LEMMA WorkerBounds ==
  ASSUME Inv, CountsOK, BoundsOK, NEW p \in Workers, Worker(p)
  PROVE  BoundsOK'
<1>1. /\ UNCHANGED <<main, mix, writer, totals, table, write_count>>
      /\ \A q \in Workers \ {p} : worker'[q] = worker[q]
  BY WorkerRecord
<1>2. worker[p].at # "unborn" /\ main \notin {"load", "start", "spawn"}
  <2>1. worker[p].at # "unborn"
    BY WorkerRecord
  <2>2. QED
    BY <2>1 DEF BoundsOK
<1>3. table \in Contents /\ Relation \in Contents
  BY RelationAssumption DEF BoundsOK
<1>4. CASE worker[p].at # "read"
  <2>1. hits' = hits /\ worker'[p].pairs = worker[p].pairs
    BY <1>4, WorkerRecord
  <2>2. Pairs' = Pairs
    BY <1>1, <2>1 DEF Pairs
  <2>3. Answers(table)' = Answers(table) /\ Answers(Relation)' = Answers(Relation)
    BY <1>1, <2>1 DEF Answers
  <2>4. QED
    BY <1>1, <1>2, <2>2, <2>3 DEF BoundsOK, Within
<1>5. CASE worker[p].at = "read"
  <2> DEFINE i == worker[p].i + 1
             n == Size(table[S[i]])
             m == Size(Relation[S[i]])
  <2>1. i \in 1 .. Len(S) /\ hits[i] = 0 /\ hits' = [hits EXCEPT ![i] = @ + 1]
        /\ worker'[p].pairs = worker[p].pairs + n /\ worker'[p].probes = worker[p].probes + 1
    BY <1>5, TupleRead, WorkerRecord
  <2>2. /\ SumFunction(Answers(table)) \in Nat /\ n \in Nat
        /\ SumFunction(Answers(Relation)) \in Nat /\ m \in Nat
    BY <1>3, <2>1, AnswerAdded
  <2>3. /\ SumFunction(Answers(table))' = SumFunction(Answers(table)) + n
        /\ SumFunction(Answers(Relation))' = SumFunction(Answers(Relation)) + m
    <3>1. ASSUME NEW c \in Contents
          PROVE  SumFunction([j \in 1 .. Len(S) |-> IF hits'[j] = 0 THEN 0 ELSE Size(c[S[j]])])
                    = SumFunction(Answers(c)) + Size(c[S[i]])
      <4> HIDE DEF i
      <4>1. QED
        BY <2>1, AnswerAdded
    <3>2. /\ SumFunction(Answers(table))'
               = SumFunction([j \in 1 .. Len(S) |-> IF hits'[j] = 0 THEN 0 ELSE Size(table[S[j]])])
          /\ SumFunction(Answers(Relation))'
               = SumFunction([j \in 1 .. Len(S) |-> IF hits'[j] = 0 THEN 0 ELSE Size(Relation[S[j]])])
      BY <1>1 DEF Answers
    <3> HIDE DEF i
    <3>3. QED
      BY <1>3, <3>1, <3>2
  <2>4. worker[p].pairs \in Nat /\ worker'[p].pairs \in Nat /\ worker'[p].probes \in Nat
    <3>1. worker[p].pairs \in Nat /\ worker[p].probes \in Nat
      BY DEF CountsOK
    <3>2. /\ worker'[p].pairs = worker[p].pairs + n
          /\ worker'[p].probes = worker[p].probes + 1
      BY <2>1
    <3>3. n \in Nat
      BY <2>2
    <3> HIDE DEF i, n, m
    <3>4. QED
      BY <3>1, <3>2, <3>3
  <2>5. SumFunction(Pairs) \in Nat
        /\ SumFunction(Pairs)' = SumFunction(Pairs) - worker[p].pairs + worker'[p].pairs
    BY <1>1, <2>4, WorkerTotals
  <2>6. SumFunction(Pairs)' = SumFunction(Pairs) + n
    <3> HIDE DEF n
    <3>1. QED
      BY <2>1, <2>2, <2>4, <2>5
  <2>7. ASSUME NEW a \in Contents, NEW b \in Contents, Within(a, b)
        PROVE  Size(a[S[i]]) <= Size(b[S[i]])
    <3>1. S[i] \in Keys
      BY <2>1, KeyOfTuple
    <3> HIDE DEF i
    <3>2. a[S[i]] \in [TIDs -> Nat] /\ b[S[i]] \in [TIDs -> Nat]
          /\ \A t \in TIDs : a[S[i]][t] <= b[S[i]][t]
      BY <2>7, <3>1 DEF Contents, Within
    <3>3. QED
      BY <3>2, SizeMonotone
  <2>8. ASSUME mix = {"INSERT"}
        PROVE  /\ SumFunction(Answers(Relation))' <= SumFunction(Pairs)'
               /\ SumFunction(Pairs)' <= SumFunction(Answers(table))'
    <3>1. Within(Relation, table) /\ SumFunction(Answers(Relation)) <= SumFunction(Pairs)
          /\ SumFunction(Pairs) <= SumFunction(Answers(table))
      BY <1>2, <2>8 DEF BoundsOK
    <3>2. m <= n
      BY <1>3, <2>7, <3>1
    <3> HIDE DEF m, n
    <3>3. QED
      BY <2>2, <2>3, <2>5, <2>6, <3>1, <3>2
  <2>9. ASSUME mix = {"DELETE"}
        PROVE  /\ SumFunction(Answers(table))' <= SumFunction(Pairs)'
               /\ SumFunction(Pairs)' <= SumFunction(Answers(Relation))'
    <3>1. Within(table, Relation) /\ SumFunction(Answers(table)) <= SumFunction(Pairs)
          /\ SumFunction(Pairs) <= SumFunction(Answers(Relation))
      BY <1>2, <2>9 DEF BoundsOK
    <3>2. n <= m
      BY <1>3, <2>7, <3>1
    <3> HIDE DEF m, n
    <3>3. QED
      BY <2>2, <2>3, <2>5, <2>6, <3>1, <3>2
  <2> HIDE DEF i, n, m
  <2>10. QED
    BY <1>1, <1>2, <2>8, <2>9 DEF BoundsOK, Within
<1>6. QED
  BY <1>4, <1>5

-----------------------------------------------------------------------------
(* What a step of a writer does to its record. *)
LEMMA WriterRecord ==
  ASSUME Inv, CountsOK, NEW w \in Writers, Writer(w)
  PROVE  /\ UNCHANGED <<main, mix, worker, hits, probe_count, probe_blocked>>
         /\ \A v \in Writers \ {w} : writer'[v] = writer[v]
         /\ \/ /\ writer[w].at = "test" /\ writer'[w].at = "done"
               /\ UNCHANGED <<table, write_count, totals>>
            \/ /\ writer[w].at = "test" /\ writer'[w].at = "lock"
               /\ writer'[w].op \in WriteOp /\ writer'[w].op.op \in mix
               /\ UNCHANGED <<table, write_count, totals>>
            \/ /\ writer[w].at = "lock" /\ writer'[w].at = "update"
               /\ writer'[w].op = writer[w].op
               /\ UNCHANGED <<table, write_count, totals>>
            \/ /\ writer[w].at = "update" /\ writer'[w].at = "count"
               /\ writer'[w].op = writer[w].op
               /\ table' = Apply(table, writer[w].op)
               /\ write_count' = write_count + 1
               /\ UNCHANGED totals
            \/ /\ writer[w].at = "count" /\ writer'[w].at = "test"
               /\ totals' = [totals EXCEPT ![writer[w].op.op] = @ + 1]
               /\ UNCHANGED <<table, write_count>>
<1>0. /\ writer = [v \in Writers |-> writer[v]]
      /\ writer[w] \in [at : {"unborn", "test", "lock", "update", "count", "done"}, op : WriteOp \cup {NoOp}]
  BY DEF Inv, ShapeOK
<1>1. ASSUME NEW to, writer' = [writer EXCEPT ![w].at = to]
      PROVE  writer'[w].at = to /\ writer'[w].op = writer[w].op
             /\ \A v \in Writers \ {w} : writer'[v] = writer[v]
  BY <1>0, <1>1
<1>2. CASE WriterLeave(w)
  BY <1>1, <1>2 DEF WriterLeave, Move, index, counts, run, join
<1>3. CASE WriterCall(w)
  <2>1. PICK op \in WriteOp : op.op \in mix /\ writer' = [writer EXCEPT ![w] = [at |-> "lock", op |-> op]]
    BY <1>3 DEF WriterCall
  <2>2. writer'[w].at = "lock" /\ writer'[w].op = op /\ \A v \in Writers \ {w} : writer'[v] = writer[v]
    BY <1>0, <2>1
  <2>3. QED
    BY <1>3, <2>1, <2>2 DEF WriterCall, index, counts, run, join
<1>4. CASE WriterLock(w)
  BY <1>1, <1>4 DEF WriterLock, Move, EnterExclusive, counts, run, join
<1>5. CASE WriterUpdate(w)
  BY <1>1, <1>5 DEF WriterUpdate, Move, Update, run, join
<1>6. CASE WriterCount(w)
  BY <1>1, <1>6 DEF WriterCount, Move, index, counts, run, join
<1>7. QED
  BY <1>2, <1>3, <1>4, <1>5, <1>6 DEF Writer

LEMMA WriterCounts ==
  ASSUME Inv, CountsOK, NEW w \in Writers, Writer(w)
  PROVE  CountsOK'
<1>1. /\ UNCHANGED <<main, mix, worker, hits, probe_count, probe_blocked>>
      /\ \A v \in Writers \ {w} : writer'[v] = writer[v]
  BY WriterRecord
<1>2. Entered' = Entered /\ Delayed' = Delayed
  BY <1>1 DEF Entered, Delayed
<1>3. \A v \in Writers : writer'[v].at \in {"lock", "update", "count"} =>
        writer'[v].op \in WriteOp /\ writer'[v].op.op \in mix'
  <2> SUFFICES ASSUME NEW v \in Writers, writer'[v].at \in {"lock", "update", "count"}
               PROVE  writer'[v].op \in WriteOp /\ writer'[v].op.op \in mix
    BY <1>1
  <2>1. CASE v = w
    BY <2>1, WriterRecord DEF CountsOK
  <2>2. CASE v # w
    BY <1>1, <2>2 DEF CountsOK
  <2>3. QED
    BY <2>1, <2>2
<1>4. /\ SumFunction(Uncounted) \in Nat
      /\ SumFunction(Uncounted)' = SumFunction(Uncounted) - Uncounted[w] + Uncounted'[w]
  BY <1>1, WriterTotals
<1>5. /\ Uncounted[w] = IF writer[w].at = "count" THEN 1 ELSE 0
      /\ Uncounted'[w] = IF writer'[w].at = "count" THEN 1 ELSE 0
  BY DEF Uncounted
<1>6. /\ totals \in [{"INSERT", "DELETE"} -> Nat] /\ totals["INSERT"] \in Nat /\ totals["DELETE"] \in Nat
      /\ write_count = totals["INSERT"] + totals["DELETE"] + SumFunction(Uncounted)
  BY DEF CountsOK
<1>7. /\ totals' \in [{"INSERT", "DELETE"} -> Nat]
      /\ write_count' = totals'["INSERT"] + totals'["DELETE"] + SumFunction(Uncounted)'
  <2>1. CASE writer[w].at # "count"
    BY <1>4, <1>5, <1>6, <2>1, WriterRecord
  <2>2. CASE writer[w].at = "count"
    <3>1. /\ totals' = [totals EXCEPT ![writer[w].op.op] = @ + 1]
          /\ writer'[w].at = "test" /\ write_count' = write_count
      BY <2>2, WriterRecord
    <3>2. writer[w].op.op \in {"INSERT", "DELETE"}
      BY <2>2 DEF CountsOK
    <3>3. CASE writer[w].op.op = "INSERT"
      BY <1>4, <1>5, <1>6, <2>2, <3>1, <3>3
    <3>4. CASE writer[w].op.op = "DELETE"
      BY <1>4, <1>5, <1>6, <2>2, <3>1, <3>4
    <3>5. QED
      BY <3>2, <3>3, <3>4
  <2>3. QED
    BY <2>1, <2>2
<1>8. QED
  BY <1>1, <1>2, <1>3, <1>7 DEF CountsOK

(* An insert adds to the contents, a remove takes from them. *)
LEMMA ApplyBounds ==
  ASSUME NEW c \in Contents, NEW op \in WriteOp
  PROVE  /\ Apply(c, op) \in Contents
         /\ op.op = "INSERT" => Within(c, Apply(c, op))
         /\ op.op = "DELETE" => Within(Apply(c, op), c)
<1>1. op.key \in Keys /\ op.tid \in TIDs /\ op.op \in {"INSERT", "DELETE"}
  BY DEF WriteOp
<1>2. CASE op.op = "INSERT"
  <2> DEFINE d == [c EXCEPT ![op.key][op.tid] = @ + 1]
  <2>1. /\ d \in [Keys -> [TIDs -> Nat]]
        /\ \A k \in Keys, t \in TIDs : c[k][t] \in Nat
            /\ d[k][t] = IF k = op.key /\ t = op.tid THEN c[k][t] + 1 ELSE c[k][t]
    BY <1>1 DEF Contents
  <2>2. Apply(c, op) = d
    BY <1>2 DEF Apply
  <2> HIDE DEF d
  <2>3. QED
    BY <1>2, <2>1, <2>2 DEF Contents, Within
<1>3. CASE op.op = "DELETE"
  <2> DEFINE d == [c EXCEPT ![op.key][op.tid] = 0]
  <2>1. /\ d \in [Keys -> [TIDs -> Nat]]
        /\ \A k \in Keys, t \in TIDs : c[k][t] \in Nat
            /\ d[k][t] = IF k = op.key /\ t = op.tid THEN 0 ELSE c[k][t]
    BY <1>1 DEF Contents
  <2>2. Apply(c, op) = d
    BY <1>3 DEF Apply
  <2> HIDE DEF d
  <2>3. QED
    BY <1>3, <2>1, <2>2 DEF Contents, Within
<1>4. QED
  BY <1>1, <1>2, <1>3

LEMMA WithinTransitive ==
  ASSUME NEW a \in Contents, NEW b \in Contents, NEW c \in Contents, Within(a, b), Within(b, c)
  PROVE  Within(a, c)
<1> SUFFICES ASSUME NEW k \in Keys, NEW t \in TIDs PROVE a[k][t] <= c[k][t]
  BY DEF Within
<1>1. a[k][t] \in Nat /\ b[k][t] \in Nat /\ c[k][t] \in Nat
  BY DEF Contents
<1>2. a[k][t] <= b[k][t] /\ b[k][t] <= c[k][t]
  BY DEF Within
<1>3. QED
  BY <1>1, <1>2

LEMMA WriterBounds ==
  ASSUME Inv, CountsOK, BoundsOK, NEW w \in Writers, Writer(w)
  PROVE  BoundsOK'
<1>1. /\ UNCHANGED <<main, mix, worker, hits, probe_count, probe_blocked>>
      /\ \A v \in Writers \ {w} : writer'[v] = writer[v]
  BY WriterRecord
<1>2. main \notin {"load", "start"}
  <2>1. writer[w].at # "unborn"
    BY WriterRecord
  <2>2. QED
    BY <2>1 DEF BoundsOK
<1>3. Pairs' = Pairs /\ Answers(Relation)' = Answers(Relation)
  BY <1>1 DEF Pairs, Answers
<1>4. CASE writer[w].at # "update"
  <2>1. table' = table
    BY <1>4, WriterRecord
  <2>2. Answers(table)' = Answers(table)
    BY <1>1, <2>1 DEF Answers
  <2>3. QED
    BY <1>1, <1>2, <1>3, <2>1, <2>2 DEF BoundsOK, Within
<1>5. CASE writer[w].at = "update"
  <2> DEFINE new == Apply(table, writer[w].op)
  <2>1. table' = new /\ writer[w].op \in WriteOp /\ writer[w].op.op \in mix
    BY <1>5, WriterRecord DEF CountsOK
  <2>2. table \in Contents /\ Relation \in Contents
    BY RelationAssumption DEF BoundsOK
  <2>3. /\ new \in Contents
        /\ writer[w].op.op = "INSERT" => Within(table, new)
        /\ writer[w].op.op = "DELETE" => Within(new, table)
    BY <2>1, <2>2, ApplyBounds
  <2> HIDE DEF new
  <2>4. Answers(table)' = Answers(new)
    BY <1>1, <2>1 DEF Answers
  <2>5. SumFunction(Pairs) \in Nat
    BY TotalMonotone, ThreadsFinite DEF Pairs, CountsOK
  <2>6. ASSUME mix = {"INSERT"}
        PROVE  Within(Relation, new) /\ SumFunction(Pairs) <= SumFunction(Answers(new))
    <3>1. Within(table, new) /\ Within(Relation, table)
          /\ SumFunction(Pairs) <= SumFunction(Answers(table))
      BY <1>2, <2>1, <2>3, <2>6 DEF BoundsOK
    <3>2. Within(Relation, new)
      BY <2>2, <2>3, <3>1, WithinTransitive
    <3>3. /\ SumFunction(Answers(table)) \in Nat /\ SumFunction(Answers(new)) \in Nat
          /\ SumFunction(Answers(table)) <= SumFunction(Answers(new))
      BY <2>2, <2>3, <3>1, AnswersMonotone
    <3>4. QED
      BY <2>5, <3>1, <3>2, <3>3
  <2>7. ASSUME mix = {"DELETE"}
        PROVE  Within(new, Relation) /\ SumFunction(Answers(new)) <= SumFunction(Pairs)
    <3>1. Within(new, table) /\ Within(table, Relation)
          /\ SumFunction(Answers(table)) <= SumFunction(Pairs)
      BY <1>2, <2>1, <2>3, <2>7 DEF BoundsOK
    <3>2. Within(new, Relation)
      BY <2>2, <2>3, <3>1, WithinTransitive
    <3>3. /\ SumFunction(Answers(table)) \in Nat /\ SumFunction(Answers(new)) \in Nat
          /\ SumFunction(Answers(new)) <= SumFunction(Answers(table))
      BY <2>2, <2>3, <3>1, AnswersMonotone
    <3>4. QED
      BY <2>5, <3>1, <3>2, <3>3
  <2>8. Within(Relation, new) = Within(Relation, table)' /\ Within(new, Relation) = Within(table, Relation)'
    BY <2>1 DEF Within
  <2>9. QED
    BY <1>1, <1>2, <1>3, <2>1, <2>3, <2>4, <2>6, <2>7, <2>8 DEF BoundsOK
<1>6. QED
  BY <1>4, <1>5

-----------------------------------------------------------------------------
(* The steps of run_single leave the counters alone, and load the table before
   any tuple has been probed. *)
LEMMA MainCounts ==
  ASSUME Inv, CountsOK, Main
  PROVE  CountsOK'
<1>1. ASSUME UNCHANGED <<mix, totals, counts>>, Entered' = Entered, Delayed' = Delayed,
             Uncounted' = Uncounted,
             \A p \in Workers : worker'[p].probes = worker[p].probes /\ worker'[p].pairs = worker[p].pairs,
             \A w \in Writers : writer'[w].at \in {"lock", "update", "count"} => writer'[w] = writer[w]
      PROVE  CountsOK'
  BY <1>1 DEF CountsOK, counts
<1>2. ASSUME UNCHANGED <<mix, txn, worker, counts>> PROVE CountsOK'
  <2>1. Entered' = Entered /\ Delayed' = Delayed /\ Uncounted' = Uncounted
    BY <1>2 DEF Entered, Delayed, Uncounted, txn
  <2>2. QED
    BY <1>1, <1>2, <2>1 DEF txn
<1>3. CASE SpawnWriter
  <2> DEFINE w == Min(Unborn(Writers, writer))
  <2>1. w \in Writers /\ writer' = [writer EXCEPT ![w].at = "test"] /\ writer[w].at = "unborn"
        /\ UNCHANGED <<mix, totals, worker, counts>>
    BY <1>3, UnbornWriter DEF SpawnWriter, Unborn, run, join, index
  <2> HIDE DEF w
  <2>2. \A v \in Writers : writer'[v] = IF v = w THEN [writer[w] EXCEPT !.at = "test"] ELSE writer[v]
    BY <2>1 DEF Inv, ShapeOK
  <2>3. writer'[w].at = "test"
    BY <2>1, <2>2 DEF Inv, ShapeOK
  <2>4. Uncounted' = Uncounted
    BY <2>1, <2>2, <2>3 DEF Uncounted
  <2>5. Entered' = Entered /\ Delayed' = Delayed
    BY <2>1 DEF Entered, Delayed
  <2>6. QED
    BY <1>1, <2>1, <2>2, <2>3, <2>4, <2>5
<1>4. CASE SpawnWorker
  <2> DEFINE p == Min(Unborn(Workers, worker))
  <2>1. p \in Workers /\ worker' = [worker EXCEPT ![p].at = "loop"] /\ worker[p].at = "unborn"
        /\ UNCHANGED <<mix, totals, writer, counts>>
    BY <1>4, UnbornWorker DEF SpawnWorker, Unborn, run, txn, index
  <2> HIDE DEF p
  <2>2. /\ worker'[p].at = "loop" /\ worker'[p].probes = worker[p].probes
        /\ worker'[p].pairs = worker[p].pairs
        /\ \A q \in Workers \ {p} : worker'[q] = worker[q]
    BY <2>1 DEF Inv, ShapeOK
  <2>3. Entered' = Entered /\ Delayed' = Delayed
    BY <2>1, <2>2 DEF Entered, Delayed
  <2>4. Uncounted' = Uncounted
    BY <2>1 DEF Uncounted
  <2>5. \A q \in Workers : worker'[q].probes = worker[q].probes /\ worker'[q].pairs = worker[q].pairs
    BY <2>2
  <2>6. QED
    BY <1>1, <2>1, <2>3, <2>4, <2>5
<1>5. CASE Load \/ Start \/ WritersStarted \/ JoinWorkers \/ JoinStats \/ RaiseStop
           \/ JoinWriters \/ Collect
  <2>1. UNCHANGED <<mix, txn, worker, counts>>
    BY <1>5 DEF Load, BulkLoad, Start, WritersStarted, JoinWorkers, JoinStats, RaiseStop,
                JoinWriters, Collect, ReadStats, index, run, join
  <2>2. QED
    BY <1>2, <2>1
<1>6. QED
  BY <1>3, <1>4, <1>5 DEF Main

LEMMA MainBounds ==
  ASSUME Inv, CountsOK, BoundsOK, Main
  PROVE  BoundsOK'
<1>1. Relation \in Contents /\ table \in Contents
  BY RelationAssumption DEF BoundsOK
<1>2. CASE Load
  <2>1. /\ main = "load" /\ main' = "start" /\ table' = Relation
        /\ UNCHANGED <<mix, writer, worker, hits>>
    BY <1>2 DEF Load, BulkLoad, MainGoto, run, txn, join
  <2>2. \A i \in 1 .. Len(S) : hits[i] = 0
    BY <2>1 DEF BoundsOK
  <2>3. SumFunction(Answers(Relation)) = 0 /\ SumFunction(Answers(table)) = 0
    BY <1>1, <2>2, NothingAnswered
  <2>4. Pairs' = Pairs /\ Answers(Relation)' = Answers(Relation) /\ Answers(table)' = Answers(Relation)
    BY <2>1 DEF Pairs, Answers
  <2>5. Within(Relation, table)' /\ Within(table, Relation)'
    <3>1. \A k \in Keys, t \in TIDs : Relation[k][t] \in Nat
      BY <1>1 DEF Contents
    <3>2. QED
      BY <2>1, <3>1 DEF Within
  <2>6. QED
    BY <1>1, <2>1, <2>2, <2>3, <2>4, <2>5 DEF BoundsOK
<1>3. ASSUME UNCHANGED <<mix, table, worker, hits>>, main # "load",
             main' = "load" => main = "load",
             main' = "start" => main = "start" /\ writer' = writer,
             main' = "spawn" => main \in {"start", "spawn"}
      PROVE  BoundsOK'
  <2>1. Pairs' = Pairs /\ Answers(Relation)' = Answers(Relation) /\ Answers(table)' = Answers(table)
    BY <1>3 DEF Pairs, Answers
  <2>2. Within(Relation, table)' = Within(Relation, table) /\ Within(table, Relation)' = Within(table, Relation)
    BY <1>3 DEF Within
  <2>3. QED
    BY <1>3, <2>1, <2>2 DEF BoundsOK
<1>4. CASE SpawnWorker
  <2> DEFINE p == Min(Unborn(Workers, worker))
  <2>1. p \in Workers /\ worker' = [worker EXCEPT ![p].at = "loop"]
        /\ UNCHANGED <<main, mix, table, writer, hits>> /\ main = "execute"
    BY <1>4, UnbornWorker DEF SpawnWorker, Unborn, run, txn, index
  <2> HIDE DEF p
  <2>2. \A q \in Workers : worker'[q].pairs = worker[q].pairs
    BY <2>1 DEF Inv, ShapeOK
  <2>3. Pairs' = Pairs /\ Answers(Relation)' = Answers(Relation) /\ Answers(table)' = Answers(table)
    BY <2>1, <2>2 DEF Pairs, Answers
  <2>4. Within(Relation, table)' = Within(Relation, table) /\ Within(table, Relation)' = Within(table, Relation)
    BY <2>1 DEF Within
  <2>5. QED
    BY <2>1, <2>3, <2>4 DEF BoundsOK
<1>5. CASE Start
  BY <1>3, <1>5 DEF Start, MainGoto, index, txn, join
<1>6. CASE SpawnWriter
  BY <1>3, <1>6 DEF SpawnWriter, index, run, join
<1>7. CASE WritersStarted \/ JoinWorkers \/ JoinStats \/ RaiseStop \/ JoinWriters \/ Collect
  BY <1>3, <1>7 DEF WritersStarted, JoinWorkers, JoinStats, RaiseStop, JoinWriters, Collect,
                    MainGoto, ReadStats, index, run, join
<1>8. QED
  BY <1>2, <1>4, <1>5, <1>6, <1>7 DEF Main

-----------------------------------------------------------------------------
JoinInv == Inv /\ CountsOK /\ BoundsOK

LEMMA InitJoinInv == Init => JoinInv
<1> SUFFICES ASSUME Init PROVE JoinInv
  OBVIOUS
<1>1. Inv
  BY InitInv
<1>2. /\ \A p \in Workers : /\ worker[p].at = "unborn"
                            /\ worker[p].probes = 0 /\ worker[p].pairs = 0
      /\ \A w \in Writers : writer[w].at = "unborn"
      /\ \A i \in 1 .. Len(S) : hits[i] = 0
      /\ main = "load" /\ probe_count = 0 /\ probe_blocked = 0 /\ write_count = 0
      /\ totals["INSERT"] = 0 /\ totals["DELETE"] = 0
      /\ totals \in [{"INSERT", "DELETE"} -> Nat]
      /\ mix \subseteq {"INSERT", "DELETE"}
  BY DEF Init, IndexInit
<1>3. SumFunction(Entered) = 0 /\ SumFunction(Delayed) = 0 /\ SumFunction(Pairs) = 0
  <2>1. /\ Entered \in [Workers -> Nat] /\ Delayed \in [Workers -> Nat] /\ Pairs \in [Workers -> Nat]
        /\ \A p \in Workers : Entered[p] = 0 /\ Delayed[p] = 0 /\ Pairs[p] = 0
    BY <1>2 DEF Entered, Delayed, Pairs
  <2>2. QED
    BY <2>1, ThreadsFinite, TotalZero
<1>4. SumFunction(Uncounted) = 0
  <2>1. Uncounted \in [Writers -> Nat] /\ \A w \in Writers : Uncounted[w] = 0
    BY <1>2 DEF Uncounted
  <2>2. QED
    BY <2>1, ThreadsFinite, TotalZero
<1>5. CountsOK
  BY <1>2, <1>3, <1>4 DEF CountsOK
<1>6. Relation \in Contents /\ table \in Contents
  BY RelationAssumption DEF Init, IndexInit, EmptyContents, Contents
<1>7. SumFunction(Answers(Relation)) = 0 /\ SumFunction(Answers(table)) = 0
  BY <1>2, <1>6, NothingAnswered
<1>8. BoundsOK
  BY <1>2, <1>3, <1>6, <1>7 DEF BoundsOK
<1>9. QED
  BY <1>1, <1>5, <1>8 DEF JoinInv

LEMMA StepJoinInv == JoinInv /\ [Next]_vars => JoinInv'
<1> SUFFICES ASSUME JoinInv, [Next]_vars PROVE JoinInv'
  OBVIOUS
<1>1. Inv /\ CountsOK /\ BoundsOK
  BY DEF JoinInv
<1>2. Inv'
  BY <1>1, StepInv
<1>3. CASE UNCHANGED vars
  <2>1. UNCHANGED <<table, counts, main, mix, writer, totals, worker, hits>>
    BY <1>3 DEF vars, index, run, txn, join
  <2>2. CountsOK'
    BY <1>1, <2>1 DEF CountsOK, counts, Entered, Delayed, Uncounted
  <2>3. BoundsOK'
    BY <1>1, <2>1 DEF BoundsOK, Within, Answers, Pairs
  <2>4. QED
    BY <1>2, <2>2, <2>3 DEF JoinInv
<1>4. CASE Main
  BY <1>1, <1>2, <1>4, MainCounts, MainBounds DEF JoinInv
<1>5. ASSUME NEW w \in Writers, Writer(w) PROVE JoinInv'
  BY <1>1, <1>2, <1>5, WriterCounts, WriterBounds DEF JoinInv
<1>6. ASSUME NEW p \in Workers, Worker(p) PROVE JoinInv'
  BY <1>1, <1>2, <1>6, WorkerCounts, WorkerBounds DEF JoinInv
<1>7. QED
  BY <1>3, <1>4, <1>5, <1>6 DEF Next, Terminated

LEMMA JoinInvariance == Spec => []JoinInv
BY InitJoinInv, StepJoinInv, PTL DEF Spec

(* Whatever the interleaving, the index has counted as many probes as the
   workers and as many writes as the writers when the counts are collected, and
   no probe as blocked twice (nhj_index.cpp:11, txn_manager.cpp:97). *)
THEOREM CountsMatch == Spec => []CountsAgree
<1>1. JoinInv => CountsAgree
  <2> SUFFICES ASSUME JoinInv, main = "done"
               PROVE  /\ probe_count = SumFunction([p \in Workers |-> worker[p].probes])
                      /\ probe_blocked <= probe_count
                      /\ write_count = totals["INSERT"] + totals["DELETE"]
    BY DEF CountsAgree
  <2>1. /\ \A p \in Workers : worker[p].at = "done"
        /\ \A w \in Writers : writer[w].at = "done"
    BY DEF JoinInv, Inv, PhaseOK
  <2>2. \A p \in Workers : worker[p].probes \in Nat
    BY DEF JoinInv, CountsOK
  <2>3. Entered = [p \in Workers |-> worker[p].probes] /\ Delayed = Entered
    BY <2>1, <2>2 DEF Entered, Delayed
  <2>4. SumFunction(Uncounted) = 0
    <3>1. Uncounted \in [Writers -> Nat] /\ \A w \in Writers : Uncounted[w] = 0
      BY <2>1 DEF Uncounted
    <3>2. QED
      BY <3>1, ThreadsFinite, TotalZero
  <2>5. totals["INSERT"] \in Nat /\ totals["DELETE"] \in Nat
    BY DEF JoinInv, CountsOK
  <2>6. QED
    BY <2>3, <2>4, <2>5 DEF JoinInv, CountsOK
<1>2. QED
  BY <1>1, JoinInvariance, PTL

(* The join adds up answers from different moments, but if the writers only
   insert, or only delete, its size lies between the one with the relation as
   loaded and the one with what is left (join_executor.cpp:45). *)
THEOREM JoinBounded == Spec => []JoinBetween
<1>1. JoinInv /\ TuplesProbedOnce => JoinBetween
  <2> SUFFICES ASSUME JoinInv, TuplesProbedOnce, main = "done"
               PROVE  /\ mix = {"INSERT"} => SumFunction(Pairs) \in JoinSize(Relation) .. JoinSize(table)
                      /\ mix = {"DELETE"} => SumFunction(Pairs) \in JoinSize(table) .. JoinSize(Relation)
    BY DEF JoinBetween, Pairs
  <2>1. \A p \in Workers : worker[p].at = "done"
    BY DEF JoinInv, Inv, PhaseOK
  <2>2. \A i \in 1 .. Len(S) : hits[i] = 1
    BY <2>1 DEF TuplesProbedOnce
  <2>3. Answers(Relation) = [i \in 1 .. Len(S) |-> Size(Relation[S[i]])]
        /\ Answers(table) = [i \in 1 .. Len(S) |-> Size(table[S[i]])]
    BY <2>2 DEF Answers
  <2>4. SumFunction(Answers(Relation)) = JoinSize(Relation) /\ SumFunction(Answers(table)) = JoinSize(table)
    BY <2>3 DEF JoinSize
  <2>5. JoinSize(Relation) \in Nat /\ JoinSize(table) \in Nat
    <3>1. Relation \in Contents /\ table \in Contents
      BY RelationAssumption DEF JoinInv, BoundsOK
    <3>2. ASSUME NEW c \in Contents PROVE SumFunction(Answers(c)) \in Nat
      BY AnswersType, ThreadsFinite, TotalMonotone
    <3>3. QED
      BY <2>4, <3>1, <3>2
  <2>6. SumFunction(Pairs) \in Nat
    <3>1. Pairs \in [Workers -> Nat]
      BY DEF JoinInv, CountsOK, Pairs
    <3>2. QED
      BY <3>1, ThreadsFinite, TotalMonotone
  <2>7. QED
    BY <2>4, <2>5, <2>6 DEF JoinInv, BoundsOK
<1>2. QED
  BY <1>1, JoinInvariance, EachTupleOnce, PTL

-----------------------------------------------------------------------------
(* The lock, and that nobody waits for ever. *)

(* Who holds rw_mutex_ is past the step that takes it and before the one that
   ends the critical section. *)
LockOK ==
    /\ holder \in Writers \cup {NoThread}
    /\ \A w \in Writers : writer[w].at = "update" <=> holder = w
    /\ readers = {p \in Workers : worker[p].at = "read"}
    /\ holder # NoThread => readers = {}

StageOK ==
    /\ main \notin {"load", "start", "spawn"} => \A w \in Writers : writer[w].at # "unborn"
    /\ main = "join" => stop_flag

WaitInv == JoinInv /\ LockOK /\ StageOK

(* A writer in its critical section is alone with the table. *)
LockExcludes ==
    \A w \in Writers : writer[w].at = "update" =>
        /\ \A v \in Writers : writer[v].at = "update" => v = w
        /\ \A p \in Workers : worker[p].at # "read"

(* What keeps a thread waiting is the lock, or a join of threads. *)
MainReady ==
    \/ main = "load" /\ holder = NoThread /\ readers = {}
    \/ main \in {"start", "spawn", "stop"}
    \/ main = "execute" /\ Unborn(Workers, worker) # {}
    \/ main = "execute" /\ \A p \in Workers : worker[p].at = "done"
    \/ main \in {"stats", "collect"} /\ holder = NoThread
    \/ main = "join" /\ \A w \in Writers : writer[w].at = "done"

(* Without another write of its own: a loop that may only go on is not ready. *)
WriterReady(w) ==
    \/ writer[w].at = "test" /\ (stop_flag \/ Timed)
    \/ writer[w].at = "lock" /\ holder = NoThread /\ readers = {}
    \/ writer[w].at \in {"update", "count"}

WorkerReady(p) ==
    \/ worker[p].at \in {"loop", "try", "read"}
    \/ worker[p].at = "wait" /\ holder = NoThread

SomebodyReady ==
    main # "done" =>
        MainReady \/ (\E w \in Writers : WriterReady(w)) \/ (\E p \in Workers : WorkerReady(p))
-----------------------------------------------------------------------------
(* A worker that goes from one place to another, without the lock, into its
   critical section, or out of it. *)
LEMMA WorkerLocks ==
  ASSUME LockOK, NEW p \in Workers, NEW to, UNCHANGED <<writer, holder>>,
         \A q \in Workers : worker'[q].at = IF q = p THEN to ELSE worker[q].at,
         \/ worker[p].at # "read" /\ to # "read" /\ readers' = readers
         \/ to = "read" /\ holder = NoThread /\ readers' = readers \cup {p}
         \/ to # "read" /\ readers' = readers \ {p}
  PROVE  LockOK'
<1>1. readers' = {q \in Workers : worker'[q].at = "read"}
  BY DEF LockOK
<1>2. holder' # NoThread => readers' = {}
  BY DEF LockOK
<1> QED
  BY <1>1, <1>2 DEF LockOK

LEMMA WorkerWaits ==
  ASSUME WaitInv, NEW p \in Workers, Worker(p)
  PROVE  LockOK' /\ StageOK'
<1> USE DEF WaitInv
<1>0. /\ worker = [q \in Workers |-> worker[q]]
      /\ DOMAIN worker[p] = {"at", "i", "probes", "pairs"}
      /\ worker[p] = [f \in DOMAIN worker[p] |-> worker[p][f]]
  BY DEF JoinInv, Inv, ShapeOK
<1>1. UNCHANGED <<main, writer, stop_flag, holder>>
  BY DEF Worker, WorkerLoop, WorkerTry, WorkerWait, WorkerRead, WorkerReads, CountProbe, WaitShared,
         EnterShared, MissShared, LeaveShared, run, txn, index, rw_mutex
<1>2. StageOK'
  BY <1>1 DEF StageOK
<1>3. ASSUME NEW to, worker' = [worker EXCEPT ![p].at = to]
      PROVE  \A q \in Workers : worker'[q].at = IF q = p THEN to ELSE worker[q].at
  BY <1>0, <1>3
<1>4. CASE WorkerLoop(p)
  <2>1. PICK to \in {"try", "done"} : worker' = [worker EXCEPT ![p].at = to]
    BY <1>4 DEF WorkerLoop, Step
  <2>2. worker[p].at = "loop" /\ readers' = readers
    BY <1>4 DEF WorkerLoop, Step, CountProbe, index, rw_mutex
  <2>3. \A q \in Workers : worker'[q].at = IF q = p THEN to ELSE worker[q].at
    BY <1>3, <2>1
  <2> QED
    BY <1>1, <1>2, <2>2, <2>3, WorkerLocks
<1>5. CASE Step(p, "try", "wait") /\ MissShared
  <2>1. worker' = [worker EXCEPT ![p].at = "wait"] /\ worker[p].at = "try" /\ readers' = readers
    BY <1>5 DEF Step, MissShared, rw_mutex
  <2>2. \A q \in Workers : worker'[q].at = IF q = p THEN "wait" ELSE worker[q].at
    BY <1>3, <2>1
  <2> QED
    BY <1>1, <1>2, <2>1, <2>2, WorkerLocks
<1>6. CASE (Step(p, "try", "read") \/ Step(p, "wait", "read")) /\ EnterShared(p)
  <2>1. /\ worker' = [worker EXCEPT ![p].at = "read"]
        /\ holder = NoThread /\ readers' = readers \cup {p}
    BY <1>6 DEF Step, EnterShared
  <2>2. \A q \in Workers : worker'[q].at = IF q = p THEN "read" ELSE worker[q].at
    BY <1>3, <2>1
  <2> QED
    BY <1>1, <1>2, <2>1, <2>2, WorkerLocks
<1>7. CASE WorkerRead(p)
  <2>1. /\ worker' = [worker EXCEPT ![p].at = "loop", ![p].i = @ + 1,
                ![p].probes = @ + 1, ![p].pairs = @ + Size(table[S[worker[p].i + 1]])]
        /\ readers' = readers \ {p}
    BY <1>7 DEF WorkerRead, WorkerReads, LeaveShared
  <2>2. \A q \in Workers : worker'[q].at = IF q = p THEN "loop" ELSE worker[q].at
    BY <1>0, <2>1
  <2> QED
    BY <1>1, <1>2, <2>1, <2>2, WorkerLocks
<1> QED
  BY <1>4, <1>5, <1>6, <1>7 DEF Worker, WorkerTry, WorkerWait, WaitShared

(* A writer that goes from one place to another, likewise. *)
LEMMA WriterLocks ==
  ASSUME LockOK, NEW w \in Writers, NEW to, UNCHANGED <<worker, readers>>,
         \A v \in Writers : writer'[v].at = IF v = w THEN to ELSE writer[v].at,
         \/ writer[w].at # "update" /\ to # "update" /\ holder' = holder
         \/ to = "update" /\ holder = NoThread /\ readers = {} /\ holder' = w
         \/ writer[w].at = "update" /\ to # "update" /\ holder' = NoThread
  PROVE  LockOK'
<1>1. \A v \in Writers : v # NoThread
  BY TrialAssumption DEF Writers
<1>2. \A v \in Writers : writer'[v].at = "update" <=> holder' = v
  BY <1>1 DEF LockOK
<1> QED
  BY <1>2 DEF LockOK

LEMMA WriterWaits ==
  ASSUME WaitInv, NEW w \in Writers, Writer(w)
  PROVE  LockOK' /\ StageOK'
<1> USE DEF WaitInv
<1>0. /\ writer = [v \in Writers |-> writer[v]]
      /\ writer[w] \in [at : {"unborn", "test", "lock", "update", "count", "done"}, op : WriteOp \cup {NoOp}]
  BY DEF JoinInv, Inv, ShapeOK
<1>1. UNCHANGED <<main, worker, stop_flag, readers>>
  BY DEF Writer, WriterLeave, WriterCall, WriterLock, WriterUpdate, WriterCount, EnterExclusive, Update,
         run, join, index, rw_mutex
<1>2. ASSUME NEW to, \A v \in Writers : writer'[v].at = IF v = w THEN to ELSE writer[v].at,
             to # "unborn"
      PROVE  StageOK'
  BY <1>1, <1>2 DEF StageOK
<1>3. ASSUME NEW to, writer' = [writer EXCEPT ![w].at = to]
      PROVE  \A v \in Writers : writer'[v].at = IF v = w THEN to ELSE writer[v].at
  BY <1>0, <1>3
<1>4. CASE WriterLeave(w) \/ WriterCount(w)
  <2>1. PICK to \in {"done", "test"} : writer' = [writer EXCEPT ![w].at = to]
    BY <1>4 DEF WriterLeave, WriterCount, Move
  <2>2. writer[w].at # "update" /\ holder' = holder
    BY <1>4 DEF WriterLeave, WriterCount, Move, index, rw_mutex
  <2>3. \A v \in Writers : writer'[v].at = IF v = w THEN to ELSE writer[v].at
    BY <1>3, <2>1
  <2> QED
    BY <1>1, <1>2, <2>1, <2>2, <2>3, WriterLocks
<1>5. CASE WriterCall(w)
  <2>1. PICK op \in WriteOp : writer' = [writer EXCEPT ![w] = [at |-> "lock", op |-> op]]
    BY <1>5 DEF WriterCall
  <2>2. \A v \in Writers : writer'[v].at = IF v = w THEN "lock" ELSE writer[v].at
    BY <1>0, <2>1
  <2>3. writer[w].at = "test" /\ holder' = holder
    BY <1>5 DEF WriterCall, index, rw_mutex
  <2> QED
    BY <1>1, <1>2, <2>2, <2>3, WriterLocks
<1>6. CASE WriterLock(w)
  <2>1. /\ writer' = [writer EXCEPT ![w].at = "update"]
        /\ holder = NoThread /\ readers = {} /\ holder' = w
    BY <1>6 DEF WriterLock, Move, EnterExclusive
  <2>2. \A v \in Writers : writer'[v].at = IF v = w THEN "update" ELSE writer[v].at
    BY <1>3, <2>1
  <2> QED
    BY <1>1, <1>2, <2>1, <2>2, WriterLocks
<1>7. CASE WriterUpdate(w)
  <2>1. /\ writer' = [writer EXCEPT ![w].at = "count"] /\ writer[w].at = "update"
        /\ holder' = NoThread
    BY <1>7 DEF WriterUpdate, Move, Update
  <2>2. \A v \in Writers : writer'[v].at = IF v = w THEN "count" ELSE writer[v].at
    BY <1>3, <2>1
  <2> QED
    BY <1>1, <1>2, <2>1, <2>2, WriterLocks
<1> QED
  BY <1>4, <1>5, <1>6, <1>7 DEF Writer

LEMMA MainWaits ==
  ASSUME WaitInv, Main
  PROVE  LockOK' /\ StageOK'
<1> USE DEF WaitInv
<1>1. UNCHANGED <<readers, holder>>
  BY DEF Main, Load, Start, SpawnWriter, WritersStarted, SpawnWorker, JoinWorkers, JoinStats, RaiseStop,
         JoinWriters, Collect, BulkLoad, ReadStats, index, rw_mutex
<1>2. ASSUME UNCHANGED <<writer, worker>> PROVE LockOK'
  BY <1>1, <1>2 DEF LockOK
<1>3. CASE SpawnWriter
  <2> DEFINE w == Min(Unborn(Writers, writer))
  <2>1. /\ w \in Writers /\ writer' = [writer EXCEPT ![w].at = "test"] /\ writer[w].at = "unborn"
        /\ main = "spawn" /\ UNCHANGED <<main, worker>>
    BY <1>3, UnbornWriter DEF SpawnWriter, Unborn, join
  <2> HIDE DEF w
  <2>2. \A v \in Writers : writer'[v].at = IF v = w THEN "test" ELSE writer[v].at
    BY <2>1 DEF JoinInv, Inv, ShapeOK
  <2> QED
    BY <1>1, <2>1, <2>2, WriterLocks DEF StageOK
<1>4. CASE SpawnWorker
  <2> DEFINE p == Min(Unborn(Workers, worker))
  <2>1. /\ p \in Workers /\ worker' = [worker EXCEPT ![p].at = "loop"] /\ worker[p].at = "unborn"
        /\ UNCHANGED <<main, stop_flag, writer>>
    BY <1>4, UnbornWorker DEF SpawnWorker, Unborn, run, txn
  <2> HIDE DEF p
  <2>2. \A q \in Workers : worker'[q].at = IF q = p THEN "loop" ELSE worker[q].at
    BY <2>1 DEF JoinInv, Inv, ShapeOK
  <2> QED
    BY <1>1, <2>1, <2>2, WorkerLocks DEF StageOK
<1>5. CASE WritersStarted
  <2>1. \A w \in Writers : writer[w].at # "unborn"
    BY <1>5 DEF WritersStarted, Unborn
  <2> QED
    BY <1>2, <1>5, <2>1 DEF WritersStarted, MainGoto, StageOK, txn, join
<1>6. CASE RaiseStop
  BY <1>2, <1>6 DEF RaiseStop, MainGoto, StageOK, JoinInv, Inv, PhaseOK, txn, join
<1>7. CASE Load \/ Start
  BY <1>2, <1>7 DEF Load, Start, MainGoto, StageOK, JoinInv, Inv, PhaseOK, txn, join
<1>8. CASE JoinWorkers \/ JoinStats \/ JoinWriters \/ Collect
  BY <1>2, <1>8 DEF JoinWorkers, JoinStats, JoinWriters, Collect, MainGoto, StageOK, txn, join
<1> QED
  BY <1>3, <1>4, <1>5, <1>6, <1>7, <1>8 DEF Main

LEMMA WaitInvariance == Spec => []WaitInv
<1>1. Init => LockOK /\ StageOK
  BY TrialAssumption DEF Init, IndexInit, LockOK, StageOK, Writers
<1>2. WaitInv /\ [Next]_vars => LockOK' /\ StageOK'
  <2> SUFFICES ASSUME WaitInv, [Next]_vars PROVE LockOK' /\ StageOK'
    OBVIOUS
  <2>1. CASE UNCHANGED vars
    BY <2>1 DEF WaitInv, LockOK, StageOK, vars, index, rw_mutex, run, txn, join
  <2> QED
    BY <2>1, MainWaits, WriterWaits, WorkerWaits DEF Next, Terminated
<1> QED
  BY <1>1, <1>2, JoinInvariance, PTL DEF Spec, WaitInv

(* While a writer changes the table no other thread is in its critical section:
   what a probe copies is the list of one moment (nhj_index.cpp:23). *)
THEOREM WritersAlone == Spec => []LockExcludes
<1>1. WaitInv => LockExcludes
  <2> SUFFICES ASSUME WaitInv, NEW w \in Writers, writer[w].at = "update"
               PROVE  /\ \A v \in Writers : writer[v].at = "update" => v = w
                      /\ \A p \in Workers : worker[p].at # "read"
    BY DEF LockExcludes
  <2>1. holder = w /\ w # NoThread
    BY TrialAssumption DEF WaitInv, LockOK, Writers
  <2> QED
    BY <2>1 DEF WaitInv, LockOK
<1> QED
  BY <1>1, WaitInvariance, PTL

(* Until the trial is over some thread can go on, though no writer begins
   another write: nobody waits for the lock in a circle, and what run_single
   joins is told to end (benchmark.cpp:125, txn_manager.cpp:60). *)
THEOREM NoDeadlock == Spec => []SomebodyReady
<1>1. WaitInv => SomebodyReady
  <2> SUFFICES ASSUME WaitInv, main # "done",
                      \A w \in Writers : ~ WriterReady(w), \A p \in Workers : ~ WorkerReady(p)
               PROVE  MainReady
    BY DEF SomebodyReady
  <2>1. holder = NoThread
    BY DEF WaitInv, LockOK, WriterReady
  <2>2. readers = {}
    BY DEF WaitInv, LockOK, WorkerReady
  <2>3. ASSUME NEW p \in Workers PROVE worker[p].at \in {"unborn", "done"}
    BY <2>1, <2>3 DEF WaitInv, JoinInv, Inv, HitsOK, WorkerReady
  <2>4. main = "join" => \A w \in Writers : writer[w].at = "done"
    BY <2>1, <2>2 DEF WaitInv, JoinInv, Inv, ShapeOK, StageOK, WriterReady
  <2>5. Unborn(Workers, worker) = {} => \A p \in Workers : worker[p].at = "done"
    BY <2>3 DEF Unborn
  <2> QED
    BY <2>1, <2>2, <2>4, <2>5 DEF MainReady, WaitInv, JoinInv, Inv, PhaseOK
<1> QED
  BY <1>1, WaitInvariance, PTL
=============================================================================
