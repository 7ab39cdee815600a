--------------------------- MODULE BenchV1_proofs ---------------------------
(***************************************************************************)
(* What the skew-aware join returns, what the program prints and what the  *)
(* baseline joins agree on, for all relations, numbers of threads and of   *)
(* partitions.  First, what the loops over a relation and over the threads *)
(* compute; then the join of a partition; then the program.                *)
(***************************************************************************)
EXTENDS BenchV1, FiniteSetTheorems, SequenceTheorems, WellFoundedInduction,
        TLAPS

\* A set of natural numbers has a smallest one.
LEMMA Smallest ==
  ASSUME NEW T \in SUBSET Nat, T # {}
  PROVE  \E x \in T : \A y \in T : x <= y
<1>1. PICK x \in T : \A y \in T : ~ (<<y, x>> \in OpToRel(<, Nat))
  BY NatLessThanWellFounded, WFMin
<1>2. ASSUME NEW y \in T PROVE x <= y
  <2>1. ~ (y < x)
    BY <1>1 DEF OpToRel
  <2> QED
    BY <2>1
<1> QED
  BY <1>2

-----------------------------------------------------------------------------
\* A loop of n rounds: what is there after each of them.
Loop(f, base, step, n) ==
    f = [i \in 0 .. n |-> IF i = 0 THEN base ELSE step[<<f[i - 1], i>>]]

\* Any loop can be run, and stays in the set of its values.
LEMMA LoopExists ==
  ASSUME NEW N \in Nat, NEW V, NEW base \in V, NEW step \in [V \X (1 .. N) -> V]
  PROVE  \E f \in [0 .. N -> V] : Loop(f, base, step, N)
<1> DEFINE P(n) == \E f \in [0 .. n -> V] : Loop(f, base, step, n)
           B == {n \in 0 .. N : ~ P(n)}
<1> SUFFICES ASSUME B # {} PROVE FALSE
  <2>1. N \in 0 .. N
    OBVIOUS
  <2> QED
    BY <2>1
<1>1. PICK m \in B : \A y \in B : m <= y
  <2>1. B \in SUBSET Nat
    OBVIOUS
  <2> HIDE DEF B
  <2> QED
    BY <2>1, Smallest
<1>2. m \in 0 .. N /\ ~ P(m)
  BY <1>1
<1>3. \A y \in 0 .. N : y < m => P(y)
  <2> SUFFICES ASSUME NEW y \in 0 .. N, y < m, ~ P(y) PROVE FALSE
    OBVIOUS
  <2>1. y \in B
    OBVIOUS
  <2> HIDE DEF B, P
  <2> QED
    BY <1>1, <1>2, <2>1
<1> HIDE DEF B
<1>4. CASE m = 0
  <2> DEFINE f == [i \in 0 .. 0 |-> base]
  <2>1. f = [i \in 0 .. 0 |-> IF i = 0 THEN base ELSE step[<<f[i - 1], i>>]]
    OBVIOUS
  <2>2. f \in [0 .. 0 -> V]
    OBVIOUS
  <2> HIDE DEF f
  <2>3. P(0)
    BY <2>1, <2>2 DEF Loop
  <2> QED
    BY <1>2, <1>4, <2>3
<1>5. CASE m # 0
  <2>1. m - 1 \in 0 .. N /\ m - 1 < m /\ m \in 1 .. N /\ m \in Nat
    BY <1>2, <1>5
  <2>2. PICK q \in [0 .. m - 1 -> V] : Loop(q, base, step, m - 1)
    BY <1>3, <2>1
  <2> DEFINE D(f, i) == step[<<f[i - 1], i>>]
             p == [i \in 0 .. m |-> IF i = m THEN D(q, m) ELSE q[i]]
             r == [i \in 0 .. m |-> IF i = 0 THEN base ELSE D(p, i)]
  <2>3. ASSUME NEW i \in 0 .. m PROVE p[i] = r[i]
    <3>1. CASE i = 0
      <4>1. p[i] = q[0] /\ 0 \in 0 .. m - 1
        BY <2>1, <1>5, <3>1
      <4>2. q[0] = base
        BY <2>2, <4>1 DEF Loop
      <4> QED
        BY <3>1, <4>1, <4>2
    <3>2. CASE i = m
      <4>1. p[m - 1] = q[m - 1]
        BY <2>1
      <4>2. D(p, m) = D(q, m)
        BY <4>1
      <4>3. p[i] = D(q, m) /\ r[i] = D(p, m)
        BY <2>1, <1>5, <3>2
      <4> QED
        BY <4>2, <4>3
    <3>3. CASE i # 0 /\ i # m
      <4>1. i \in 0 .. m - 1 /\ i - 1 \in 0 .. m /\ i - 1 # m
        BY <2>1, <3>3
      <4>2. p[i] = q[i] /\ p[i - 1] = q[i - 1]
        BY <3>3, <4>1
      <4>3. q[i] = D(q, i)
        BY <2>2, <3>3, <4>1 DEF Loop
      <4>4. D(p, i) = D(q, i)
        BY <4>2
      <4>5. r[i] = D(p, i)
        BY <3>3
      <4> QED
        BY <4>2, <4>3, <4>4, <4>5
    <3> QED
      BY <3>1, <3>2, <3>3
  <2>4. p = r
    <3>1. p = [i \in 0 .. m |-> p[i]] /\ r = [i \in 0 .. m |-> r[i]]
      OBVIOUS
    <3> HIDE DEF p, r
    <3> QED
      BY <2>3, <3>1
  <2>5. p \in [0 .. m -> V]
    <3>1. q[m - 1] \in V /\ D(q, m) \in V
      BY <2>1
    <3>2. \A i \in 0 .. m : i # m => q[i] \in V
      BY <2>1
    <3> HIDE DEF D
    <3> QED
      BY <3>1, <3>2
  <2>6. p = [i \in 0 .. m |-> IF i = 0 THEN base ELSE step[<<p[i - 1], i>>]]
    BY <2>4
  <2> HIDE DEF p, r
  <2>7. P(m)
    BY <2>5, <2>6 DEF Loop
  <2> QED
    BY <1>2, <2>7
<1> QED
  BY <1>4, <1>5

\* What holds before the first round and is kept by every round.
LEMMA Rounds ==
  ASSUME NEW N \in Nat, NEW S, 0 \in S, \A n \in 1 .. N : n - 1 \in S => n \in S
  PROVE  \A n \in 0 .. N : n \in S
<1> DEFINE B == {n \in 0 .. N : n \notin S}
<1> SUFFICES ASSUME B # {} PROVE FALSE
  OBVIOUS
<1>1. PICK m \in B : \A y \in B : m <= y
  <2>1. B \in SUBSET Nat
    OBVIOUS
  <2> HIDE DEF B
  <2> QED
    BY <2>1, Smallest
<1>2. m \in 1 .. N /\ m - 1 \in 0 .. N /\ ~ (m <= m - 1)
  BY <1>1
<1>3. m - 1 \in S
  BY <1>1, <1>2
<1> QED
  BY <1>1, <1>2, <1>3

-----------------------------------------------------------------------------
\* The index has the last key that was built.
ArtLoop(f, relation) ==
    f = [n \in 0 .. Len(relation) |->
            IF n = 0 THEN << >> ELSE ArtInsert(f[n - 1], relation[n], n)]

LEMMA ArtLoopExists ==
  ASSUME NEW relation \in Seq(Keys)
  PROVE  \E f : ArtLoop(f, relation)
<1> DEFINE N == Len(relation)
           V == {<< >>} \cup (Keys \X Nat)
           step == [vn \in V \X (1 .. N) |-> ArtInsert(vn[1], relation[vn[2]], vn[2])]
<1>1. N \in Nat /\ << >> \in V
  OBVIOUS
<1>2. step \in [V \X (1 .. N) -> V]
  <2>1. ASSUME NEW v \in V, NEW n \in 1 .. N PROVE ArtInsert(v, relation[n], n) \in V
    <3>1. relation[n] \in Keys /\ n \in Nat
      OBVIOUS
    <3> QED
      BY <3>1 DEF ArtInsert
  <2> HIDE DEF V, N
  <2> QED
    BY <2>1
<1>3. \A v \in V, n \in 1 .. N : step[<<v, n>>] = ArtInsert(v, relation[n], n)
  <2> HIDE DEF V, N
  <2> QED
    OBVIOUS
<1> HIDE DEF V, step
<1>4. PICK f \in [0 .. N -> V] : Loop(f, << >>, step, N)
  <2> HIDE DEF N
  <2> QED
    BY <1>1, <1>2, LoopExists
<1>5. ASSUME NEW n \in 0 .. N, n # 0 PROVE step[<<f[n - 1], n>>] = ArtInsert(f[n - 1], relation[n], n)
  BY <1>3, <1>5
<1>6. ArtLoop(f, relation)
  BY <1>4, <1>5 DEF Loop, ArtLoop
<1> QED
  BY <1>6

LEMMA ArtIndexIs ==
  ASSUME NEW relation \in Seq(Keys), relation # << >>
  PROVE  /\ ArtIndex(relation) # << >> /\ ArtIndex(relation)[1] = relation[Len(relation)]
         /\ ArtIndex(relation)[2] \in DOMAIN relation
         /\ relation[ArtIndex(relation)[2]] = ArtIndex(relation)[1]
<1> DEFINE f == CHOOSE f : ArtLoop(f, relation)
           N == Len(relation)
           S == {n \in 0 .. N : n = 0 \/ /\ f[n][2] \in 1 .. N
                                         /\ relation[f[n][2]] = f[n][1]}
<1>1. ArtLoop(f, relation)
  BY ArtLoopExists
<1>2. ArtIndex(relation) = f[N]
  BY DEF ArtIndex, ArtLoop
<1> HIDE DEF f
<1>3. N \in Nat /\ N \in 0 .. N /\ N # 0 /\ DOMAIN relation = 1 .. N
  OBVIOUS
<1>4. f[0] = << >> /\ \A n \in 1 .. N : f[n] = ArtInsert(f[n - 1], relation[n], n)
  BY <1>1, <1>3 DEF ArtLoop
<1> HIDE DEF N
<1>5. \A n \in 0 .. N : n \in S
  <2>1. 0 \in S
    BY <1>3
  <2>2. ASSUME NEW n \in 1 .. N, n - 1 \in S PROVE n \in S
    <3>1. f[n] = ArtInsert(f[n - 1], relation[n], n) /\ n \in 0 .. N
      BY <1>3, <1>4
    <3>2. CASE f[n - 1] # << >> /\ f[n - 1][1] = relation[n]
      <4>1. f[n] = f[n - 1]
        BY <3>1, <3>2 DEF ArtInsert
      <4>2. n - 1 # 0
        BY <1>4, <3>2
      <4> QED
        BY <2>2, <3>1, <4>1, <4>2
    <3>3. CASE ~ (f[n - 1] # << >> /\ f[n - 1][1] = relation[n])
      <4>1. f[n] = <<relation[n], n>>
        BY <3>1, <3>3 DEF ArtInsert
      <4> QED
        BY <3>1, <4>1
    <3> QED
      BY <3>2, <3>3
  <2> HIDE DEF S
  <2> QED
    BY <1>3, <2>1, <2>2, Rounds
<1>6. f[N] = ArtInsert(f[N - 1], relation[N], N)
  BY <1>3, <1>4
<1> QED
  BY <1>2, <1>3, <1>5, <1>6 DEF ArtInsert, N

-----------------------------------------------------------------------------
\* A partition has its tuples in their order, each of them once.
PositionsLoop(f, relation, p) ==
    f = [n \in 0 .. Len(relation) |->
            IF n = 0 THEN << >>
            ELSE IF GetPartition(relation[n]) = p THEN Append(f[n - 1], n) ELSE f[n - 1]]

LEMMA PositionsLoopExists ==
  ASSUME NEW relation \in Seq(Keys), NEW p
  PROVE  \E f : PositionsLoop(f, relation, p) /\ f \in [0 .. Len(relation) -> Seq(Nat)]
<1> DEFINE N == Len(relation)
           V == Seq(Nat)
           Next1(v, n) == IF GetPartition(relation[n]) = p THEN Append(v, n) ELSE v
           step == [vn \in V \X (1 .. N) |-> Next1(vn[1], vn[2])]
<1>1. N \in Nat /\ << >> \in V
  OBVIOUS
<1>2. step \in [V \X (1 .. N) -> V]
  <2>1. ASSUME NEW v \in V, NEW n \in 1 .. N PROVE Next1(v, n) \in V
    OBVIOUS
  <2> HIDE DEF V, N, Next1
  <2> QED
    BY <2>1
<1>3. \A v \in V, n \in 1 .. N : step[<<v, n>>] = Next1(v, n)
  <2> HIDE DEF V, N, Next1
  <2> QED
    OBVIOUS
<1> HIDE DEF V, step, Next1
<1>4. PICK f \in [0 .. N -> V] : Loop(f, << >>, step, N)
  <2> HIDE DEF N
  <2> QED
    BY <1>1, <1>2, LoopExists
<1>5. ASSUME NEW n \in 0 .. N, n # 0 PROVE step[<<f[n - 1], n>>] = Next1(f[n - 1], n)
  BY <1>3, <1>5
<1>6. f = [n \in 0 .. N |-> IF n = 0 THEN << >> ELSE Next1(f[n - 1], n)]
  BY <1>4, <1>5 DEF Loop
<1>7. PositionsLoop(f, relation, p)
  BY <1>6 DEF PositionsLoop, Next1
<1> QED
  BY <1>4, <1>7 DEF V

\* s has the first n positions of the partition.
Listed(s, relation, p, n) ==
    /\ \A i \in 1 .. Len(s) : s[i] \in 1 .. n /\ PartitionOf[relation[s[i]]] = p
    /\ \A x \in 1 .. n : PartitionOf[relation[x]] = p => \E i \in 1 .. Len(s) : s[i] = x
    /\ \A i, j \in 1 .. Len(s) : i < j => s[i] < s[j]

LEMMA ListedNext ==
  ASSUME NEW relation, NEW p, NEW n \in Nat \ {0}, NEW s \in Seq(Nat),
         Listed(s, relation, p, n - 1)
  PROVE  IF PartitionOf[relation[n]] = p THEN Listed(Append(s, n), relation, p, n)
                                         ELSE Listed(s, relation, p, n)
<1>1. CASE PartitionOf[relation[n]] # p
  BY <1>1 DEF Listed
<1>2. CASE PartitionOf[relation[n]] = p
  <2> DEFINE t == Append(s, n)
  <2>1. /\ Len(t) = Len(s) + 1 /\ t[Len(s) + 1] = n /\ Len(s) \in Nat
        /\ \A i \in 1 .. Len(s) : t[i] = s[i]
    OBVIOUS
  <2> HIDE DEF t
  <2>2. \A i \in 1 .. Len(t) : i = Len(s) + 1 \/ i \in 1 .. Len(s)
    BY <2>1
  <2>3. \A i \in 1 .. Len(s) : t[i] \in 1 .. n - 1 /\ PartitionOf[relation[t[i]]] = p
    BY <2>1 DEF Listed
  <2>4. \A i \in 1 .. Len(t) : t[i] \in 1 .. n /\ PartitionOf[relation[t[i]]] = p
    <3> SUFFICES ASSUME NEW i \in 1 .. Len(t)
                 PROVE  t[i] \in 1 .. n /\ PartitionOf[relation[t[i]]] = p
      OBVIOUS
    <3>1. CASE i = Len(s) + 1
      <4>1. t[i] = n /\ n \in 1 .. n
        BY <2>1, <3>1
      <4> QED
        BY <1>2, <4>1
    <3>2. CASE i \in 1 .. Len(s)
      <4>1. t[i] \in 1 .. n - 1 /\ PartitionOf[relation[t[i]]] = p
        BY <2>3, <3>2
      <4> QED
        BY <4>1
    <3> QED
      BY <2>2, <3>1, <3>2
  <2>5. \A x \in 1 .. n : PartitionOf[relation[x]] = p => \E i \in 1 .. Len(t) : t[i] = x
    <3> SUFFICES ASSUME NEW x \in 1 .. n, PartitionOf[relation[x]] = p
                 PROVE  \E i \in 1 .. Len(t) : t[i] = x
      OBVIOUS
    <3>1. CASE x = n
      BY <2>1, <3>1
    <3>2. CASE x # n
      <4>1. PICK i \in 1 .. Len(s) : s[i] = x
        BY <3>2 DEF Listed
      <4> QED
        BY <2>1, <4>1
    <3> QED
      BY <3>1, <3>2
  <2>6. \A i, j \in 1 .. Len(t) : i < j => t[i] < t[j]
    <3> SUFFICES ASSUME NEW i \in 1 .. Len(t), NEW j \in 1 .. Len(t), i < j
                 PROVE  t[i] < t[j]
      OBVIOUS
    <3>1. i \in 1 .. Len(s)
      BY <2>1
    <3>2. CASE j = Len(s) + 1
      <4>1. t[j] = n /\ t[i] \in 1 .. n - 1
        BY <2>1, <2>3, <3>1, <3>2
      <4> QED
        BY <4>1
    <3>3. CASE j \in 1 .. Len(s)
      <4>1. t[j] = s[j] /\ t[i] = s[i] /\ s[i] < s[j]
        BY <2>1, <3>1, <3>3 DEF Listed
      <4> QED
        BY <4>1
    <3> QED
      BY <2>2, <3>2, <3>3
  <2> QED
    BY <1>2, <2>4, <2>5, <2>6 DEF Listed, t
<1> QED
  BY <1>1, <1>2

LEMMA PositionsAre ==
  ASSUME NEW relation \in Seq(Keys), NEW p
  PROVE  /\ Positions(relation, p) \in Seq(Nat)
         /\ Listed(Positions(relation, p), relation, p, Len(relation))
<1> DEFINE N == Len(relation)
           Sol(f) == PositionsLoop(f, relation, p)
           f == CHOOSE f : Sol(f)
<1>1. PICK g \in [0 .. N -> Seq(Nat)] : Sol(g)
  BY PositionsLoopExists
<1>2. Sol(f)
  BY <1>1
<1>3. Positions(relation, p) = f[N]
  BY DEF Positions, PositionsLoop
<1> HIDE DEF f
<1> DEFINE S == {n \in 0 .. N : f[n] \in Seq(Nat) /\ Listed(f[n], relation, p, n)}
<1>4. 0 \in S
  <2>1. f[0] = << >>
    BY <1>2 DEF PositionsLoop
  <2>2. << >> \in Seq(Nat) /\ Listed(<< >>, relation, p, 0)
    BY DEF Listed
  <2> QED
    BY <2>1, <2>2
<1>5. ASSUME NEW n \in 1 .. N, n - 1 \in S PROVE n \in S
  <2>1. n \in 0 .. N /\ n # 0 /\ n \in Nat \ {0}
    OBVIOUS
  <2>2. f[n] = IF PartitionOf[relation[n]] = p THEN Append(f[n - 1], n) ELSE f[n - 1]
    BY <1>2, <2>1 DEF PositionsLoop, GetPartition
  <2>3. f[n - 1] \in Seq(Nat) /\ Listed(f[n - 1], relation, p, n - 1)
    BY <1>5
  <2>4. f[n] \in Seq(Nat)
    BY <2>1, <2>2, <2>3
  <2>5. Listed(f[n], relation, p, n)
    BY <2>1, <2>2, <2>3, ListedNext
  <2> QED
    BY <2>1, <2>4, <2>5
<1>6. N \in S
  <2>1. N \in Nat /\ N \in 0 .. N
    OBVIOUS
  <2> HIDE DEF S, N
  <2> QED
    BY <1>4, <1>5, <2>1, Rounds
<1> QED
  BY <1>3, <1>6

-----------------------------------------------------------------------------
\* The locked index has the first value of each key.
LockedLoop(f, relation) ==
    f = [n \in 0 .. Len(relation) |->
            IF n = 0 THEN EmptyIndex ELSE LockedInsert(f[n - 1], relation[n], n)]

LEMMA LockedLoopExists ==
  ASSUME NEW relation \in Seq(Keys)
  PROVE  \E f : LockedLoop(f, relation)
<1> DEFINE N == Len(relation)
           V == UNION {[D -> Nat] : D \in SUBSET Keys}
           Next1(v, n) == LockedInsert(v, relation[n], n)
           step == [vn \in V \X (1 .. N) |-> Next1(vn[1], vn[2])]
<1>1. N \in Nat /\ EmptyIndex \in V
  <2>1. EmptyIndex \in [{} -> Nat]
    BY DEF EmptyIndex
  <2>2. {} \in SUBSET Keys
    OBVIOUS
  <2>3. \E D \in SUBSET Keys : EmptyIndex \in [D -> Nat]
    BY <2>1, <2>2, Zenon
  <2> QED
    BY <2>3
<1>2. step \in [V \X (1 .. N) -> V]
  <2>1. ASSUME NEW v \in V, NEW n \in 1 .. N PROVE Next1(v, n) \in V
    <3>1. PICK D \in SUBSET Keys : v \in [D -> Nat]
      OBVIOUS
    <3>2. relation[n] \in Keys /\ n \in Nat
      OBVIOUS
    <3>3. CASE relation[n] \in D
      BY <3>1, <3>3 DEF LockedInsert, Has
    <3>4. CASE relation[n] \notin D
      <4> DEFINE E == D \cup {relation[n]}
                 w == [j \in E |-> IF j = relation[n] THEN n ELSE v[j]]
      <4>1. Next1(v, n) = w
        BY <3>1, <3>4 DEF LockedInsert, Has
      <4>2. w \in [E -> Nat] /\ E \in SUBSET Keys
        BY <3>1, <3>2
      <4> QED
        BY <4>1, <4>2
    <3> QED
      BY <3>3, <3>4
  <2> HIDE DEF V, N, Next1
  <2> QED
    BY <2>1
<1>3. \A v \in V, n \in 1 .. N : step[<<v, n>>] = Next1(v, n)
  <2> HIDE DEF V, N, Next1
  <2> QED
    OBVIOUS
<1> HIDE DEF V, step, Next1
<1>4. PICK f \in [0 .. N -> V] : Loop(f, EmptyIndex, step, N)
  <2> HIDE DEF N
  <2> QED
    BY <1>1, <1>2, LoopExists
<1>5. ASSUME NEW n \in 0 .. N, n # 0 PROVE step[<<f[n - 1], n>>] = Next1(f[n - 1], n)
  BY <1>3, <1>5
<1>6. f = [n \in 0 .. N |-> IF n = 0 THEN EmptyIndex ELSE Next1(f[n - 1], n)]
  BY <1>4, <1>5 DEF Loop
<1> QED
  BY <1>6 DEF LockedLoop, Next1

\* t has the first of the first n values of each key.
FirstValues(t, relation, n) ==
    /\ t = [k \in DOMAIN t |-> t[k]]
    /\ DOMAIN t = {relation[i] : i \in 1 .. n}
    /\ \A k \in DOMAIN t : /\ t[k] \in 1 .. n /\ relation[t[k]] = k
                           /\ \A j \in 1 .. t[k] - 1 : relation[j] # k

LEMMA FirstValuesNext ==
  ASSUME NEW relation, NEW n \in Nat \ {0}, NEW t, FirstValues(t, relation, n - 1)
  PROVE  FirstValues(LockedInsert(t, relation[n], n), relation, n)
<1> DEFINE u == LockedInsert(t, relation[n], n)
           K(m) == {relation[i] : i \in 1 .. m}
<1>1. K(n) = K(n - 1) \cup {relation[n]}
  <2>1. 1 .. n = (1 .. n - 1) \cup {n}
    OBVIOUS
  <2> QED
    BY <2>1
<1>2. 1 .. n - 1 \subseteq 1 .. n /\ n \in 1 .. n
  OBVIOUS
<1>3. DOMAIN t = K(n - 1)
  BY DEF FirstValues
<1>4. CASE relation[n] \in DOMAIN t
  <2>1. u = t /\ K(n) = K(n - 1)
    BY <1>1, <1>3, <1>4 DEF LockedInsert, Has
  <2> QED
    BY <1>2, <2>1 DEF FirstValues
<1>5. CASE relation[n] \notin DOMAIN t
  <2>1. u = [k \in DOMAIN t \cup {relation[n]} |-> IF k = relation[n] THEN n ELSE t[k]]
    BY <1>5 DEF LockedInsert, Has
  <2>2. DOMAIN u = K(n) /\ u = [k \in DOMAIN u |-> u[k]]
    BY <1>1, <1>3, <2>1
  <2>3. ASSUME NEW k \in DOMAIN u
        PROVE  u[k] \in 1 .. n /\ relation[u[k]] = k /\ \A j \in 1 .. u[k] - 1 : relation[j] # k
    <3>1. CASE k = relation[n]
      <4>1. u[k] = n
        BY <2>1, <3>1
      <4>2. \A j \in 1 .. n - 1 : relation[j] # k
        BY <1>3, <1>5, <3>1
      <4> QED
        BY <1>2, <3>1, <4>1, <4>2
    <3>2. CASE k # relation[n]
      <4>1. k \in DOMAIN t /\ u[k] = t[k]
        BY <2>1, <3>2
      <4> QED
        BY <1>2, <4>1 DEF FirstValues
    <3> QED
      BY <3>1, <3>2
  <2> HIDE DEF u
  <2>4. FirstValues(u, relation, n)
    BY <2>2, <2>3 DEF FirstValues
  <2> QED
    BY <2>4 DEF u
<1> QED
  BY <1>4, <1>5

LEMMA TableIs ==
  ASSUME NEW relation \in Seq(Keys)
  PROVE  FirstValues(LockedIndex(relation), relation, Len(relation))
<1> DEFINE N == Len(relation)
           f == CHOOSE f : LockedLoop(f, relation)
<1>1. LockedLoop(f, relation)
  BY LockedLoopExists
<1>2. LockedIndex(relation) = f[N]
  BY DEF LockedIndex, LockedLoop
<1> HIDE DEF f
<1> DEFINE S == {n \in 0 .. N : FirstValues(f[n], relation, n)}
<1>3. 0 \in S
  <2>1. f[0] = EmptyIndex
    BY <1>1 DEF LockedLoop
  <2>2. FirstValues(EmptyIndex, relation, 0)
    <3>1. EmptyIndex \in [{} -> Nat]
      BY DEF EmptyIndex
    <3>2. {relation[i] : i \in 1 .. 0} = {}
      OBVIOUS
    <3> QED
      BY <3>1, <3>2 DEF FirstValues
  <2> QED
    BY <2>1, <2>2
<1>4. ASSUME NEW n \in 1 .. N, n - 1 \in S PROVE n \in S
  <2>1. n \in 0 .. N /\ n # 0 /\ n \in Nat \ {0}
    OBVIOUS
  <2>2. f[n] = LockedInsert(f[n - 1], relation[n], n)
    BY <1>1, <2>1 DEF LockedLoop
  <2>3. FirstValues(f[n - 1], relation, n - 1)
    BY <1>4
  <2>4. FirstValues(f[n], relation, n)
    BY <2>1, <2>2, <2>3, FirstValuesNext
  <2> QED
    BY <2>1, <2>4
<1>5. N \in S
  <2>1. N \in Nat /\ N \in 0 .. N
    OBVIOUS
  <2> HIDE DEF S, N
  <2> QED
    BY <1>3, <1>4, <2>1, Rounds
<1> QED
  BY <1>2, <1>5

-----------------------------------------------------------------------------
\* The vectors of the threads one after the other are T[n], if T says so of
\* each of them.
LEMMA CollectedIs ==
  ASSUME NEW N \in Nat, NEW vectors, NEW T,
         T[0] = EmptyBag, \A n \in 1 .. N : T[n] = T[n - 1] (+) vectors[n - 1]
  PROVE  Collected(vectors, N) = T[N]
<1> DEFINE Collects(f) == f = [n \in 0 .. N |-> IF n = 0 THEN EmptyBag
                                                ELSE f[n - 1] (+) vectors[n - 1]]
           f == CHOOSE f : Collects(f)
           g == [n \in 0 .. N |-> T[n]]
           h == [n \in 0 .. N |-> IF n = 0 THEN EmptyBag ELSE g[n - 1] (+) vectors[n - 1]]
<1>1. Collected(vectors, N) = f[N]
  BY DEF Collected
<1>2. g = h
  <2>1. ASSUME NEW n \in 0 .. N PROVE T[n] = h[n]
    <3>1. CASE n = 0
      BY <3>1
    <3>2. CASE n # 0
      <4>1. n - 1 \in 0 .. N /\ n \in 1 .. N
        BY <3>2
      <4>2. h[n] = g[n - 1] (+) vectors[n - 1] /\ g[n - 1] = T[n - 1]
        BY <3>2, <4>1
      <4> HIDE DEF g, h
      <4> QED
        BY <4>1, <4>2
    <3> QED
      BY <3>1, <3>2
  <2> HIDE DEF h
  <2> QED
    BY <2>1 DEF h
<1>3. Collects(f)
  <2>1. Collects(g)
    BY <1>2
  <2> HIDE DEF g, h, Collects
  <2> QED
    BY <2>1
<1> HIDE DEF f, g, h
<1> DEFINE S == {n \in 0 .. N : f[n] = T[n]}
<1>4. 0 \in S
  BY <1>3
<1>5. ASSUME NEW n \in 1 .. N, n - 1 \in S PROVE n \in S
  <2>1. f[n] = f[n - 1] (+) vectors[n - 1]
    BY <1>3
  <2> QED
    BY <1>5, <2>1
<1>6. N \in S
  <2>1. N \in 0 .. N
    OBVIOUS
  <2> HIDE DEF S
  <2> QED
    BY <1>4, <1>5, <2>1, Rounds
<1> QED
  BY <1>1, <1>6

-----------------------------------------------------------------------------
\* The baseline joins.

LEMMA SetsJoined ==
  ASSUME NEW A, NEW B, A \cap B = {}
  PROVE  SetToBag(A) (+) SetToBag(B) = SetToBag(A \cup B)
BY DEF SetToBag, (+)

LEMMA ProbedTwice ==
  ASSUME NEW t, NEW relation, NEW P, NEW Q, P \cap Q = {}
  PROVE  Probed(t, relation, P) (+) Probed(t, relation, Q) = Probed(t, relation, P \cup Q)
<1> DEFINE Found(R) == {<<t[relation[i]], i>> : i \in {j \in R : Has(t, relation[j])}}
<1>1. Found(P) \cup Found(Q) = Found(P \cup Q)
  OBVIOUS
<1>2. Found(P) \cap Found(Q) = {}
  OBVIOUS
<1>3. \A R : Probed(t, relation, R) = SetToBag(Found(R))
  BY DEF Probed
<1> HIDE DEF Found
<1> QED
  BY <1>1, <1>2, <1>3, SetsJoined

LEMMA ChunkEnds ==
  ASSUME NEW N \in Nat, NEW threads \in Nat \ {0}, NEW n \in 1 .. threads
  PROVE  /\ N \div threads \in Nat
         /\ n * (N \div threads) = (n - 1) * (N \div threads) + (N \div threads)
         /\ (n - 1) * (N \div threads) \in 0 .. N
<1> DEFINE size == N \div threads
<1>1. size \in Nat /\ threads * size <= N
  OBVIOUS
<1> HIDE DEF size
<1>2. n * size = (n - 1) * size + size
  BY <1>1
<1>3. (n - 1) * size \in Nat
  BY <1>1
<1>4. (n - 1) * size <= threads * size
  <2>1. n - 1 <= threads /\ n - 1 \in Nat
    OBVIOUS
  <2> QED
    BY <1>1, <2>1
<1>5. threads * size \in Nat
  BY <1>1
<1> QED
  BY <1>1, <1>2, <1>3, <1>4, <1>5 DEF size

LEMMA ParallelIsOne ==
  ASSUME NEW t, NEW relation \in Seq(Keys), NEW threads \in Nat \ {0}
  PROVE  ExecuteJoinParallel(t, relation, threads) = ExecuteJoin(t, relation)
<1> DEFINE N == Len(relation)
           size == N \div threads
           Before(n) == IF n = threads THEN 1 .. N ELSE 1 .. n * size
           T == [n \in 0 .. threads |-> Probed(t, relation, Before(n))]
           vectors == [i \in 0 .. threads - 1 |-> Probed(t, relation, Chunk(N, threads, i))]
<1>1. T[0] = EmptyBag
  <2>1. 0 # threads /\ size \in Nat /\ 0 \in 0 .. threads
    OBVIOUS
  <2> HIDE DEF size
  <2>2. Before(0) = {}
    BY <2>1
  <2>3. Probed(t, relation, {}) = EmptyBag
    BY DEF Probed, EmptyBag
  <2> HIDE DEF Before
  <2> QED
    BY <2>1, <2>2, <2>3
<1>2. ASSUME NEW n \in 1 .. threads
      PROVE  T[n] = T[n - 1] (+) vectors[n - 1]
  <2> DEFINE C == Chunk(N, threads, n - 1)
             A == Before(n - 1)
  <2>1. N \in Nat
    OBVIOUS
  <2>2. /\ size \in Nat /\ n * size = (n - 1) * size + size
        /\ (n - 1) * size \in 0 .. N
    BY <2>1, ChunkEnds
  <2>3. n - 1 \in 0 .. threads - 1 /\ n - 1 \in 0 .. threads /\ n \in 0 .. threads
        /\ n - 1 # threads
    OBVIOUS
  <2>4. n - 1 = threads - 1 <=> n = threads
    OBVIOUS
  <2>5. C = (n - 1) * size + 1 .. (IF n = threads THEN N ELSE n * size)
    <3>1. (n - 1) + 1 = n
      OBVIOUS
    <3> QED
      BY <2>4, <3>1 DEF Chunk
  <2>6. A = 1 .. (n - 1) * size
    BY <2>3
  <2>7. A \cap C = {} /\ A \cup C = Before(n)
    <3> DEFINE a == (n - 1) * size
               b == n * size
    <3>1. a \in 0 .. N /\ b = a + size
      BY <2>2
    <3> HIDE DEF a, b, size, N
    <3>2. A = 1 .. a /\ C = a + 1 .. (IF n = threads THEN N ELSE b)
      BY <2>5, <2>6 DEF a, b
    <3>3. Before(n) = IF n = threads THEN 1 .. N ELSE 1 .. b
      BY DEF b
    <3> HIDE DEF A, C, Before
    <3> QED
      BY <2>1, <2>2, <3>1, <3>2, <3>3
  <2>8. T[n] = Probed(t, relation, Before(n)) /\ T[n - 1] = Probed(t, relation, A)
        /\ vectors[n - 1] = Probed(t, relation, C)
    BY <2>3
  <2> HIDE DEF T, vectors, A, C, Before
  <2> QED
    BY <2>7, <2>8, ProbedTwice
<1>3. Collected(vectors, threads) = T[threads]
  <2> HIDE DEF T, vectors
  <2> QED
    BY <1>1, <1>2, CollectedIs
<1>4. T[threads] = Probed(t, relation, 1 .. N)
  OBVIOUS
<1>5. DOMAIN relation = 1 .. N
  OBVIOUS
<1> QED
  BY <1>3, <1>4, <1>5 DEF ExecuteJoinParallel, ExecuteJoin

LEMMA OneIsHash ==
  ASSUME NEW b \in Seq(Keys), NEW p \in Seq(Keys)
  PROVE  LET first == {i \in DOMAIN b : \A j \in 1 .. i - 1 : b[j] # b[i]}
         IN  BagToSet(ExecuteJoin(LockedIndex(b), p))
               = {bp \in BagToSet(ExecuteHashJoin(b, p)) : bp[1] \in first}
<1> DEFINE t == LockedIndex(b)
           pairs == {bp \in (DOMAIN b) \X (DOMAIN p) : b[bp[1]] = p[bp[2]]}
           first == {i \in DOMAIN b : \A j \in 1 .. i - 1 : b[j] # b[i]}
           found == {<<t[p[i]], i>> : i \in {j \in DOMAIN p : Has(t, p[j])}}
<1>1. BagToSet(ExecuteJoin(t, p)) = found /\ BagToSet(ExecuteHashJoin(b, p)) = pairs
  BY DEF BagToSet, ExecuteJoin, ExecuteHashJoin, Probed, SetToBag
<1>2. /\ DOMAIN t = {b[i] : i \in 1 .. Len(b)}
      /\ \A k \in DOMAIN t : /\ t[k] \in 1 .. Len(b) /\ b[t[k]] = k
                             /\ \A j \in 1 .. t[k] - 1 : b[j] # k
  BY TableIs DEF FirstValues
<1>3. DOMAIN b = 1 .. Len(b) /\ Len(b) \in Nat
  OBVIOUS
<1> HIDE DEF t
<1>4. ASSUME NEW x \in found PROVE x \in pairs /\ x[1] \in first
  <2>1. PICK i \in DOMAIN p : p[i] \in DOMAIN t /\ x = <<t[p[i]], i>>
    BY DEF Has
  <2> QED
    BY <1>2, <1>3, <2>1
<1>5. ASSUME NEW x \in pairs, x[1] \in first PROVE x \in found
  <2>1. PICK i \in 1 .. Len(b), j \in DOMAIN p : x = <<i, j>> /\ b[i] = p[j]
    BY <1>3
  <2>2. p[j] \in DOMAIN t /\ \A m \in 1 .. i - 1 : b[m] # b[i]
    BY <1>2, <1>5, <2>1
  <2>3. t[p[j]] \in 1 .. Len(b) /\ b[t[p[j]]] = p[j]
        /\ \A m \in 1 .. t[p[j]] - 1 : b[m] # p[j]
    BY <1>2, <2>2
  <2>4. t[p[j]] = i
    <3> DEFINE v == t[p[j]]
    <3>1. v \in Nat /\ i \in Nat /\ v >= 1 /\ i >= 1
      BY <2>3
    <3>2. ~ (v \in 1 .. i - 1) /\ ~ (i \in 1 .. v - 1)
      BY <2>1, <2>2, <2>3
    <3> HIDE DEF v
    <3>3. v = i
      BY <3>1, <3>2
    <3> QED
      BY <3>3 DEF v
  <2> QED
    BY <2>1, <2>2, <2>4 DEF Has
<1>6. found = {bp \in pairs : bp[1] \in first}
  <2> HIDE DEF found, pairs, first
  <2> QED
    BY <1>4, <1>5
<1> QED
  BY <1>1, <1>6 DEF t

-----------------------------------------------------------------------------
\* The join of the relations as a whole, whoever does it.

Pairs == {bp \in (DOMAIN build) \X (DOMAIN probe) : build[bp[1]] = probe[bp[2]]}

HotKeys == {k \in Keys : SampleCount(Positions(build, 0), k) >= MinHotFrequency}

Joins == {bp \in Pairs : build[bp[1]] \in HotKeys \cup {build[Len(build)]}}

Answer(bp) ==
    IF build[bp[1]] \in HotKeys THEN HotResult(bp[1], bp[2])
    ELSE [build |-> bp[1], right |-> <<"index", ArtIndex(build)[2]>>]

FullJoin == Vector([bp \in Joins |-> Answer(bp)])

PartitionOfResult(r) == PartitionOf[build[r.build]]

\* Its results that come from a set of partitions.
ResultsIn(vector, relation, P) ==
    [r \in {x \in DOMAIN vector : PartitionOf[relation[x.build]] \in P} |-> vector[r]]

JoinOf(P) == ResultsIn(FullJoin, build, P)

Relations == build \in Seq(Keys) /\ probe \in Seq(Keys)

LEMMA SameCount ==
  ASSUME NEW S, IsFiniteSet(S), NEW T, NEW f \in [S -> T],
         \A x, y \in S : f[x] = f[y] => x = y,
         \A z \in T : \E x \in S : f[x] = z
  PROVE  Cardinality(S) = Cardinality(T)
<1>1. f \in Bijection(S, T)
  BY DEF Bijection, Injection, IsInjective, Surjection
<1>2. ExistsBijection(S, T)
  BY <1>1 DEF ExistsBijection
<1> QED
  BY <1>2, FS_Bijection

\* A vector has its results once for each thing that was joined, whatever these
\* are called.
LEMMA VectorRenamed ==
  ASSUME NEW Z, IsFiniteSet(Z), NEW Y, NEW e \in [Z -> Y],
         \A x, y \in Z : e[x] = e[y] => x = y,
         \A y \in Y : \E x \in Z : e[x] = y,
         NEW f, DOMAIN f = Z, NEW g, DOMAIN g = Y, \A x \in Z : f[x] = g[e[x]]
  PROVE  Vector(f) = Vector(g)
<1>1. Range(f) = Range(g)
  BY DEF Range
<1>2. ASSUME NEW r PROVE Cardinality({z \in Z : f[z] = r}) = Cardinality({y \in Y : g[y] = r})
  <2> DEFINE A == {z \in Z : f[z] = r}
             B == {y \in Y : g[y] = r}
             d == [z \in A |-> e[z]]
  <2>1. IsFiniteSet(A)
    BY FS_Subset
  <2>2. d \in [A -> B]
    OBVIOUS
  <2>3. \A x, y \in A : d[x] = d[y] => x = y
    OBVIOUS
  <2>4. \A z \in B : \E x \in A : d[x] = z
    OBVIOUS
  <2> HIDE DEF A, B, d
  <2>5. Cardinality(A) = Cardinality(B)
    BY <2>1, <2>2, <2>3, <2>4, SameCount
  <2> QED
    BY <2>5 DEF A, B
<1> QED
  BY <1>1, <1>2 DEF Vector

LEMMA JoinsFinite ==
  ASSUME Relations
  PROVE  IsFiniteSet(Joins)
<1>1. DOMAIN build = 1 .. Len(build) /\ DOMAIN probe = 1 .. Len(probe)
      /\ Len(build) \in Int /\ Len(probe) \in Int /\ 1 \in Int
  BY DEF Relations
<1>2. IsFiniteSet(DOMAIN build) /\ IsFiniteSet(DOMAIN probe)
  BY <1>1, FS_Interval
<1>3. IsFiniteSet((DOMAIN build) \X (DOMAIN probe))
  BY <1>2, FS_Product
<1>4. Joins \in SUBSET ((DOMAIN build) \X (DOMAIN probe))
  BY DEF Joins, Pairs
<1> QED
  BY <1>3, <1>4, FS_Subset

LEMMA AnswerBuild ==
  ASSUME NEW bp
  PROVE  Answer(bp).build = bp[1]
BY DEF Answer, HotResult

LEMMA FullJoinType ==
  ASSUME Relations
  PROVE  /\ DOMAIN FullJoin = {Answer(bp) : bp \in Joins}
         /\ \A r \in DOMAIN FullJoin : FullJoin[r] \in Nat /\ r.build \in DOMAIN build
         /\ \A r \in DOMAIN FullJoin : FullJoin[r] = Cardinality({bp \in Joins : Answer(bp) = r})
         /\ FullJoin = [r \in DOMAIN FullJoin |-> FullJoin[r]]
<1> DEFINE f == [bp \in Joins |-> Answer(bp)]
<1>1. DOMAIN f = Joins /\ Range(f) = {Answer(bp) : bp \in Joins}
      /\ \A r : {z \in DOMAIN f : f[z] = r} = {bp \in Joins : Answer(bp) = r}
  BY DEF Range
<1>2. FullJoin = [r \in {Answer(bp) : bp \in Joins} |->
                    Cardinality({bp \in Joins : Answer(bp) = r})]
  BY <1>1 DEF FullJoin, Vector
<1>3. \A r : Cardinality({bp \in Joins : Answer(bp) = r}) \in Nat
  <2> TAKE r
  <2> DEFINE A == {bp \in Joins : Answer(bp) = r}
  <2>1. IsFiniteSet(A)
    BY JoinsFinite, FS_Subset
  <2> HIDE DEF A
  <2>2. Cardinality(A) \in Nat
    BY <2>1, FS_CardinalityType
  <2> QED
    BY <2>2 DEF A
<1>4. ASSUME NEW bp \in Joins PROVE Answer(bp).build \in DOMAIN build
  <2>1. bp[1] \in DOMAIN build
    BY DEF Joins, Pairs
  <2> QED
    BY <2>1, AnswerBuild
<1> QED
  BY <1>2, <1>3, <1>4

LEMMA FullJoinSize ==
  ASSUME Relations
  PROVE  NumResults(FullJoin) \in Nat
<1> DEFINE D == DOMAIN FullJoin
           copies == [r \in D |-> {r} \X (1 .. FullJoin[r])]
           all == {{r} \X (1 .. FullJoin[r]) : r \in D}
<1>1. IsFiniteSet(D)
  <2> DEFINE a == [bp \in Joins |-> Answer(bp)]
  <2>1. a \in Surjection(Joins, D)
    BY FullJoinType DEF Surjection
  <2> HIDE DEF a, D
  <2> QED
    BY <2>1, JoinsFinite, FS_Surjection
<1>2. \A C \in all : IsFiniteSet(C)
  <2> SUFFICES ASSUME NEW r \in D PROVE IsFiniteSet({r} \X (1 .. FullJoin[r]))
    OBVIOUS
  <2>1. FullJoin[r] \in Int /\ 1 \in Int
    BY FullJoinType
  <2>2. IsFiniteSet({r}) /\ IsFiniteSet(1 .. FullJoin[r])
    BY <2>1, FS_Singleton, FS_Interval
  <2> QED
    BY <2>2, FS_Product
<1>3. IsFiniteSet(all)
  <2>1. copies \in Surjection(D, all)
    BY DEF Surjection
  <2> HIDE DEF copies, D, all
  <2> QED
    BY <1>1, <2>1, FS_Surjection
<1>4. IsFiniteSet(UNION all)
  <2> HIDE DEF all
  <2> QED
    BY <1>2, <1>3, FS_UNION
<1> QED
  BY <1>4, FS_CardinalityType DEF NumResults

LEMMA DisjointJoins ==
  ASSUME Relations, NEW P, NEW Q, P \cap Q = {}
  PROVE  JoinOf(P) (+) JoinOf(Q) = JoinOf(P \cup Q)
<1> DEFINE D(R) == {x \in DOMAIN FullJoin : PartitionOfResult(x) \in R}
<1>1. D(P) \cap D(Q) = {} /\ D(P) \cup D(Q) = D(P \cup Q)
  OBVIOUS
<1>2. \A R : JoinOf(R) = [r \in D(R) |-> FullJoin[r]]
  BY DEF JoinOf, ResultsIn, PartitionOfResult
<1>3. \A R : D(R) \subseteq DOMAIN FullJoin
  OBVIOUS
<1>4. \A r \in DOMAIN FullJoin : FullJoin[r] \in Nat
  BY FullJoinType
<1> HIDE DEF D
<1>5. JoinOf(P) (+) JoinOf(Q)
        = [r \in D(P) \cup D(Q) |-> (IF r \in D(P) THEN FullJoin[r] ELSE 0)
                                   + (IF r \in D(Q) THEN FullJoin[r] ELSE 0)]
  BY <1>2 DEF (+)
<1>6. ASSUME NEW r \in D(P) \cup D(Q)
      PROVE  (IF r \in D(P) THEN FullJoin[r] ELSE 0)
               + (IF r \in D(Q) THEN FullJoin[r] ELSE 0) = FullJoin[r]
  BY <1>1, <1>3, <1>4
<1> QED
  BY <1>1, <1>2, <1>5, <1>6

LEMMA NoJoin == JoinOf({}) = EmptyBag
BY DEF JoinOf, ResultsIn, PartitionOfResult, EmptyBag, SetToBag

LEMMA AllJoined ==
  ASSUME Relations
  PROVE  JoinOf(Partitions) = FullJoin
<1>1. \A r \in DOMAIN FullJoin : PartitionOfResult(r) \in Partitions
  <2> TAKE r \in DOMAIN FullJoin
  <2>1. build[r.build] \in Keys
    BY FullJoinType DEF Relations
  <2> QED
    BY <2>1, SkewAssumption DEF PartitionOfResult
<1>2. {x \in DOMAIN FullJoin : PartitionOfResult(x) \in Partitions} = DOMAIN FullJoin
  BY <1>1
<1> QED
  BY <1>2, FullJoinType DEF JoinOf, ResultsIn, PartitionOfResult

-----------------------------------------------------------------------------
\* The join of a partition.

Partitioned ==
    /\ buildParts = [p \in Partitions |-> Positions(build, p)]
    /\ probeParts = [p \in Partitions |-> Positions(probe, p)]

Indexed == index = ArtIndex(build)

HotIn(p) == {k \in HotKeys : PartitionOf[k] = p}

Detected == hot = HotKeys /\ hotCount = [p \in Partitions |-> Cardinality(HotIn(p))]

LEMMA HotCounts ==
  ASSUME Detected, NEW p \in Partitions, NEW k \in HotKeys, PartitionOf[k] = p
  PROVE  hotCount[p] > 0
<1>1. HotIn(p) \in SUBSET Keys
  BY DEF HotIn, HotKeys
<1>2. IsFiniteSet(HotIn(p))
  BY <1>1, SkewAssumption, FS_Subset
<1>3. k \in HotIn(p)
  BY DEF HotIn
<1>4. Cardinality(HotIn(p)) \in Nat /\ Cardinality(HotIn(p)) # 0
  BY <1>2, <1>3, FS_CardinalityType, FS_EmptySet
<1>5. hotCount[p] = Cardinality(HotIn(p))
  BY DEF Detected
<1> QED
  BY <1>4, <1>5

LEMMA PartitionJoin ==
  ASSUME Relations, Partitioned, Indexed, Detected, NEW p \in Partitions
  PROVE  SkewResults(p) = JoinOf({p})
<1> DEFINE b == Positions(build, p)
           q == Positions(probe, p)
           X == (DOMAIN b) \X (DOMAIN q)
           pairs == {ij \in X : build[b[ij[1]]] = probe[q[ij[2]]]}
           scanned == {ij \in pairs : hotCount[p] > 0 /\ build[b[ij[1]]] \in hot}
           asked == {ij \in pairs \ scanned : ArtHas(build[b[ij[1]]])}
           Z == scanned \cup asked
           f == [ij \in Z |-> IF ij \in scanned THEN HotResult(b[ij[1]], q[ij[2]])
                                                ELSE IndexResult(b[ij[1]], q[ij[2]])]
           Y == {bp \in Joins : PartitionOf[build[bp[1]]] = p}
           e == [ij \in Z |-> <<b[ij[1]], q[ij[2]]>>]
           g == [bp \in Y |-> Answer(bp)]
<1>1. SkewResults(p) = Vector(f)
  <2>1. buildParts[p] = b /\ probeParts[p] = q
    BY DEF Partitioned
  <2> HIDE DEF b, q
  <2> QED
    BY <2>1 DEF SkewResults
<1>2. /\ b \in Seq(Nat) /\ Listed(b, build, p, Len(build)) /\ DOMAIN b = 1 .. Len(b)
      /\ q \in Seq(Nat) /\ Listed(q, probe, p, Len(probe)) /\ DOMAIN q = 1 .. Len(q)
      /\ Len(b) \in Nat /\ Len(q) \in Nat
  <2>1. /\ b \in Seq(Nat) /\ Listed(b, build, p, Len(build))
        /\ q \in Seq(Nat) /\ Listed(q, probe, p, Len(probe))
    BY PositionsAre DEF Relations
  <2> HIDE DEF b, q
  <2> QED
    BY <2>1
<1>3. /\ DOMAIN build = 1 .. Len(build) /\ DOMAIN probe = 1 .. Len(probe)
      /\ \A i \in DOMAIN build : build[i] \in Keys
  BY DEF Relations
<1> HIDE DEF b, q
<1>4. ASSUME NEW ij \in pairs
      PROVE  /\ b[ij[1]] \in DOMAIN build /\ q[ij[2]] \in DOMAIN probe
             /\ PartitionOf[build[b[ij[1]]]] = p
             /\ ij \in scanned <=> build[b[ij[1]]] \in HotKeys
             /\ ij \in asked <=> /\ build[b[ij[1]]] \notin HotKeys
                                 /\ build[b[ij[1]]] = build[Len(build)]
  <2> DEFINE k == build[b[ij[1]]]
  <2>1. ij[1] \in 1 .. Len(b) /\ ij[2] \in 1 .. Len(q)
    BY <1>2
  <2>2. b[ij[1]] \in DOMAIN build /\ q[ij[2]] \in DOMAIN probe /\ PartitionOf[k] = p
    BY <1>2, <1>3, <2>1 DEF Listed
  <2>3. ij \in scanned <=> k \in HotKeys
    <3>1. k \in HotKeys => hotCount[p] > 0
      BY <2>2, HotCounts
    <3> QED
      BY <3>1 DEF Detected
  <2>4. ArtHas(k) <=> k = build[Len(build)]
    <3>1. build # << >>
      BY <2>2
    <3> QED
      BY <3>1, ArtIndexIs DEF ArtHas, Indexed, Relations
  <2>5. ij \in asked <=> ij \notin scanned /\ ArtHas(k)
    OBVIOUS
  <2> HIDE DEF scanned, asked
  <2> QED
    BY <2>2, <2>3, <2>4, <2>5
<1>5. IsFiniteSet(Z)
  <2>1. IsFiniteSet(DOMAIN b) /\ IsFiniteSet(DOMAIN q)
    <3>1. Len(b) \in Int /\ Len(q) \in Int /\ 1 \in Int
      BY <1>2
    <3> QED
      BY <1>2, <3>1, FS_Interval
  <2>2. Z \in SUBSET X
    OBVIOUS
  <2>3. IsFiniteSet(X)
    BY <2>1, FS_Product
  <2> HIDE DEF Z, X
  <2> QED
    BY <2>2, <2>3, FS_Subset
<1>6. ASSUME NEW ij \in Z
      PROVE  ij \in pairs /\ <<b[ij[1]], q[ij[2]]>> \in Y
  <2>1. ij \in pairs /\ build[b[ij[1]]] = probe[q[ij[2]]]
    OBVIOUS
  <2>2. ij \in scanned \/ ij \in asked
    OBVIOUS
  <2> HIDE DEF pairs, scanned, asked
  <2> QED
    BY <1>4, <2>1, <2>2 DEF Joins, Pairs
<1>7. e \in [Z -> Y]
  <2> HIDE DEF Z, Y
  <2> QED
    BY <1>6
<1>8. \A x, y \in Z : e[x] = e[y] => x = y
  <2> SUFFICES ASSUME NEW x \in Z, NEW y \in Z, e[x] = e[y] PROVE x = y
    OBVIOUS
  <2>1. b[x[1]] = b[y[1]] /\ q[x[2]] = q[y[2]]
    OBVIOUS
  <2>2. x \in X /\ y \in X
    OBVIOUS
  <2>3. /\ x[1] \in 1 .. Len(b) /\ y[1] \in 1 .. Len(b) /\ x[2] \in 1 .. Len(q)
        /\ y[2] \in 1 .. Len(q) /\ x = <<x[1], x[2]>> /\ y = <<y[1], y[2]>>
    <3> HIDE DEF e, f, g, Y, Z
    <3>1. ASSUME NEW z \in X
          PROVE  z[1] \in 1 .. Len(b) /\ z[2] \in 1 .. Len(q) /\ z = <<z[1], z[2]>>
      <4>1. z \in (1 .. Len(b)) \X (1 .. Len(q))
        BY <1>2
      <4> HIDE DEF X
      <4> QED
        BY <4>1
    <3> HIDE DEF X
    <3> QED
      BY <2>2, <3>1
  <2> HIDE DEF Z, X, e
  <2>4. \A i, j \in 1 .. Len(b) : b[i] = b[j] => i = j
    BY <1>2 DEF Listed
  <2>5. \A i, j \in 1 .. Len(q) : q[i] = q[j] => i = j
    BY <1>2 DEF Listed
  <2>6. x[1] = y[1] /\ x[2] = y[2]
    BY <2>1, <2>3, <2>4, <2>5
  <2> QED
    BY <2>3, <2>6
<1>9. \A y \in Y : \E x \in Z : e[x] = y
  <2> SUFFICES ASSUME NEW y \in Y PROVE \E x \in Z : e[x] = y
    OBVIOUS
  <2>1. PICK i \in DOMAIN build, j \in DOMAIN probe : y = <<i, j>> /\ build[i] = probe[j]
    BY DEF Joins, Pairs
  <2>2. /\ PartitionOf[build[i]] = p /\ PartitionOf[probe[j]] = p
        /\ build[i] \in HotKeys \/ build[i] = build[Len(build)]
    BY <2>1 DEF Joins
  <2>3. PICK m \in 1 .. Len(b) : b[m] = i
    BY <1>2, <1>3, <2>2 DEF Listed
  <2>4. PICK n \in 1 .. Len(q) : q[n] = j
    BY <1>2, <1>3, <2>2 DEF Listed
  <2>5. <<m, n>> \in pairs
    BY <1>2, <2>1, <2>3, <2>4
  <2>6. <<m, n>> \in Z
    BY <1>4, <2>2, <2>3, <2>5
  <2>7. e[<<m, n>>] = y
    BY <2>1, <2>3, <2>4, <2>6
  <2> QED
    BY <2>6, <2>7
<1>10. \A ij \in Z : f[ij] = g[e[ij]]
  <2> SUFFICES ASSUME NEW ij \in Z PROVE f[ij] = g[e[ij]]
    OBVIOUS
  <2> DEFINE i == b[ij[1]]
             j == q[ij[2]]
  <2>1. e[ij] = <<i, j>> /\ <<i, j>> \in Y /\ ij \in pairs
    BY <1>6
  <2>2. g[e[ij]] = Answer(<<i, j>>)
    BY <2>1
  <2>3. f[ij] = IF ij \in scanned THEN HotResult(i, j) ELSE IndexResult(i, j)
    OBVIOUS
  <2>4. ij \in scanned <=> build[i] \in HotKeys
    BY <1>4, <2>1
  <2> HIDE DEF f, g, e, Z, Y, scanned, pairs, i, j
  <2> QED
    BY <2>2, <2>3, <2>4 DEF Answer, IndexResult, Indexed
<1>11. Vector(f) = Vector(g)
  <2>1. DOMAIN f = Z /\ DOMAIN g = Y
    OBVIOUS
  <2> HIDE DEF f, g, e, Z, Y
  <2> QED
    BY <1>5, <1>7, <1>8, <1>9, <1>10, <2>1, VectorRenamed
<1>12. Vector(g) = JoinOf({p})
  <2> DEFINE D == {x \in DOMAIN FullJoin : PartitionOfResult(x) \in {p}}
  <2>1. DOMAIN g = Y /\ Range(g) = {Answer(bp) : bp \in Y}
        /\ \A r : {z \in DOMAIN g : g[z] = r} = {bp \in Y : Answer(bp) = r}
    BY DEF Range
  <2>2. \A bp \in Joins : PartitionOfResult(Answer(bp)) = PartitionOf[build[bp[1]]]
    BY AnswerBuild DEF PartitionOfResult
  <2>3. Range(g) = D
    BY <2>1, <2>2, FullJoinType
  <2>4. ASSUME NEW r \in D
        PROVE  Cardinality({z \in DOMAIN g : g[z] = r}) = FullJoin[r]
    <3>1. {bp \in Y : Answer(bp) = r} = {bp \in Joins : Answer(bp) = r}
      BY <2>2
    <3> QED
      BY <2>1, <3>1, FullJoinType
  <2> HIDE DEF D, g, Y
  <2> QED
    BY <2>3, <2>4 DEF Vector, JoinOf, ResultsIn, PartitionOfResult, D
<1> QED
  BY <1>1, <1>11, <1>12

-----------------------------------------------------------------------------
\* The partitions of the threads.

ShareOf(w) == {p \in Partitions : p % NumThreads = w}

Taken(w) == {p \in ShareOf(w) : p < at[w]}

ThreadsOK ==
    /\ at \in [Workers -> Nat] /\ out = [w \in Workers |-> out[w]]
    /\ \A w \in Workers : at[w] % NumThreads = w /\ out[w] = JoinOf(Taken(w))

LEMMA Stride ==
  ASSUME NEW N \in Nat \ {0}, NEW a \in Nat
  PROVE  /\ (a + N) % N = a % N
         /\ \A b \in Nat : a <= b /\ b < a + N /\ b % N = a % N => b = a
<1> DEFINE c == a \div N
           r == a % N
<1>1. c \in Nat /\ r \in 0 .. N - 1 /\ a = N * c + r
  OBVIOUS
<1> HIDE DEF c, r
<1>2. ASSUME NEW d \in Nat, NEW s \in 0 .. N - 1, NEW e \in Nat, e = N * d + s
      PROVE  e % N = s
  BY <1>2
<1>3. (a + N) % N = r
  <2>1. a + N = N * (c + 1) + r
    BY <1>1
  <2>2. c + 1 \in Nat /\ a + N \in Nat
    BY <1>1
  <2> QED
    BY <1>1, <1>2, <2>1, <2>2
<1>4. ASSUME NEW b \in Nat, a <= b, b < a + N, b % N = a % N
      PROVE  b = a
  <2> DEFINE d == b \div N
  <2>1. d \in Nat /\ b = N * d + r
    BY <1>4 DEF r
  <2> HIDE DEF d
  <2>2. d = c
    <3>1. N * c <= N * d /\ N * d < N * c + N
      BY <1>1, <1>4, <2>1
    <3>2. N * (d - c) >= 0 /\ N * (d - c) < N
      BY <1>1, <2>1, <3>1
    <3>3. ~ (d - c >= 1) /\ ~ (d - c <= -1)
      BY <1>1, <2>1, <3>2
    <3> QED
      BY <1>1, <2>1, <3>3
  <2> QED
    BY <1>1, <2>1, <2>2
<1> QED
  BY <1>3, <1>4 DEF r

LEMMA WorkerNumbers ==
  /\ NumThreads \in Nat \ {0}
  /\ NumPartitions \in Nat \ {0}
  /\ Workers = 0 .. NumThreads - 1
  /\ Partitions = 0 .. NumPartitions - 1
BY SkewAssumption DEF Workers, Partitions

LEMMA FirstPartition ==
  ASSUME NEW w \in Workers
  PROVE  w \in Nat /\ w % NumThreads = w /\ {p \in ShareOf(w) : p < w} = {}
<1>1. w \in Nat /\ w < NumThreads /\ w % NumThreads = w
  BY WorkerNumbers
<1>2. \A p \in Nat : p < w => p % NumThreads = p
  BY <1>1, WorkerNumbers
<1>3. \A p \in Partitions : p \in Nat
  BY WorkerNumbers
<1>4. \A p \in ShareOf(w) : ~ (p < w)
  BY <1>1, <1>2, <1>3 DEF ShareOf
<1> QED
  BY <1>1, <1>4

LEMMA NextPartition ==
  ASSUME NEW w \in Workers, NEW a \in Nat, a % NumThreads = w, a < NumPartitions
  PROVE  /\ (a + NumThreads) % NumThreads = w
         /\ a \in ShareOf(w)
         /\ {p \in ShareOf(w) : p < a + NumThreads} = {p \in ShareOf(w) : p < a} \cup {a}
         /\ {p \in ShareOf(w) : p < a} \cap {a} = {}
<1>1. a \in ShareOf(w)
  BY WorkerNumbers DEF ShareOf
<1>2. ASSUME NEW p \in ShareOf(w)
      PROVE  p < a + NumThreads <=> p < a \/ p = a
  <2>1. p \in Nat /\ p % NumThreads = a % NumThreads /\ NumThreads \in Nat \ {0}
    BY WorkerNumbers DEF ShareOf
  <2>2. a <= p /\ p < a + NumThreads => p = a
    BY <2>1, Stride
  <2> QED
    BY <2>1, <2>2
<1>3. (a + NumThreads) % NumThreads = w
  BY WorkerNumbers, Stride
<1>4. ~ (a < a)
  OBVIOUS
<1> QED
  BY <1>1, <1>2, <1>3, <1>4

LEMMA ThreadsDone ==
  ASSUME Relations, ThreadsOK, SkewDone
  PROVE  SkewJoinResult = FullJoin
<1> DEFINE Upto(n) == {p \in Partitions : p % NumThreads < n}
           T == [n \in 0 .. NumThreads |-> JoinOf(Upto(n))]
<1>1. \A p \in Partitions : p \in Nat /\ p % NumThreads \in 0 .. NumThreads - 1
  BY WorkerNumbers
<1>2. T[0] = EmptyBag
  <2>1. Upto(0) = {} /\ 0 \in 0 .. NumThreads
    BY <1>1, WorkerNumbers
  <2> HIDE DEF Upto
  <2> QED
    BY <2>1, NoJoin
<1>3. ASSUME NEW n \in 1 .. NumThreads
      PROVE  T[n] = T[n - 1] (+) out[n - 1]
  <2>1. n - 1 \in Workers /\ n - 1 \in 0 .. NumThreads /\ n \in 0 .. NumThreads
    BY WorkerNumbers
  <2>2. Taken(n - 1) = ShareOf(n - 1)
    <3>1. at[n - 1] >= NumPartitions /\ at[n - 1] \in Nat
      BY <2>1 DEF SkewDone, Joined, ThreadsOK
    <3>2. \A p \in Partitions : p < at[n - 1]
      BY <3>1, WorkerNumbers
    <3> QED
      BY <3>2 DEF Taken, ShareOf
  <2>3. out[n - 1] = JoinOf(ShareOf(n - 1))
    BY <2>1, <2>2 DEF ThreadsOK
  <2>4. /\ Upto(n - 1) \cap ShareOf(n - 1) = {}
        /\ Upto(n - 1) \cup ShareOf(n - 1) = Upto(n)
    BY <1>1, WorkerNumbers DEF ShareOf
  <2>5. T[n] = JoinOf(Upto(n)) /\ T[n - 1] = JoinOf(Upto(n - 1))
    BY <2>1
  <2> HIDE DEF Upto, T
  <2> QED
    BY <2>3, <2>4, <2>5, DisjointJoins
<1>4. T[NumThreads] = FullJoin
  <2>1. Upto(NumThreads) = Partitions
    BY <1>1, WorkerNumbers
  <2>2. NumThreads \in 0 .. NumThreads
    BY WorkerNumbers
  <2>3. T[NumThreads] = JoinOf(Upto(NumThreads))
    BY <2>2
  <2> HIDE DEF T, Upto
  <2> QED
    BY <2>1, <2>3, AllJoined
<1>5. Collected(out, NumThreads) = T[NumThreads]
  <2>1. NumThreads \in Nat
    BY WorkerNumbers
  <2> HIDE DEF T
  <2> QED
    BY <1>2, <1>3, <2>1, CollectedIs
<1> QED
  BY <1>4, <1>5 DEF SkewJoinResult

LEMMA ExpectedIsFull ==
  ASSUME Indexed, hot = HotKeys
  PROVE  ExpectedJoin = FullJoin
BY DEF Indexed, ExpectedJoin, FullJoin, Joins, Pairs, Answer, IndexResult, HotResult

-----------------------------------------------------------------------------
\* What the executor has, in each step of an iteration.

Fresh ==
    /\ buildParts = NoPartitions /\ probeParts = NoPartitions
    /\ hot = {} /\ hotCount = NoCounts /\ ~ sampled

ExecutorOK ==
    /\ pc = "build" => Fresh
    /\ pc = "partition" => Fresh /\ Indexed
    /\ pc = "spawn" => /\ Partitioned /\ Indexed
                       /\ hot = {} /\ hotCount = NoCounts /\ ~ sampled
    /\ pc = "join" => Partitioned /\ Indexed /\ Detected /\ ThreadsOK
    /\ pc = "skew" /\ iter > Warmups => Indexed /\ hot = HotKeys
    /\ pc = "report" /\ config.skewAware => Indexed /\ hot = HotKeys
    /\ pc = "end" /\ printed # << >> /\ config.skewAware => Indexed /\ hot = HotKeys

JoinPcs == {"skew", "build", "partition", "spawn", "join"}

\* The operations of n measured iterations.
Operations(n, each) == IF n <= Warmups THEN 0 ELSE (n - Warmups) * each

FullCount == NumResults(FullJoin)

CountsOK ==
    /\ iter \in 0 .. Warmups + Measurements
    /\ pc \in {"baseline", "art"} => total = Operations(iter, Len(build))
    /\ pc \in JoinPcs => total = Operations(iter, FullCount)
    /\ pc \notin {"baseline", "art"} \cup JoinPcs => iter = 0 /\ total = 0
    /\ pc \in Benchmarks /\ ~ Selects(pc) => iter = 0
    /\ pc \in JoinPcs \ {"skew"} => config.skewAware /\ iter < Warmups + Measurements
    /\ pc \in {"partition", "spawn", "join"} => iter >= Warmups

\* Either all benchmarks are selected or at most one is.
ConfigOK ==
    /\ config \in [baseline: BOOLEAN, concurrent: BOOLEAN, skewAware: BOOLEAN,
                   scalability: BOOLEAN]
    /\ \/ config.baseline /\ config.concurrent /\ config.skewAware
       \/ ~ config.baseline /\ ~ config.concurrent
       \/ ~ config.baseline /\ ~ config.skewAware
       \/ ~ config.concurrent /\ ~ config.skewAware

RowIf(selected, name, n) ==
    IF selected THEN <<[bench |-> name, operations |-> n]>> ELSE << >>

BaselineRows == RowIf(config.baseline, "baseline", Len(build))
ArtRows      == BaselineRows \o RowIf(config.concurrent, "art", Len(build))
SkewRows     == ArtRows \o RowIf(config.skewAware, "skew", FullCount)

Labelled(rows) == [i \in DOMAIN rows |-> [label |-> Names[i], row |-> rows[i]]]

RowsOK ==
    /\ pc \in {"parse", "scalability", "stalled", "baseline"} => results = << >>
    /\ pc = "art" => results = BaselineRows
    /\ pc \in JoinPcs => results = ArtRows
    /\ pc = "report" => results = SkewRows
    /\ printed # << >> => pc = "end" /\ printed = Labelled(SkewRows)

IInv == Relations /\ ExecutorOK /\ CountsOK /\ ConfigOK /\ RowsOK

LEMMA InitIInv == Init => IInv
<1> SUFFICES ASSUME Init PROVE IInv
  OBVIOUS
<1>1. Relations
  <2>1. PICK n \in BuildSizes : build \in [1 .. n -> Keys] /\ probe \in [1 .. 2 * n -> Keys]
    BY DEF Init, ExecutorInit, GenerateDataset
  <2>2. n \in Nat /\ 2 * n \in Nat
    BY SkewAssumption
  <2> QED
    BY <2>1, <2>2 DEF Relations
<1>2. pc = "parse" /\ iter = 0 /\ total = 0 /\ results = << >> /\ printed = << >>
      /\ config = AllBenchmarks
  BY DEF Init
<1>3. ExecutorOK /\ CountsOK
  BY <1>2, BenchAssumption DEF ExecutorOK, CountsOK, Benchmarks, JoinPcs
<1>4. ConfigOK /\ RowsOK
  BY <1>2 DEF ConfigOK, AllBenchmarks, RowsOK, JoinPcs
<1> QED
  BY <1>1, <1>3, <1>4 DEF IInv

\* The relations do not change, nor what is computed from them.
LEMMA SameJoin ==
  ASSUME UNCHANGED relations
  PROVE  /\ HotKeys' = HotKeys /\ FullJoin' = FullJoin /\ FullCount' = FullCount
         /\ Relations' = Relations
<1>1. build' = build /\ probe' = probe
  BY DEF relations
<1>2. HotKeys' = HotKeys
  BY <1>1 DEF HotKeys, SampleCount
<1>3. Joins' = Joins
  BY <1>1, <1>2 DEF Joins, Pairs
<1>4. [bp \in Joins |-> Answer(bp)]' = [bp \in Joins |-> Answer(bp)]
  BY <1>1, <1>2, <1>3 DEF Answer, HotResult
<1>5. FullJoin' = FullJoin
  BY <1>4 DEF FullJoin
<1> QED
  BY <1>1, <1>2, <1>5 DEF FullCount, Relations

LEMMA SameExecutor ==
  ASSUME UNCHANGED <<relations, joinVars>>
  PROVE  /\ Fresh' = Fresh /\ Partitioned' = Partitioned /\ Indexed' = Indexed
         /\ Detected' = Detected /\ ThreadsOK' = ThreadsOK
         /\ hot' = hot /\ hotCount' = hotCount /\ sampled' = sampled
         /\ HotKeys' = HotKeys
<1>1. HotKeys' = HotKeys /\ FullJoin' = FullJoin
  BY SameJoin
<1>2. /\ build' = build /\ probe' = probe /\ index' = index /\ buildParts' = buildParts
      /\ probeParts' = probeParts /\ hot' = hot /\ hotCount' = hotCount
      /\ sampled' = sampled /\ at' = at /\ out' = out
  BY DEF relations, joinVars
<1>3. Detected' = Detected
  BY <1>1, <1>2 DEF Detected, HotIn
<1>4. ThreadsOK' = ThreadsOK
  BY <1>1, <1>2 DEF ThreadsOK, Taken, JoinOf
<1> QED
  BY <1>1, <1>2, <1>3, <1>4 DEF Fresh, Partitioned, Indexed

LEMMA SameRows ==
  ASSUME UNCHANGED <<relations, config>>
  PROVE  /\ BaselineRows' = BaselineRows /\ ArtRows' = ArtRows /\ SkewRows' = SkewRows
         /\ build' = build /\ FullCount' = FullCount
<1>1. build' = build /\ FullCount' = FullCount /\ config' = config
  BY SameJoin DEF relations
<1> QED
  BY <1>1 DEF BaselineRows, ArtRows, SkewRows

LEMMA OneMore ==
  ASSUME NEW n \in Nat, NEW each \in Nat
  PROVE  Operations(n + 1, each) = IF n < Warmups THEN Operations(n, each)
                                   ELSE Operations(n, each) + each
<1>1. Warmups \in Nat
  BY BenchAssumption
<1>2. CASE n < Warmups
  BY <1>1, <1>2 DEF Operations
<1>3. CASE n = Warmups
  BY <1>1, <1>3 DEF Operations
<1>4. CASE n > Warmups
  <2> DEFINE m == n - Warmups
  <2>1. m \in Nat /\ n + 1 - Warmups = m + 1
    BY <1>1, <1>4
  <2>2. (m + 1) * each = m * each + each
    BY <2>1
  <2>3. Operations(n, each) = m * each /\ Operations(n + 1, each) = (n + 1 - Warmups) * each
    BY <1>1, <1>4 DEF Operations
  <2>4. ~ (n < Warmups)
    BY <1>1, <1>4
  <2> HIDE DEF m
  <2> QED
    BY <2>1, <2>2, <2>3, <2>4
<1> QED
  BY <1>1, <1>2, <1>3, <1>4

LEMMA Mean ==
  ASSUME NEW each \in Nat
  PROVE  Operations(Warmups + Measurements, each) \div Measurements = each
<1>1. Warmups \in Nat /\ Measurements \in Nat \ {0}
  BY BenchAssumption
<1>2. Operations(Warmups + Measurements, each) = Measurements * each
  BY <1>1 DEF Operations
<1>3. (Measurements * each) \div Measurements = each
  BY <1>1
<1> QED
  BY <1>2, <1>3

LEMMA Numbers ==
  ASSUME IInv
  PROVE  Len(build) \in Nat /\ FullCount \in Nat /\ Warmups \in Nat /\ iter \in Nat
         /\ Measurements \in Nat \ {0}
BY FullJoinSize, BenchAssumption DEF IInv, Relations, FullCount, CountsOK

Rows == Seq([bench: Benchmarks, operations: Nat])

LEMMA RowsType ==
  ASSUME IInv
  PROVE  BaselineRows \in Rows /\ ArtRows \in Rows
<1>1. ASSUME NEW b, NEW name \in Benchmarks, NEW n \in Nat
      PROVE  RowIf(b, name, n) \in Rows
  <2> DEFINE R == [bench: Benchmarks, operations: Nat]
             r == [bench |-> name, operations |-> n]
  <2>1. r \in R
    OBVIOUS
  <2>2. RowIf(b, name, n) = IF b THEN <<r>> ELSE << >>
    BY DEF RowIf
  <2> HIDE DEF r, R
  <2>3. <<r>> \in Seq(R) /\ << >> \in Seq(R)
    BY <2>1
  <2> QED
    BY <2>2, <2>3 DEF Rows, R
<1>2. Len(build) \in Nat /\ {"baseline", "art"} \subseteq Benchmarks
  BY Numbers DEF Benchmarks
<1>3. /\ RowIf(config.baseline, "baseline", Len(build)) \in Rows
      /\ RowIf(config.concurrent, "art", Len(build)) \in Rows
  BY <1>1, <1>2
<1> QED
  BY <1>3 DEF BaselineRows, ArtRows, Rows

LEMMA RowAdded ==
  ASSUME NEW rows \in Rows, NEW name \in Benchmarks, NEW n \in Nat
  PROVE  /\ rows \o RowIf(FALSE, name, n) = rows
         /\ rows \o RowIf(TRUE, name, n) = Append(rows, [bench |-> name, operations |-> n])
BY DEF Rows, RowIf

LEMMA ParseStep ==
  ASSUME IInv, ParseArg \/ StartSuite
  PROVE  IInv'
<1> USE DEF IInv
<1>1. Relations' /\ printed = << >>
  BY SameJoin DEF ParseArg, StartSuite, RowsOK
<1>2. /\ pc = "parse" /\ pc' \in {"parse", "end", "scalability", "baseline"}
      /\ UNCHANGED <<iter, total, results, printed>>
  BY DEF ParseArg, StartSuite
<1>3. ExecutorOK'
  BY <1>1, <1>2 DEF ExecutorOK
<1>4. CountsOK'
  <2>1. iter = 0 /\ total = 0
    BY <1>2 DEF CountsOK, JoinPcs
  <2>2. Operations(0, Len(build)') = 0
    BY BenchAssumption DEF Operations
  <2> QED
    BY <1>2, <2>1, <2>2 DEF CountsOK, JoinPcs
<1>5. ConfigOK'
  <2>1. CASE ParseArg
    <3>1. config' = Selected(Head(args))
      BY <2>1 DEF ParseArg
    <3> DEFINE flag == Head(args)
    <3> HIDE DEF flag
    <3>2. config' = Selected(flag)
      BY <3>1 DEF flag
    <3> QED
      BY <3>2 DEF ConfigOK, Selected, AllBenchmarks
  <2>2. CASE StartSuite
    BY <2>2 DEF StartSuite, ConfigOK
  <2> QED
    BY <2>1, <2>2
<1>6. RowsOK'
  BY <1>1, <1>2 DEF RowsOK, JoinPcs
<1> QED
  BY <1>1, <1>3, <1>4, <1>5, <1>6

LEMMA SkipStep ==
  ASSUME IInv, Skip
  PROVE  IInv'
<1> USE DEF IInv
<1>1. /\ pc \in Benchmarks /\ ~ Selects(pc) /\ pc' = After(pc)
      /\ UNCHANGED <<config, iter, total, results, printed, relations, joinVars>>
  BY DEF Skip
<1>2. Relations'
  BY <1>1, SameJoin
<1>3. iter = 0 /\ total = 0 /\ Warmups \in Nat
  BY <1>1, BenchAssumption DEF CountsOK, Operations, Benchmarks, JoinPcs
<1>4. printed = << >>
  BY <1>1 DEF RowsOK, Benchmarks
<1>5. ExecutorOK'
  <2>1. pc' \in {"art", "skew", "report"} /\ (pc' = "report" => ~ config.skewAware)
    BY <1>1 DEF Benchmarks, After, Selects
  <2>2. ~ (iter' > Warmups) /\ config' = config
    BY <1>1, <1>3
  <2> QED
    BY <2>1, <2>2 DEF ExecutorOK
<1>6. CountsOK'
  <2>1. Operations(0, Len(build)') = 0 /\ Operations(0, FullCount') = 0
    BY <1>3 DEF Operations
  <2>2. pc' \in {"art", "skew", "report"}
    BY <1>1 DEF After, Benchmarks
  <2> QED
    BY <1>1, <1>3, <2>1, <2>2, BenchAssumption DEF CountsOK, JoinPcs, Benchmarks
<1>7. ConfigOK'
  BY <1>1 DEF ConfigOK
<1>8. RowsOK'
  <2>1. BaselineRows' = BaselineRows /\ ArtRows' = ArtRows /\ SkewRows' = SkewRows
    BY <1>1, SameRows
  <2>2. CASE pc = "baseline"
    <3>1. pc' = "art" /\ results' = << >> /\ BaselineRows = << >>
      BY <1>1, <2>2 DEF After, Selects, RowsOK, BaselineRows, RowIf
    <3> QED
      BY <1>1, <1>4, <2>1, <3>1 DEF RowsOK, JoinPcs
  <2>3. CASE pc = "art"
    <3>1. pc' = "skew" /\ results' = BaselineRows /\ ~ config.concurrent
      BY <1>1, <2>3 DEF After, Selects, RowsOK
    <3>2. ArtRows = BaselineRows
      BY <3>1, RowsType, RowAdded, Numbers DEF ArtRows, Benchmarks, RowIf
    <3> QED
      BY <1>1, <1>4, <2>1, <3>1, <3>2 DEF RowsOK, JoinPcs
  <2>4. CASE pc = "skew"
    <3>1. pc' = "report" /\ results' = ArtRows /\ ~ config.skewAware
      BY <1>1, <2>4 DEF After, Selects, RowsOK, JoinPcs
    <3>2. SkewRows = ArtRows
      BY <3>1, RowsType, RowAdded, Numbers DEF SkewRows, Benchmarks, RowIf
    <3> QED
      BY <1>1, <1>4, <2>1, <3>1, <3>2 DEF RowsOK, JoinPcs
  <2> QED
    BY <1>1, <2>2, <2>3, <2>4 DEF Benchmarks
<1> QED
  BY <1>2, <1>5, <1>6, <1>7, <1>8

LEMMA IndexStep ==
  ASSUME IInv, IndexIteration
  PROVE  IInv'
<1> USE DEF IInv
<1>1. /\ pc \in {"baseline", "art"} /\ Selects(pc) /\ iter < Warmups + Measurements
      /\ iter' = iter + 1 /\ total' = IF iter < Warmups THEN total ELSE total + Len(build)
      /\ UNCHANGED <<config, pc, results, printed, relations, joinVars>>
  BY DEF IndexIteration
<1>2. Relations' /\ build' = build
  BY <1>1, SameJoin DEF relations
<1>3. printed = << >>
  BY <1>1 DEF RowsOK
<1>4. ExecutorOK'
  BY <1>1, <1>3 DEF ExecutorOK
<1>5. CountsOK'
  <2>1. iter \in Nat /\ Len(build) \in Nat /\ Warmups \in Nat /\ Measurements \in Nat
    BY Numbers
  <2>2. total' = Operations(iter', Len(build'))
    BY <1>1, <1>2, <2>1, OneMore DEF CountsOK
  <2>3. iter' \in 0 .. Warmups + Measurements
    BY <1>1, <2>1
  <2>4. Selects(pc)'
    BY <1>1 DEF Selects
  <2> QED
    BY <1>1, <2>2, <2>3, <2>4 DEF CountsOK, JoinPcs
<1>6. ConfigOK'
  BY <1>1 DEF ConfigOK
<1>7. RowsOK'
  BY <1>1, <1>3, SameRows DEF RowsOK, JoinPcs
<1> QED
  BY <1>2, <1>4, <1>5, <1>6, <1>7

LEMMA FinishStep ==
  ASSUME IInv, Finish
  PROVE  IInv'
<1> USE DEF IInv
<1> DEFINE n == IF pc = "skew" THEN FullCount ELSE Len(build)
           row == [bench |-> pc, operations |-> n]
<1>1. /\ pc \in Benchmarks /\ Selects(pc) /\ iter = Warmups + Measurements
      /\ pc' = After(pc) /\ iter' = 0 /\ total' = 0
      /\ UNCHANGED <<config, printed, relations, joinVars>>
  BY DEF Finish
<1>2. Relations'
  BY <1>1, SameJoin
<1>3. results' = Append(results, row)
  <2>1. total = Operations(Warmups + Measurements, n)
    BY <1>1 DEF CountsOK, Benchmarks, JoinPcs
  <2>2. total \div Measurements = n
    BY <2>1, Numbers, Mean
  <2> HIDE DEF n
  <2> QED
    BY <2>2 DEF Finish
<1>4. printed = << >> /\ iter > Warmups
  BY <1>1, Numbers DEF RowsOK, Benchmarks
<1>5. pc' \in {"art", "skew", "report"}
  BY <1>1 DEF Benchmarks, After
<1>6. ExecutorOK'
  <2>1. pc' = "report" => Indexed /\ hot = HotKeys
    BY <1>1, <1>4 DEF Benchmarks, After, ExecutorOK
  <2>2. ~ (iter' > Warmups)
    BY <1>1, Numbers
  <2> QED
    BY <1>1, <1>5, <2>1, <2>2, SameExecutor DEF ExecutorOK
<1>7. CountsOK'
  <2>1. Operations(0, Len(build)') = 0 /\ Operations(0, FullCount') = 0
    BY BenchAssumption DEF Operations
  <2> QED
    BY <1>1, <1>5, <2>1, BenchAssumption DEF CountsOK, JoinPcs
<1>8. ConfigOK'
  BY <1>1 DEF ConfigOK
<1>9. RowsOK'
  <2>1. BaselineRows' = BaselineRows /\ ArtRows' = ArtRows /\ SkewRows' = SkewRows
    BY <1>1, SameRows
  <2>2. Selects("baseline") = config.baseline /\ Selects("art") = config.concurrent
        /\ Selects("skew") = config.skewAware
    BY DEF Selects
  <2>3. config.baseline \in BOOLEAN /\ config.concurrent \in BOOLEAN /\ config.skewAware \in BOOLEAN
    BY DEF ConfigOK
  <2>4. CASE pc = "baseline"
    <3>1. pc' = "art" /\ results = << >> /\ config.baseline /\ n = Len(build)
      BY <1>1, <2>2, <2>4 DEF After, RowsOK
    <3>2. BaselineRows = <<row>>
      BY <2>4, <3>1 DEF BaselineRows, RowIf
    <3>3. results' = BaselineRows
      <4> HIDE DEF row, n
      <4> QED
        BY <1>3, <3>1, <3>2
    <3> QED
      BY <1>1, <1>4, <2>1, <3>1, <3>3 DEF RowsOK, JoinPcs
  <2>5. CASE pc = "art"
    <3>1. pc' = "skew" /\ results = BaselineRows /\ config.concurrent = TRUE /\ n = Len(build)
      BY <1>1, <2>2, <2>3, <2>5 DEF After, RowsOK
    <3>2. Append(BaselineRows, row) = ArtRows
      BY <2>5, <3>1, RowsType, RowAdded, Numbers DEF ArtRows, Benchmarks
    <3> QED
      BY <1>1, <1>3, <1>4, <2>1, <3>1, <3>2 DEF RowsOK, JoinPcs
  <2>6. CASE pc = "skew"
    <3>1. pc' = "report" /\ results = ArtRows /\ config.skewAware = TRUE /\ n = FullCount
      BY <1>1, <2>2, <2>3, <2>6 DEF After, RowsOK, JoinPcs
    <3>2. Append(ArtRows, row) = SkewRows
      BY <2>6, <3>1, RowsType, RowAdded, Numbers DEF SkewRows, Benchmarks
    <3> QED
      BY <1>1, <1>3, <1>4, <2>1, <3>1, <3>2 DEF RowsOK, JoinPcs
  <2> QED
    BY <1>1, <2>4, <2>5, <2>6 DEF Benchmarks
<1> QED
  BY <1>2, <1>6, <1>7, <1>8, <1>9

LEMMA JoinedStep ==
  ASSUME IInv, SkewJoined
  PROVE  IInv'
<1> USE DEF IInv
<1>1. /\ pc = "join" /\ pc' = "skew" /\ SkewDone /\ iter' = iter + 1
      /\ total' = total + NumResults(SkewJoinResult)
      /\ UNCHANGED <<config, results, printed, relations, joinVars>>
  BY DEF SkewJoined, SkewGoTo
<1>2. Relations' /\ FullCount' = FullCount
  BY <1>1, SameJoin
<1>3. SkewJoinResult = FullJoin
  BY <1>1, ThreadsDone DEF ExecutorOK
<1>4. printed = << >>
  BY <1>1 DEF RowsOK
<1>5. ExecutorOK'
  <2>1. Indexed /\ hot = HotKeys
    BY <1>1 DEF ExecutorOK, Detected
  <2> QED
    BY <1>1, <1>4, <2>1, SameExecutor DEF ExecutorOK
<1>6. CountsOK'
  <2>1. /\ iter \in Nat /\ Warmups \in Nat /\ Measurements \in Nat /\ iter >= Warmups
        /\ iter < Warmups + Measurements /\ config.skewAware
    BY <1>1, Numbers DEF CountsOK, JoinPcs
  <2>2. total = Operations(iter, FullCount) /\ total' = total + FullCount
    BY <1>1, <1>3 DEF CountsOK, JoinPcs, FullCount
  <2>3. total' = Operations(iter', FullCount')
    BY <1>1, <1>2, <2>1, <2>2, Numbers, OneMore
  <2>4. iter' \in 0 .. Warmups + Measurements
    BY <1>1, <2>1
  <2>5. Selects("skew")'
    BY <1>1, <2>1 DEF Selects
  <2> QED
    BY <1>1, <2>3, <2>4, <2>5 DEF CountsOK, JoinPcs
<1>7. ConfigOK'
  BY <1>1 DEF ConfigOK
<1>8. RowsOK'
  BY <1>1, <1>4, SameRows DEF RowsOK, JoinPcs
<1> QED
  BY <1>2, <1>5, <1>6, <1>7, <1>8

LEMMA ReportStep ==
  ASSUME IInv, Report
  PROVE  IInv'
<1> USE DEF IInv
<1>1. /\ pc = "report" /\ pc' = "end" /\ printed' = Labelled(results)
      /\ UNCHANGED <<config, iter, total, results, relations, joinVars>>
  BY DEF Report, Labelled
<1>2. Relations'
  BY <1>1, SameJoin
<1>3. ExecutorOK'
  BY <1>1, SameExecutor DEF ExecutorOK
<1>4. CountsOK'
  BY <1>1 DEF CountsOK, JoinPcs, Benchmarks
<1>5. ConfigOK'
  BY <1>1 DEF ConfigOK
<1>6. RowsOK'
  <2>1. printed' = Labelled(SkewRows) /\ SkewRows' = SkewRows
    BY <1>1, SameRows DEF RowsOK
  <2>2. Labelled(SkewRows)' = Labelled(SkewRows)
    BY <2>1 DEF Labelled, Names
  <2> QED
    BY <1>1, <2>1, <2>2 DEF RowsOK, JoinPcs
<1> QED
  BY <1>2, <1>3, <1>4, <1>5, <1>6

LEMMA ScalabilityStep ==
  ASSUME IInv, ScalabilityRound \/ ScalabilityEnds
  PROVE  IInv'
<1> USE DEF IInv
<1>1. /\ pc = "scalability" /\ pc' \in {"scalability", "stalled", "end"}
      /\ UNCHANGED <<config, iter, total, results, printed, relations, joinVars>>
  BY DEF ScalabilityRound, ScalabilityEnds
<1>2. Relations' /\ printed = << >>
  BY <1>1, SameJoin DEF RowsOK
<1>3. ExecutorOK' /\ CountsOK'
  BY <1>1, <1>2 DEF ExecutorOK, CountsOK, JoinPcs, Benchmarks
<1>4. ConfigOK' /\ RowsOK'
  BY <1>1, <1>2 DEF ConfigOK, RowsOK, JoinPcs
<1> QED
  BY <1>2, <1>3, <1>4

-----------------------------------------------------------------------------
\* The steps of an iteration of the join.

LEMMA SkewKeeps ==
  ASSUME IInv, pc \in JoinPcs, pc' \in JoinPcs,
         UNCHANGED <<config, results, printed, relations>>
  PROVE  /\ Relations' /\ ConfigOK' /\ RowsOK' /\ printed = << >>
         /\ FullCount' = FullCount /\ HotKeys' = HotKeys /\ build' = build /\ probe' = probe
<1>1. printed = << >> /\ results = ArtRows
  BY DEF IInv, RowsOK, JoinPcs
<1>2. Relations' /\ ConfigOK' /\ FullCount' = FullCount /\ HotKeys' = HotKeys
  BY SameJoin DEF IInv, ConfigOK
<1>3. RowsOK'
  BY <1>1, SameRows DEF RowsOK, JoinPcs
<1> QED
  BY <1>1, <1>2, <1>3 DEF relations

LEMMA ResetStep ==
  ASSUME IInv, SkewReset
  PROVE  IInv'
<1>1. /\ pc = "skew" /\ pc' = "build" /\ Selects("skew") /\ iter < Warmups + Measurements
      /\ UNCHANGED <<config, results, printed, relations, iter, total>> /\ Fresh'
  BY DEF SkewReset, SkewGoTo, Reset, Fresh, NoPartitions, NoCounts
<1>2. Relations' /\ ConfigOK' /\ RowsOK' /\ FullCount' = FullCount
  BY <1>1, SkewKeeps DEF JoinPcs
<1>3. ExecutorOK'
  BY <1>1 DEF ExecutorOK
<1>4. CountsOK'
  BY <1>1, <1>2 DEF IInv, CountsOK, JoinPcs, Benchmarks, Selects
<1> QED
  BY <1>2, <1>3, <1>4 DEF IInv

LEMMA BuildStep ==
  ASSUME IInv, SkewBuild
  PROVE  IInv'
<1>1. /\ pc = "build" /\ pc' = (IF iter < Warmups THEN "skew" ELSE "partition")
      /\ iter' = (IF iter < Warmups THEN iter + 1 ELSE iter)
      /\ index' = ArtIndex(build)
      /\ UNCHANGED <<config, results, printed, relations, total>>
      /\ UNCHANGED <<buildParts, probeParts, hot, hotCount, sampled>>
  BY DEF SkewBuild, SkewGoTo, BuildIndex
<1>2. /\ Relations' /\ ConfigOK' /\ RowsOK' /\ FullCount' = FullCount /\ build' = build
      /\ printed = << >>
  BY <1>1, SkewKeeps DEF JoinPcs
<1>3. iter \in Nat /\ Warmups \in Nat /\ Measurements \in Nat /\ FullCount \in Nat
  BY Numbers
<1>4. Fresh' /\ Indexed'
  BY <1>1, <1>2 DEF IInv, ExecutorOK, Fresh, Indexed, NoPartitions, NoCounts
<1>5. ~ (pc' = "skew" /\ iter' > Warmups)
  BY <1>1, <1>3
<1>6. ExecutorOK'
  <2>1. pc' \in {"skew", "partition"}
    BY <1>1
  <2> QED
    BY <1>4, <1>5, <2>1 DEF ExecutorOK
<1>7. CountsOK'
  <2>1. total = Operations(iter, FullCount) /\ config.skewAware
        /\ iter < Warmups + Measurements
    BY <1>1 DEF IInv, CountsOK, JoinPcs
  <2>2. CASE iter < Warmups
    <3>1. Operations(iter + 1, FullCount) = Operations(iter, FullCount)
      BY <1>3, <2>2, OneMore
    <3>2. pc' = "skew" /\ iter' = iter + 1 /\ total' = Operations(iter', FullCount')
          /\ iter' \in 0 .. Warmups + Measurements
      BY <1>1, <1>2, <1>3, <2>1, <2>2, <3>1
    <3>3. Selects("skew")'
      BY <1>1, <2>1 DEF Selects
    <3> QED
      BY <3>2, <3>3 DEF CountsOK, JoinPcs
  <2>3. CASE ~ (iter < Warmups)
    <3>1. pc' = "partition" /\ iter' = iter /\ total' = Operations(iter', FullCount')
          /\ iter' \in 0 .. Warmups + Measurements /\ iter' >= Warmups
          /\ iter' < Warmups + Measurements /\ config'.skewAware
      BY <1>1, <1>2, <1>3, <2>1, <2>3
    <3> QED
      BY <3>1 DEF CountsOK, JoinPcs, Benchmarks
  <2> QED
    BY <2>2, <2>3
<1> QED
  BY <1>2, <1>6, <1>7 DEF IInv

LEMMA PartitionStep ==
  ASSUME IInv, SkewPartition
  PROVE  IInv'
<1>1. /\ pc = "partition" /\ pc' = "spawn"
      /\ UNCHANGED <<config, results, printed, relations, iter, total>>
      /\ UNCHANGED <<index, hot, hotCount, sampled>>
      /\ buildParts' = [p \in Partitions |-> buildParts[p] \o Positions(build, p)]
      /\ probeParts' = [p \in Partitions |-> probeParts[p] \o Positions(probe, p)]
  BY DEF SkewPartition, SkewGoTo, PartitionRelations
<1>2. /\ Relations' /\ ConfigOK' /\ RowsOK' /\ FullCount' = FullCount /\ build' = build
      /\ probe' = probe /\ printed = << >>
  BY <1>1, SkewKeeps DEF JoinPcs
<1>3. Fresh /\ Indexed
  BY <1>1 DEF IInv, ExecutorOK
<1>4. Partitioned'
  <2>1. \A p \in Partitions : Positions(build, p) \in Seq(Nat) /\ Positions(probe, p) \in Seq(Nat)
    BY PositionsAre DEF IInv, Relations
  <2>2. \A p \in Partitions : /\ buildParts[p] \o Positions(build, p) = Positions(build, p)
                              /\ probeParts[p] \o Positions(probe, p) = Positions(probe, p)
    BY <1>3, <2>1 DEF Fresh, NoPartitions
  <2> QED
    BY <1>1, <1>2, <2>2 DEF Partitioned
<1>5. ExecutorOK'
  BY <1>1, <1>2, <1>3, <1>4 DEF ExecutorOK, Fresh, Indexed, NoCounts
<1>6. CountsOK'
  BY <1>1, <1>2 DEF IInv, CountsOK, JoinPcs, Benchmarks
<1> QED
  BY <1>2, <1>5, <1>6 DEF IInv

LEMMA SpawnStep ==
  ASSUME IInv, SkewSpawn
  PROVE  IInv'
<1>1. /\ pc = "spawn" /\ pc' = "join" /\ DetectHotKeys
      /\ UNCHANGED <<config, results, printed, relations, iter, total>>
      /\ UNCHANGED <<index, buildParts, probeParts>>
      /\ at' = [w \in Workers |-> w] /\ out' = [w \in Workers |-> EmptyBag]
  BY DEF SkewSpawn, SkewGoTo, SpawnWorkers
<1>2. /\ Relations' /\ ConfigOK' /\ RowsOK' /\ FullCount' = FullCount /\ build' = build
      /\ probe' = probe /\ printed = << >> /\ HotKeys' = HotKeys
  BY <1>1, SkewKeeps DEF JoinPcs
<1>3. Partitioned /\ Indexed /\ hot = {} /\ hotCount = NoCounts /\ ~ sampled
  BY <1>1 DEF IInv, ExecutorOK
<1>4. Partitioned' /\ Indexed'
  BY <1>1, <1>2, <1>3 DEF Partitioned, Indexed
<1>5. Detected'
  <2>1. buildParts[0] = Positions(build, 0)
    <3>1. 0 \in Partitions
      BY WorkerNumbers
    <3> QED
      BY <1>3, <3>1 DEF Partitioned
  <2>2. {k \in Keys : SampleCount(buildParts[0], k) >= MinHotFrequency} = HotKeys
    BY <2>1 DEF HotKeys
  <2>3. hot' = HotKeys /\ hotCount' = [p \in Partitions |-> hotCount[p] +
                              Cardinality({k \in HotKeys : GetPartition(k) = p})]
    <3>1. HotKeys = {} \cup HotKeys
      OBVIOUS
    <3> QED
      BY <1>1, <1>3, <2>2, <3>1 DEF DetectHotKeys
  <2>4. ASSUME NEW p \in Partitions
        PROVE  hotCount[p] + Cardinality({k \in HotKeys : GetPartition(k) = p})
                 = Cardinality(HotIn(p))
    <3>1. hotCount[p] = 0
      BY <1>3 DEF NoCounts
    <3>2. {k \in HotKeys : GetPartition(k) = p} = HotIn(p)
      BY DEF GetPartition, HotIn
    <3>3. HotIn(p) \in SUBSET Keys
      BY DEF HotIn, HotKeys
    <3>4. Cardinality(HotIn(p)) \in Nat
      BY <3>3, SkewAssumption, FS_Subset, FS_CardinalityType
    <3> QED
      BY <3>1, <3>2, <3>4
  <2>5. hotCount' = [p \in Partitions |-> Cardinality(HotIn(p))]
    BY <2>3, <2>4
  <2> QED
    BY <1>2, <2>3, <2>5 DEF Detected, HotIn
<1>6. ThreadsOK'
  <2>1. \A w \in Workers : w \in Nat /\ w % NumThreads = w /\ {p \in ShareOf(w) : p < w} = {}
    BY FirstPartition
  <2>2. at' \in [Workers -> Nat] /\ out' = [w \in Workers |-> out'[w]]
    BY <1>1, <2>1
  <2>3. ASSUME NEW w \in Workers PROVE at'[w] % NumThreads = w /\ out'[w] = JoinOf(Taken(w))'
    <3>1. at'[w] = w /\ out'[w] = EmptyBag
      BY <1>1
    <3>2. Taken(w)' = {}
      BY <2>1, <3>1 DEF Taken, ShareOf
    <3>3. ResultsIn(FullJoin', build', {}) = EmptyBag
      BY DEF ResultsIn, EmptyBag, SetToBag
    <3>4. JoinOf(Taken(w))' = EmptyBag
      BY <3>2, <3>3 DEF JoinOf
    <3> QED
      BY <2>1, <3>1, <3>4
  <2> QED
    BY <2>2, <2>3 DEF ThreadsOK
<1>7. ExecutorOK'
  BY <1>1, <1>4, <1>5, <1>6 DEF ExecutorOK
<1>8. CountsOK'
  BY <1>1, <1>2 DEF IInv, CountsOK, JoinPcs, Benchmarks
<1> QED
  BY <1>2, <1>7, <1>8 DEF IInv

LEMMA WorkStep ==
  ASSUME IInv, SkewWork
  PROVE  IInv'
<1>1. PICK v \in Workers : SkewWorker(v)
  BY DEF SkewWork
<1>2. /\ pc = "join" /\ pc' = "join"
      /\ UNCHANGED <<config, results, printed, relations, iter, total>>
      /\ UNCHANGED <<index, buildParts, probeParts, hot, hotCount, sampled>>
      /\ at[v] < NumPartitions
      /\ out' = [out EXCEPT ![v] = @ (+) SkewResults(at[v])]
      /\ at' = [at EXCEPT ![v] = @ + NumThreads]
  BY <1>1 DEF SkewWork, SkewWorker, benchVars
<1>3. /\ Relations' /\ ConfigOK' /\ RowsOK' /\ FullCount' = FullCount /\ build' = build
      /\ probe' = probe /\ printed = << >> /\ HotKeys' = HotKeys
  BY <1>2, SkewKeeps DEF JoinPcs
<1>4. Partitioned /\ Indexed /\ Detected /\ ThreadsOK /\ Relations
  BY <1>2 DEF IInv, ExecutorOK
<1>5. Partitioned' /\ Indexed' /\ Detected'
  BY <1>2, <1>3, <1>4 DEF Partitioned, Indexed, Detected, HotIn
<1>6. ThreadsOK'
  <2> DEFINE a == at[v]
  <2>1. a \in Nat /\ a % NumThreads = v /\ a < NumPartitions /\ out[v] = JoinOf(Taken(v))
    BY <1>2, <1>4 DEF ThreadsOK
  <2>2. /\ (a + NumThreads) % NumThreads = v /\ a \in ShareOf(v)
        /\ {p \in ShareOf(v) : p < a + NumThreads} = Taken(v) \cup {a}
        /\ Taken(v) \cap {a} = {}
    <3> HIDE DEF a
    <3>1. /\ (a + NumThreads) % NumThreads = v /\ a \in ShareOf(v)
          /\ {p \in ShareOf(v) : p < a + NumThreads} = {p \in ShareOf(v) : p < a} \cup {a}
          /\ {p \in ShareOf(v) : p < a} \cap {a} = {}
      BY <2>1, NextPartition
    <3> QED
      BY <3>1 DEF Taken, a
  <2>3. at'[v] = a + NumThreads /\ at' \in [Workers -> Nat]
    <3>1. a + NumThreads \in Nat
      BY <2>1, WorkerNumbers
    <3> QED
      BY <1>2, <1>4, <3>1 DEF ThreadsOK
  <2>4. out' = [w \in Workers |-> out'[w]] /\ out'[v] = out[v] (+) SkewResults(a)
    BY <1>2, <1>4 DEF ThreadsOK
  <2>5. FullJoin' = FullJoin
    BY <1>2, SameJoin
  <2>6. out'[v] = JoinOf(Taken(v))'
    <3>1. SkewResults(a) = JoinOf({a})
      BY <1>4, <2>2, PartitionJoin DEF ShareOf
    <3>2. out'[v] = JoinOf(Taken(v) \cup {a})
      BY <1>4, <2>1, <2>2, <2>4, <3>1, DisjointJoins
    <3>3. Taken(v)' = Taken(v) \cup {a}
      BY <2>2, <2>3 DEF Taken, ShareOf
    <3> HIDE DEF a
    <3> QED
      BY <1>3, <2>5, <3>2, <3>3 DEF JoinOf
  <2>7. ASSUME NEW w \in Workers, w # v
        PROVE  at'[w] % NumThreads = w /\ out'[w] = JoinOf(Taken(w))'
    <3>1. at'[w] = at[w] /\ out'[w] = out[w]
      BY <1>2, <1>4, <2>7 DEF ThreadsOK
    <3>2. Taken(w)' = Taken(w)
      BY <3>1 DEF Taken, ShareOf
    <3>3. at[w] % NumThreads = w /\ out[w] = JoinOf(Taken(w))
      BY <1>4 DEF ThreadsOK
    <3> QED
      BY <1>3, <2>5, <3>1, <3>2, <3>3 DEF JoinOf
  <2> HIDE DEF a
  <2> QED
    BY <2>2, <2>3, <2>4, <2>6, <2>7 DEF ThreadsOK
<1>7. ExecutorOK'
  BY <1>2, <1>5, <1>6 DEF ExecutorOK
<1>8. CountsOK'
  BY <1>2, <1>3 DEF IInv, CountsOK, JoinPcs, Benchmarks
<1> QED
  BY <1>3, <1>7, <1>8 DEF IInv

LEMMA NextIInv == IInv /\ [Next]_vars => IInv'
<1> SUFFICES ASSUME IInv, [Next]_vars PROVE IInv'
  OBVIOUS
<1>1. CASE UNCHANGED vars
  <2>1. UNCHANGED <<config, pc, iter, total, results, printed, relations, joinVars>>
    BY <1>1 DEF vars, benchVars
  <2>2. Relations' /\ FullCount' = FullCount /\ build' = build
    BY <2>1, SameJoin DEF IInv, relations
  <2>3. ExecutorOK'
    BY <2>1, SameExecutor DEF IInv, ExecutorOK
  <2>4. CountsOK'
    BY <2>1, <2>2 DEF IInv, CountsOK, Selects
  <2>5. ConfigOK' /\ RowsOK'
    <3>1. Labelled(SkewRows)' = Labelled(SkewRows)
      BY <2>1, SameRows DEF Labelled, Names
    <3> QED
      BY <2>1, <3>1, SameRows DEF IInv, ConfigOK, RowsOK
  <2> QED
    BY <2>2, <2>3, <2>4, <2>5 DEF IInv
<1>2. CASE Next
  BY <1>2, ParseStep, SkipStep, IndexStep, FinishStep, ResetStep, BuildStep, PartitionStep,
     SpawnStep, WorkStep, JoinedStep, ReportStep, ScalabilityStep DEF Next
<1> QED
  BY <1>1, <1>2

LEMMA AlwaysIInv == Spec => []IInv
BY InitIInv, NextIInv, PTL DEF Spec

-----------------------------------------------------------------------------
\* A result stands for the pairs that give it: one of a hot key for one pair,
\* one that went through the index for all matches of its tuple.
LEMMA CopiesAre ==
  ASSUME Relations, NEW bp \in Joins
  PROVE  FullJoin[Answer(bp)] = IF build[bp[1]] \in HotKeys THEN 1
                                ELSE Cardinality(Matches(bp[1]))
<1> DEFINE same == {z \in Joins : Answer(z) = Answer(bp)}
<1>1. Answer(bp) \in DOMAIN FullJoin /\ FullJoin[Answer(bp)] = Cardinality(same)
  BY FullJoinType
<1>2. /\ bp[1] \in DOMAIN build /\ bp[2] \in DOMAIN probe /\ build[bp[1]] = probe[bp[2]]
      /\ bp = <<bp[1], bp[2]>>
  BY DEF Joins, Pairs
<1>3. \A z \in Joins : z = <<z[1], z[2]>>
  BY DEF Joins, Pairs
<1>4. \A z \in Joins : Answer(z) = Answer(bp) => z[1] = bp[1]
  BY AnswerBuild
<1>5. CASE build[bp[1]] \in HotKeys
  <2>1. \A z \in same : z[2] = bp[2]
    BY <1>4, <1>5 DEF Answer, HotResult
  <2>2. same = {bp}
    BY <1>2, <1>3, <1>4, <2>1
  <2> QED
    BY <1>1, <1>5, <2>2, FS_Singleton
<1>6. CASE build[bp[1]] \notin HotKeys
  <2> DEFINE M == Matches(bp[1])
             f == [z \in same |-> z[2]]
  <2>1. IsFiniteSet(same)
    BY JoinsFinite, FS_Subset
  <2>2. ASSUME NEW z \in same PROVE z[2] \in M
    <3>1. z[1] = bp[1] /\ z[2] \in DOMAIN probe /\ build[z[1]] = probe[z[2]]
      BY <1>4 DEF Joins, Pairs
    <3> QED
      BY <3>1 DEF Matches
  <2>3. \A x, y \in same : f[x] = f[y] => x = y
    BY <1>3, <1>4
  <2>4. ASSUME NEW p \in M PROVE \E x \in same : f[x] = p
    <3> DEFINE x == <<bp[1], p>>
    <3>1. x \in Joins
      BY <1>2 DEF Joins, Pairs, Matches
    <3>2. Answer(x) = Answer(bp)
      BY <1>6 DEF Answer
    <3> QED
      BY <3>1, <3>2
  <2>5. f \in [same -> M]
    BY <2>2
  <2> HIDE DEF same, M, f
  <2>6. Cardinality(same) = Cardinality(M)
    BY <2>1, <2>3, <2>4, <2>5, SameCount
  <2> QED
    BY <1>1, <1>6, <2>6 DEF M, same
<1> QED
  BY <1>5, <1>6

LEMMA MatchesFinite ==
  ASSUME Relations, NEW b, NEW p \in Matches(b)
  PROVE  Cardinality(Matches(b)) \in Nat /\ 1 <= Cardinality(Matches(b))
<1>1. DOMAIN probe = 1 .. Len(probe) /\ Len(probe) \in Int /\ 1 \in Int
  BY DEF Relations
<1>2. IsFiniteSet(DOMAIN probe)
  BY <1>1, FS_Interval
<1>3. IsFiniteSet(Matches(b))
  BY <1>2, FS_Subset DEF Matches
<1>4. Matches(b) # {}
  OBVIOUS
<1>5. Cardinality(Matches(b)) \in Nat /\ Cardinality(Matches(b)) # 0
  BY <1>3, <1>4, FS_CardinalityType, FS_EmptySet
<1> QED
  BY <1>5

(* However many threads share however many partitions, whatever the hash, and
   however the threads interleave: they lose no pair of a hot key or of the key
   of the index, they join none twice, and no result mixes keys
   (skew_aware_join.hpp:252-319). *)
THEOREM PairsJoinedOnce == Spec => []JoinedOnce
<1>1. IInv => JoinedOnce
  <2> SUFFICES ASSUME IInv, pc = "join", SkewDone
               PROVE  JoinedOnce
    BY DEF JoinedOnce
  <2>1. Relations /\ Indexed /\ Detected /\ ThreadsOK
    BY DEF IInv, ExecutorOK
  <2>2. hot = HotKeys /\ index = ArtIndex(build) /\ SkewJoinResult = FullJoin
    BY <2>1, ThreadsDone DEF Detected, Indexed
  <2>3. ASSUME NEW b \in DOMAIN build
        PROVE  /\ index # << >> /\ index[1] = build[Len(build)]
               /\ index[2] \in DOMAIN build /\ build[index[2]] = index[1]
    <3>1. build \in Seq(Keys) /\ build # << >>
      BY <2>1 DEF Relations
    <3> QED
      BY <2>2, <3>1, ArtIndexIs
  <2>4. ASSUME NEW r \in DOMAIN FullJoin
        PROVE  OfOneKey(r) /\ Copies(r, FullJoin) <= Cardinality(Matches(r.build))
    <3>1. PICK bp \in Joins : r = Answer(bp)
      BY <2>1, FullJoinType
    <3>2. /\ bp[1] \in DOMAIN build /\ bp[2] \in DOMAIN probe
          /\ build[bp[1]] = probe[bp[2]]
          /\ build[bp[1]] \in HotKeys \cup {build[Len(build)]}
      BY DEF Joins, Pairs
    <3>3. r.build = bp[1] /\ bp[2] \in Matches(bp[1])
      BY <3>1, <3>2, AnswerBuild DEF Matches
    <3>4. Copies(r, FullJoin) <= Cardinality(Matches(r.build))
      BY <2>1, <3>1, <3>3, CopiesAre, MatchesFinite DEF Copies
    <3>5. CASE build[bp[1]] \in HotKeys
      <4>1. r.right = <<"probe", bp[2]>>
        BY <3>1, <3>5 DEF Answer, HotResult
      <4> QED
        BY <3>2, <3>3, <3>4, <4>1 DEF OfOneKey
    <3>6. CASE build[bp[1]] \notin HotKeys
      <4>1. r.right = <<"index", index[2]>>
        BY <2>2, <3>1, <3>6 DEF Answer
      <4>2. index[2] \in DOMAIN build /\ build[index[2]] = build[bp[1]]
        BY <2>3, <3>2, <3>6
      <4> QED
        BY <3>3, <3>4, <4>1, <4>2 DEF OfOneKey
    <3> QED
      BY <3>5, <3>6
  <2>5. ASSUME NEW b \in DOMAIN build, NEW p \in Matches(b)
        PROVE  IF build[b] \in HotKeys
               THEN Copies(HotResult(b, p), FullJoin) = 1
               ELSE ArtHas(build[b]) =>
                      Copies(IndexResult(b, p), FullJoin) = Cardinality(Matches(b))
    <3> DEFINE bp == <<b, p>>
    <3>1. CASE build[b] \in HotKeys \/ ArtHas(build[b])
      <4>1. bp \in Joins
        BY <2>3, <3>1 DEF Joins, Pairs, Matches, ArtHas
      <4>2. Answer(bp) = IF build[b] \in HotKeys THEN HotResult(b, p) ELSE IndexResult(b, p)
        BY <2>2 DEF Answer, IndexResult
      <4>3. Answer(bp) \in DOMAIN FullJoin
        BY <2>1, <4>1, FullJoinType
      <4>4. FullJoin[Answer(bp)] = IF build[b] \in HotKeys THEN 1 ELSE Cardinality(Matches(b))
        BY <2>1, <4>1, CopiesAre
      <4> QED
        BY <4>2, <4>3, <4>4 DEF Copies
    <3> QED
      BY <3>1
  <2> QED
    BY <2>2, <2>4, <2>5 DEF JoinedOnce
<1> QED
  BY <1>1, AlwaysIInv, PTL

\* Three sequences of one element, one after the other.
LEMMA ThreeRows ==
  ASSUME NEW S, NEW s \in Seq(S), NEW t \in Seq(S), NEW u \in Seq(S),
         Len(s) = 1, Len(t) = 1, Len(u) = 1
  PROVE  /\ DOMAIN (s \o t \o u) = 1 .. 3
         /\ (s \o t \o u)[1] = s[1]
         /\ (s \o t \o u)[2] = t[1]
         /\ (s \o t \o u)[3] = u[1]
<1> DEFINE st == s \o t
<1>1. st \in Seq(S) /\ Len(st) = 2 /\ st[1] = s[1] /\ st[2] = t[1]
  <2>1. /\ st \in Seq(S) /\ Len(st) = Len(s) + Len(t)
        /\ \A i \in 1 .. Len(s) + Len(t) :
               st[i] = IF i <= Len(s) THEN s[i] ELSE t[i - Len(s)]
    BY ConcatProperties
  <2> HIDE DEF st
  <2> QED
    BY <2>1
<1> HIDE DEF st
<1>2. /\ st \o u \in Seq(S) /\ Len(st \o u) = 3
      /\ (st \o u)[1] = st[1] /\ (st \o u)[2] = st[2] /\ (st \o u)[3] = u[1]
  BY <1>1, ConcatProperties
<1>3. DOMAIN (st \o u) = 1 .. 3
  BY <1>2
<1> QED
  BY <1>1, <1>2, <1>3 DEF st

LEMMA PrintedRows ==
  ASSUME IInv, printed # << >>, NEW i \in DOMAIN printed
  PROVE  /\ printed[i].row.operations = IF printed[i].row.bench = "skew" THEN FullCount
                                        ELSE Len(build)
         /\ printed[i].row.bench = "skew" => config.skewAware
<1> DEFINE B == [bench |-> "baseline", operations |-> Len(build)]
           A == [bench |-> "art", operations |-> Len(build)]
           K == [bench |-> "skew", operations |-> FullCount]
<1>1. printed = Labelled(SkewRows)
  BY DEF IInv, RowsOK
<1>2. /\ DOMAIN printed = DOMAIN SkewRows
      /\ printed[i].row = SkewRows[i]
  BY <1>1 DEF Labelled
<1>3. SkewRows = (IF config.baseline THEN <<B>> ELSE << >>) \o
                 (IF config.concurrent THEN <<A>> ELSE << >>) \o
                 (IF config.skewAware THEN <<K>> ELSE << >>)
  BY DEF SkewRows, ArtRows, BaselineRows, RowIf
<1>4. /\ config.baseline \in BOOLEAN /\ config.concurrent \in BOOLEAN
      /\ config.skewAware \in BOOLEAN
  BY DEF IInv, ConfigOK
<1>5. CASE config.baseline /\ config.concurrent /\ config.skewAware
  <2>1. /\ DOMAIN SkewRows = 1 .. 3
        /\ SkewRows[1] = B /\ SkewRows[2] = A /\ SkewRows[3] = K
    <3> DEFINE rows == {B, A, K}
               b == <<B>>
               a == <<A>>
               k == <<K>>
    <3> HIDE DEF A, B, K
    <3>1. SkewRows = b \o a \o k
      BY <1>3, <1>5
    <3>2. /\ b \in Seq(rows) /\ Len(b) = 1 /\ b[1] = B
          /\ a \in Seq(rows) /\ Len(a) = 1 /\ a[1] = A
          /\ k \in Seq(rows) /\ Len(k) = 1 /\ k[1] = K
      OBVIOUS
    <3> HIDE DEF rows, b, a, k
    <3>3. /\ DOMAIN (b \o a \o k) = 1 .. 3
          /\ (b \o a \o k)[1] = b[1]
          /\ (b \o a \o k)[2] = a[1]
          /\ (b \o a \o k)[3] = k[1]
      BY <3>2, ThreeRows
    <3> QED
      BY <3>1, <3>2, <3>3
  <2>2. i \in {1, 2, 3}
    BY <1>2, <2>1
  <2> QED
    BY <1>2, <1>5, <2>1, <2>2
<1>6. CASE config.baseline /\ ~ config.concurrent /\ ~ config.skewAware
  <2>1. SkewRows = <<B>>
    <3> HIDE DEF A, B, K
    <3> QED
      BY <1>3, <1>6
  <2>2. i = 1 /\ SkewRows[1] = B
    <3> HIDE DEF A, B, K
    <3> QED
      BY <1>2, <2>1
  <2> QED
    BY <1>2, <1>6, <2>2
<1>7. CASE ~ config.baseline /\ config.concurrent /\ ~ config.skewAware
  <2>1. SkewRows = <<A>>
    <3> HIDE DEF A, B, K
    <3> QED
      BY <1>3, <1>7
  <2>2. i = 1 /\ SkewRows[1] = A
    <3> HIDE DEF A, B, K
    <3> QED
      BY <1>2, <2>1
  <2> QED
    BY <1>2, <1>7, <2>2
<1>8. CASE ~ config.baseline /\ ~ config.concurrent /\ config.skewAware
  <2>1. SkewRows = <<K>>
    <3> HIDE DEF A, B, K
    <3> QED
      BY <1>3, <1>8
  <2>2. i = 1 /\ SkewRows[1] = K
    <3> HIDE DEF A, B, K
    <3> QED
      BY <1>2, <2>1
  <2> QED
    BY <1>2, <1>8, <2>2
<1>9. CASE ~ config.baseline /\ ~ config.concurrent /\ ~ config.skewAware
  <2>1. SkewRows = << >>
    <3> HIDE DEF A, B, K
    <3> QED
      BY <1>3, <1>9
  <2> QED
    BY <1>2, <2>1
<1> QED
  BY <1>4, <1>5, <1>6, <1>7, <1>8, <1>9 DEF IInv, ConfigOK

(* A row of the table shows what one iteration does, so no iteration leaves
   anything to the next (skew_aware_join.hpp:335). *)
THEOREM RowsShowIterations == Spec => []ReportTrue
<1>1. IInv => ReportTrue
  <2> SUFFICES ASSUME IInv, NEW i \in DOMAIN printed
               PROVE  printed[i].row.operations = IF printed[i].row.bench = "skew"
                                                  THEN NumResults(ExpectedJoin)
                                                  ELSE Len(build)
    BY DEF ReportTrue
  <2>1. printed # << >>
    OBVIOUS
  <2>2. printed[i].row.bench = "skew" => ExpectedJoin = FullJoin
    <3>1. SUFFICES ASSUME printed[i].row.bench = "skew" PROVE ExpectedJoin = FullJoin
      OBVIOUS
    <3>2. pc = "end" /\ config.skewAware
      BY <2>1, <3>1, PrintedRows DEF IInv, RowsOK
    <3> QED
      BY <2>1, <3>2, ExpectedIsFull DEF IInv, ExecutorOK
  <2> QED
    BY <2>1, <2>2, PrintedRows DEF FullCount
<1> QED
  BY <1>1, AlwaysIInv, PTL

(* Any number of threads finds what one thread finds, which is what the hash
   join finds with the first tuple of each key (baseline_join.hpp:73). *)
THEOREM BaselinesAgree == Spec => []BaselineJoinsAgree
<1>1. IInv => BaselineJoinsAgree
  <2> SUFFICES ASSUME IInv PROVE BaselineJoinsAgree
    OBVIOUS
  <2>1. build \in Seq(Keys) /\ probe \in Seq(Keys)
    BY DEF IInv, Relations
  <2>2. ASSUME NEW n \in Workers
        PROVE  ExecuteJoinParallel(LockedIndex(build), probe, n + 1)
                 = ExecuteJoin(LockedIndex(build), probe)
    <3>1. n + 1 \in Nat \ {0}
      BY WorkerNumbers
    <3> QED
      BY <2>1, <3>1, ParallelIsOne
  <2> QED
    BY <2>1, <2>2, OneIsHash DEF BaselineJoinsAgree
<1> QED
  BY <1>1, AlwaysIInv, PTL
=============================================================================
