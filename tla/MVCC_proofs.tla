----------------------------- MODULE MVCC_proofs -----------------------------
(***************************************************************************)
(* Proofs about MVCC for any threads, keys, tids, relation and bounds.     *)
(* Base, the first inductive invariant, ties every chain to the history of *)
(* its key: who holds the key's mutex, which place each version has, what  *)
(* a writer has copied.  Stamps, the second, says when each version was    *)
(* expired; Safe, the third, what the collector's timestamp is worth.      *)
(* KeysHeld says that a mutex is held by a writer that goes on.            *)
(***************************************************************************)
EXTENDS MVCC, WellFoundedInduction, TLAPS

(* A set of natural numbers has a smallest one. *)
LEMMA Smallest ==
  ASSUME NEW S \in SUBSET Nat, S # {}
  PROVE  \E x \in S : \A y \in S : x <= y
<1>1. PICK x \in S : \A y \in S : ~ (<<y, x>> \in OpToRel(<, Nat))
  BY NatLessThanWellFounded, WFMin
<1>2. ASSUME NEW y \in S PROVE x <= y
  <2>1. ~ (y < x)
    BY <1>1 DEF OpToRel
  <2>2. QED
    BY <2>1
<1>3. QED
  BY <1>2

(* So has a bounded one a largest one. *)
LEMMA Largest ==
  ASSUME NEW S \in SUBSET Nat, S # {}, NEW n \in Nat, \A x \in S : x <= n
  PROVE  \E x \in S : \A y \in S : y <= x
<1> DEFINE T == {n - x : x \in S}
<1>1. T \in SUBSET Nat /\ T # {}
  <2>1. \A x \in S : x \in Nat /\ n - x \in Nat
    OBVIOUS
  <2>2. QED
    BY <2>1
<1>2. PICK t \in T : \A u \in T : t <= u
  <2> HIDE DEF T
  <2>1. QED
    BY <1>1, Smallest
<1>3. PICK x \in S : t = n - x
  OBVIOUS
<1>4. ASSUME NEW y \in S PROVE y <= x
  <2>1. n - x <= n - y
    BY <1>2, <1>3
  <2>2. x \in Nat /\ y \in Nat
    OBVIOUS
  <2>3. QED
    BY <2>1, <2>2
<1>5. QED
  BY <1>4

-----------------------------------------------------------------------------
(* The first layer. *)

(* Each kind of thread keeps to its own program, and nobody calls the index
   before bulk_load has returned. *)
PcOK ==
    /\ \A p \in Probers : pc[p] \in {"idle", "register", "walk", "unregister"}
    /\ \A w \in Writers : pc[w] \in {"idle", "lock", "copy", "expire", "install"}
    /\ pc[Collector] \in {"sleep", "prune", "done"}
    /\ pc[Main] \in {"load", "use", "join", "done"}
    /\ pc[Main] = "load" =>
          /\ clock = 0 /\ active = {} /\ covered = {}
          /\ \A t \in Probers \cup Writers : pc[t] = "idle"

(* The writer between LockKey and its return holds the mutex of its key. *)
LockOK ==
    \A w \in Writers :
        pc[w] \in {"copy", "expire", "install"} => keyLock[write[w].op.key] = w

(* An installed write: its stamp, and the tids of its key after it. *)
Stamped == [ts : Timestamps, tids : SUBSET TIDs]

(* The chain c is part of the history h: its versions record installed writes,
   each one at most once, and the last one certainly. *)
Records(c, h) ==
    /\ \A v \in c : v.pos \in 1 .. Len(h) /\ h[v.pos] = [ts |-> v.commit, tids |-> v.tids]
    /\ h # <<>> => \E v \in c : v.pos = Len(h)
    /\ \A u, v \in c : u.pos = v.pos => u = v

ChainOK == \A k \in Keys : Records(chains[k], log[k])

(* The tids of a key after its last installed write. *)
Last(h) == IF h = <<>> THEN {} ELSE h[Len(h)].tids

(* What a writer has copied is still what its key holds. *)
FreshOK ==
    \A w \in Writers :
        pc[w] \in {"expire", "install"} =>
            write[w].tids = Update(Last(log[write[w].op.key]), write[w].op)

Base == TypeOK /\ PcOK /\ LockOK /\ ChainOK /\ FreshOK

-----------------------------------------------------------------------------
(* Chains. *)

(* A chain with a version at a highest place has a head. *)
LEMMA NewestExists ==
  ASSUME NEW c, NEW v \in c, \A u \in c : u.pos <= v.pos
  PROVE  Newest(c) \in c /\ \A u \in c : u.pos <= Newest(c).pos
<1>1. \E x \in c : \A u \in c : u.pos <= x.pos
  OBVIOUS
<1>2. QED
  BY <1>1 DEF Newest

(* The head of a chain records the last installed write. *)
LEMMA NewestFact ==
  ASSUME NEW c \in SUBSET Version, NEW h \in Seq(Stamped), Records(c, h), c # {}
  PROVE  /\ Newest(c) \in c
         /\ Newest(c).pos = Len(h)
         /\ h # <<>>
         /\ h[Len(h)] = [ts |-> Newest(c).commit, tids |-> Newest(c).tids]
         /\ \A v \in c : v.pos = Len(h) => v = Newest(c)
<1>0. Len(h) \in Nat /\ \A x \in c : x.pos \in 1 .. Len(h)
  <2>1. \A x \in c : x.pos \in 1 .. Len(h)
    BY Zenon DEF Records
  <2>2. QED
    BY <2>1
<1>1. PICK u \in c : TRUE
  OBVIOUS
<1>2. u.pos \in 1 .. Len(h)
  BY <1>0
<1>3. h # <<>>
  BY <1>2
<1>4. PICK v \in c : v.pos = Len(h)
  BY <1>3, Zenon DEF Records
<1>5. \A x \in c : x.pos \in Nat /\ x.pos <= v.pos
  BY <1>0, <1>4
<1>6. Newest(c) \in c /\ \A x \in c : x.pos <= Newest(c).pos
  BY <1>4, <1>5, NewestExists
<1>7. Newest(c).pos = Len(h)
  BY <1>4, <1>5, <1>6
<1>8. QED
  BY <1>3, <1>6, <1>7 DEF Records

(* No other version does. *)
LEMMA OlderThanNewest ==
  ASSUME NEW c \in SUBSET Version, NEW h \in Seq(Stamped), Records(c, h),
         NEW v \in c, v # Newest(c)
  PROVE  v.pos # Len(h)
<1>1. \A u \in c : u.pos = Len(h) => u = Newest(c)
  BY NewestFact
<1>2. QED
  BY <1>1

(* A walk stops at a version of the chain. *)
LEMMA NewestVisible ==
  ASSUME NEW c \in SUBSET Version, NEW h \in Seq(Stamped), Records(c, h),
         NEW d \in SUBSET c, d # {}
  PROVE  Newest(d) \in d /\ \A v \in d : v.pos <= Newest(d).pos
<1> DEFINE S == {v.pos : v \in d}
<1>1. Len(h) \in Nat /\ \A v \in d : v.pos \in Nat /\ v.pos <= Len(h)
  <2>1. \A x \in c : x.pos \in 1 .. Len(h)
    BY Zenon DEF Records
  <2>2. QED
    BY <2>1
<1>2. PICK x \in S : \A y \in S : y <= x
  <2>1. S \in SUBSET Nat /\ S # {} /\ \A x \in S : x <= Len(h)
    BY <1>1
  <2> HIDE DEF S
  <2>2. QED
    BY <1>1, <2>1, Largest
<1>3. PICK v \in d : v.pos = x
  OBVIOUS
<1>4. \A u \in d : u.pos <= v.pos
  BY <1>2, <1>3
<1>5. QED
  BY <1>3, <1>4, NewestExists

(* A walk returns tids. *)
LEMMA WalkType ==
  ASSUME NEW c \in SUBSET Version, NEW h \in Seq(Stamped), Records(c, h), NEW ts
  PROVE  Walk(c, ts) \in SUBSET TIDs
<1>1. Visible(c, ts) \in SUBSET c
  BY DEF Visible
<1>2. CASE Visible(c, ts) = {}
  BY <1>2 DEF Walk
<1>3. CASE Visible(c, ts) # {}
  <2>1. Newest(Visible(c, ts)) \in c
    BY <1>1, <1>3, NewestVisible
  <2>2. QED
    BY <1>3, <2>1 DEF Walk, Version
<1>4. QED
  BY <1>2, <1>3

(* What Expire makes of a version v of a chain with head n. *)
Expired(v, n, ts) == IF v = n THEN [v EXCEPT !.delete = ts] ELSE v

(* Expiring the head leaves the places and the contents of the versions alone. *)
LEMMA RecordsExpired ==
  ASSUME NEW c \in SUBSET Version, NEW h \in Seq(Stamped), Records(c, h),
         NEW n, NEW ts \in Timestamps
  PROVE  /\ {Expired(v, n, ts) : v \in c} \in SUBSET Version
         /\ Records({Expired(v, n, ts) : v \in c}, h)
<1> DEFINE d == {Expired(v, n, ts) : v \in c}
<1>1. \A v \in c : /\ Expired(v, n, ts) \in Version
                   /\ Expired(v, n, ts).pos = v.pos
                   /\ Expired(v, n, ts).commit = v.commit
                   /\ Expired(v, n, ts).tids = v.tids
  BY DEF Version, Expired
<1>2. \A u \in d : \E v \in c : u = Expired(v, n, ts)
  OBVIOUS
<1>3. \A v \in c : Expired(v, n, ts) \in d
  OBVIOUS
<1> HIDE DEF d
<1>4. d \in SUBSET Version
  BY <1>1, <1>2
<1>5. ASSUME NEW u \in d
      PROVE  u.pos \in 1 .. Len(h) /\ h[u.pos] = [ts |-> u.commit, tids |-> u.tids]
  <2>1. PICK v \in c : u = Expired(v, n, ts)
    BY <1>2
  <2>2. u.pos = v.pos /\ u.commit = v.commit /\ u.tids = v.tids
    BY <1>1, <2>1
  <2>3. v.pos \in 1 .. Len(h) /\ h[v.pos] = [ts |-> v.commit, tids |-> v.tids]
    BY Zenon DEF Records
  <2>4. QED
    BY <2>2, <2>3, Zenon
<1>6. h # <<>> => \E u \in d : u.pos = Len(h)
  <2>1. ASSUME h # <<>> PROVE \E u \in d : u.pos = Len(h)
    <3>1. PICK v \in c : v.pos = Len(h)
      BY <2>1, Zenon DEF Records
    <3>2. Expired(v, n, ts) \in d /\ Expired(v, n, ts).pos = Len(h)
      BY <1>1, <1>3, <3>1
    <3>3. QED
      BY <3>2
  <2>2. QED
    BY <2>1
<1>7. ASSUME NEW x \in d, NEW y \in d, x.pos = y.pos PROVE x = y
  <2>1. PICK u \in c : x = Expired(u, n, ts)
    BY <1>2
  <2>2. PICK v \in c : y = Expired(v, n, ts)
    BY <1>2
  <2>3. u.pos = v.pos
    BY <1>1, <1>7, <2>1, <2>2
  <2>4. u = v
    BY <2>3, Zenon DEF Records
  <2>5. QED
    BY <2>1, <2>2, <2>4
<1>8. d \in SUBSET Version /\ Records(d, h)
  BY <1>4, <1>5, <1>6, <1>7, Zenon DEF Records
<1>9. QED
  BY <1>8 DEF d

(* A new head is recorded together with the write that made it. *)
LEMMA RecordsExtended ==
  ASSUME NEW c \in SUBSET Version, NEW h \in Seq(Stamped), Records(c, h),
         NEW v \in Version, v.pos = Len(h) + 1
  PROVE  /\ Append(h, [ts |-> v.commit, tids |-> v.tids]) \in Seq(Stamped)
         /\ Records(c \cup {v}, Append(h, [ts |-> v.commit, tids |-> v.tids]))
<1> DEFINE e == [ts |-> v.commit, tids |-> v.tids]
           g == Append(h, e)
<1>1. e \in Stamped
  BY DEF Version, Stamped
<1>2. /\ g \in Seq(Stamped) /\ Len(g) = Len(h) + 1 /\ g # <<>> /\ Len(h) \in Nat
      /\ g[Len(h) + 1] = e /\ \A i \in 1 .. Len(h) : g[i] = h[i]
  <2> HIDE DEF e
  <2>1. QED
    BY <1>1
<1>3. \A u \in c : u.pos \in 1 .. Len(h) /\ h[u.pos] = [ts |-> u.commit, tids |-> u.tids]
  BY Zenon DEF Records
<1>4. \A u \in c : u.pos \in 1 .. Len(g) /\ u.pos # Len(g) /\ g[u.pos] = h[u.pos]
  <2> HIDE DEF g, e
  <2>1. \A u \in c : u.pos \in 1 .. Len(h)
    BY <1>3
  <2>2. QED
    BY <1>2, <2>1
<1>5. v.pos \in 1 .. Len(g) /\ v.pos = Len(g) /\ g[v.pos] = e
  <2> HIDE DEF g, e
  <2>1. QED
    BY <1>2
<1>6. \A u \in c \cup {v} : u.pos \in 1 .. Len(g) /\ g[u.pos] = [ts |-> u.commit, tids |-> u.tids]
  <2>1. \A u \in c : u.pos \in 1 .. Len(g) /\ g[u.pos] = [ts |-> u.commit, tids |-> u.tids]
    <3> HIDE DEF g
    <3>1. QED
      BY <1>3, <1>4, Zenon
  <2>2. v.pos \in 1 .. Len(g) /\ g[v.pos] = [ts |-> v.commit, tids |-> v.tids]
    BY <1>5
  <2> HIDE DEF g
  <2>3. QED
    BY <2>1, <2>2, Zenon
<1>7. \A x, y \in c \cup {v} : x.pos = y.pos => x = y
  <2> HIDE DEF g, e
  <2>1. \A x, y \in c : x.pos = y.pos => x = y
    BY Zenon DEF Records
  <2>2. \A x \in c : x.pos # v.pos
    BY <1>4, <1>5
  <2>3. QED
    BY <2>1, <2>2, Zenon
<1>8. \E u \in c \cup {v} : u.pos = Len(g)
  <2> HIDE DEF g, e
  <2>1. QED
    BY <1>5
<1> HIDE DEF g
<1>9. Records(c \cup {v}, g)
  BY <1>6, <1>7, <1>8, Zenon DEF Records
<1>10. QED
  BY <1>2, <1>9 DEF g

(* Unlinking versions other than the head keeps the rest recorded. *)
LEMMA RecordsPruned ==
  ASSUME NEW c \in SUBSET Version, NEW h \in Seq(Stamped), Records(c, h),
         NEW d \in SUBSET c, c # {} => Newest(c) \in d
  PROVE  Records(d, h)
<1>1. h # <<>> => \E v \in d : v.pos = Len(h)
  <2>1. h # <<>> => c # {}
    BY Zenon DEF Records
  <2>2. QED
    BY <2>1, NewestFact
<1>2. \A v \in d : v.pos \in 1 .. Len(h) /\ h[v.pos] = [ts |-> v.commit, tids |-> v.tids]
  BY Zenon DEF Records
<1>3. \A u, v \in d : u.pos = v.pos => u = v
  BY Zenon DEF Records
<1>4. QED
  BY <1>1, <1>2, <1>3, Zenon DEF Records

-----------------------------------------------------------------------------
(* What the other operators return. *)

(* The kinds of threads are told apart. *)
LEMMA ThreadFacts ==
  /\ Collector \in Threads /\ Main \in Threads /\ Collector # Main
  /\ Collector \notin Probers \cup Writers /\ Main \notin Probers \cup Writers
  /\ Probers \cap Writers = {}
  /\ Probers \subseteq Threads /\ Writers \subseteq Threads
  /\ NoThread \notin Writers
  BY ThreadsAssumption DEF Threads

(* A thread that has not called anything yet has locals of the right type. *)
LEMMA LocalsType ==
  /\ NoWrite \in [op : WriteOp, ts : Timestamps, tids : SUBSET TIDs]
  /\ NoProbe \in [key : Keys, ts : Timestamps, result : SUBSET TIDs]
<1>1. PICK k \in Keys, t \in TIDs : TRUE
  BY DomainAssumption
<1>2. [op |-> "INSERT", key |-> k, tid |-> t] \in WriteOp
  BY DEF WriteOp
<1>3. NoOp \in WriteOp
  BY <1>2 DEF NoOp
<1>4. 0 \in Timestamps
  BY ParametersAssumption DEF Timestamps
<1>5. NoOp.key \in Keys
  BY <1>3 DEF WriteOp
<1>6. QED
  BY <1>3, <1>4, <1>5 DEF NoWrite, NoProbe

(* A write makes tids of tids. *)
LEMMA UpdateType ==
  ASSUME NEW s \in SUBSET TIDs, NEW op \in WriteOp
  PROVE  Update(s, op) \in SUBSET TIDs
  BY DEF Update, WriteOp

(* min_active_read_ts_ is registered, and no registered timestamp is smaller. *)
LEMMA SafeTsFact ==
  ASSUME probe \in [Probers -> [key : Keys, ts : Timestamps, result : SUBSET TIDs]],
         NEW ps \in SUBSET Probers
  PROVE  /\ SafeTs(ps) \in Timestamps \cup {Infinity}
         /\ \A p \in ps : SafeTs(ps) <= probe[p].ts
         /\ ps # {} => \E p \in ps : SafeTs(ps) = probe[p].ts
<1> DEFINE S == {probe[p].ts : p \in ps}
<1>1. \A p \in ps : probe[p].ts \in Timestamps
  OBVIOUS
<1>2. CASE ps = {}
  BY <1>2 DEF SafeTs
<1>3. CASE ps # {}
  <2>1. S \in SUBSET Nat /\ S # {}
    BY <1>1, <1>3 DEF Timestamps
  <2>2. \E x \in S : \A y \in S : x <= y
    <3> HIDE DEF S
    <3>1. QED
      BY <2>1, Smallest
  <2>3. \E x \in S : \A p \in ps : x <= probe[p].ts
    BY <2>2
  <2>4. SafeTs(ps) \in S /\ \A p \in ps : SafeTs(ps) <= probe[p].ts
    BY <1>3, <2>3 DEF SafeTs
  <2>5. QED
    BY <1>1, <1>3, <2>4
<1>4. QED
  BY <1>2, <1>3

-----------------------------------------------------------------------------
(* Every action keeps Base. *)

(* Threads go on in their own programs. *)
LEMMA PcStep ==
  ASSUME Base, [Next]_vars
  PROVE  PcOK'
<1> USE ThreadFacts DEF Base, TypeOK, PcOK, Goto
<1>1. CASE BulkLoad
  BY <1>1 DEF BulkLoad, reading, collecting
<1>2. CASE Wake
  BY <1>2 DEF Wake, reading, writing
<1>3. CASE Prune
  BY <1>3 DEF Prune, reading, writing
<1>4. CASE Destroy \/ Join
  BY <1>4 DEF Destroy, Join
<1>5. ASSUME NEW p \in Probers, Prober(p) PROVE PcOK'
  <2>1. /\ \E to \in {"idle", "register", "walk", "unregister"} : pc' = [pc EXCEPT ![p] = to]
        /\ pc[Main] # "load"
    BY <1>5 DEF Prober, TakeSnapshot, Register, ReadChain, Unregister
  <2>2. QED
    BY <2>1
<1>6. ASSUME NEW w \in Writers, Writer(w) PROVE PcOK'
  <2>1. /\ \E to \in {"idle", "lock", "copy", "expire", "install"} : pc' = [pc EXCEPT ![w] = to]
        /\ pc[Main] # "load"
    BY <1>6 DEF Writer, Stamp, LockKey, CopyNewest, Expire, Install, PutInFront
  <2>2. QED
    BY <2>1
<1>7. CASE UNCHANGED vars
  BY <1>7 DEF vars, reading, writing, collecting
<1>8. QED
  BY <1>1, <1>2, <1>3, <1>4, <1>5, <1>6, <1>7 DEF Next, Terminated

(* Steps that touch neither a writer nor a chain nor the history. *)
Aside ==
    /\ UNCHANGED <<chains, log, writing>>
    /\ \A w \in Writers : pc'[w] = pc[w]

(* Every step is one of those, or one of these. *)
LEMMA StepKinds ==
  ASSUME Base, [Next]_vars
  PROVE  \/ Aside \/ BulkLoad \/ Prune
         \/ \E w \in Writers :
               Stamp(w) \/ LockKey(w) \/ CopyNewest(w) \/ Expire(w) \/ Install(w)
<1> USE ThreadFacts DEF Base, TypeOK, Goto, Aside
<1>1. CASE Wake \/ Destroy \/ Join
  BY <1>1 DEF Wake, Destroy, Join
<1>2. ASSUME NEW p \in Probers, Prober(p) PROVE Aside
  BY <1>2 DEF Prober, TakeSnapshot, Register, ReadChain, Unregister
<1>3. CASE UNCHANGED vars
  BY <1>3 DEF vars
<1>4. QED
  BY <1>1, <1>2, <1>3 DEF Next, Writer, Terminated

(* The copy a writer takes does not change its arguments or its stamp. *)
LEMMA CopiedOp ==
  ASSUME TypeOK, NEW w \in Writers, NEW s, write' = [write EXCEPT ![w].tids = s],
         NEW u \in Writers
  PROVE  write'[u].op = write[u].op /\ write'[u].ts = write[u].ts
  BY DEF TypeOK

(* A key's mutex stays with its holder until the holder returns. *)
LEMMA LockStep ==
  ASSUME Base, [Next]_vars
  PROVE  LockOK'
<1> USE ThreadFacts DEF LockOK, Goto
<1>1. /\ pc = [t \in Threads |-> pc[t]]
      /\ write = [w \in Writers |-> write[w]]
      /\ keyLock = [k \in Keys |-> keyLock[k]]
      /\ \A w \in Writers : write[w].op.key \in Keys
      /\ LockOK
  BY DEF Base, TypeOK, WriteOp
<1>2. CASE Aside
  BY <1>1, <1>2 DEF Aside, writing
<1>3. CASE BulkLoad
  BY <1>1, <1>3 DEF BulkLoad, Base, PcOK
<1>4. CASE Prune
  BY <1>1, <1>4 DEF Prune, writing
<1>5. ASSUME NEW w \in Writers, Stamp(w) PROVE LockOK'
  BY <1>1, <1>5 DEF Stamp
<1>6. ASSUME NEW w \in Writers, LockKey(w) PROVE LockOK'
  BY <1>1, <1>6 DEF LockKey
<1>7. ASSUME NEW w \in Writers, CopyNewest(w) PROVE LockOK'
  <2>1. keyLock' = keyLock /\ pc[w] = "copy" /\ pc' = [pc EXCEPT ![w] = "expire"]
    BY <1>7 DEF CopyNewest
  <2>2. \A u \in Writers : write'[u].op = write[u].op
    <3>1. \E s : write' = [write EXCEPT ![w].tids = s]
      BY <1>7 DEF CopyNewest
    <3>2. QED
      BY <3>1, CopiedOp DEF Base
  <2>3. QED
    BY <1>1, <2>1, <2>2
<1>8. ASSUME NEW w \in Writers, Expire(w) PROVE LockOK'
  BY <1>1, <1>8 DEF Expire, writing
<1>9. ASSUME NEW w \in Writers, Install(w) PROVE LockOK'
  BY <1>1, <1>9 DEF Install, PutInFront
<1>10. QED
  BY <1>2, <1>3, <1>4, <1>5, <1>6, <1>7, <1>8, <1>9, StepKinds

(* Chains and history grow and shrink together. *)
LEMMA ChainStep ==
  ASSUME Base, [Next]_vars
  PROVE  /\ ChainOK'
         /\ chains' \in [Keys -> SUBSET Version]
         /\ log' \in [Keys -> Seq(Stamped)]
<1> USE DEF Goto
<1>1. /\ chains \in [Keys -> SUBSET Version] /\ log \in [Keys -> Seq(Stamped)]
      /\ \A w \in Writers : write[w].op.key \in Keys /\ write[w].ts \in Timestamps
                            /\ write[w].tids \in SUBSET TIDs
      /\ \A k \in Keys : Records(chains[k], log[k])
  BY DEF Base, TypeOK, WriteOp, Stamped, ChainOK
<1>2. CASE UNCHANGED <<chains, log>>
  BY <1>1, <1>2 DEF ChainOK, Records
<1>3. CASE BulkLoad
  <2>1. ASSUME NEW k \in Keys
        PROVE  chains'[k] \in SUBSET Version /\ log'[k] \in Seq(Stamped)
               /\ Records(chains'[k], log'[k])
    <3>1. CASE Loaded(k) = {}
      <4>1. chains'[k] = {} /\ log'[k] = <<>>
        BY <1>3, <3>1 DEF BulkLoad
      <4>2. QED
        BY <4>1 DEF Records
    <3>2. CASE Loaded(k) # {}
      <4> DEFINE v == [pos |-> 1, tids |-> Loaded(k), commit |-> 0, delete |-> Infinity]
                 e == [ts |-> 0, tids |-> Loaded(k)]
      <4>1. chains'[k] = {v} /\ log'[k] = <<e>>
        BY <1>3, <3>2 DEF BulkLoad
      <4>2. v \in Version /\ e \in Stamped
        BY ParametersAssumption DEF Version, Stamped, Timestamps, Infinity, Loaded
      <4>3. /\ v.pos = 1 /\ e = [ts |-> v.commit, tids |-> v.tids]
        OBVIOUS
      <4> HIDE DEF v, e
      <4>4. Len(<<e>>) = 1 /\ <<e>>[1] = e /\ <<e>> \in Seq(Stamped)
        BY <4>2
      <4>5. Records({v}, <<e>>)
        BY <4>3, <4>4 DEF Records
      <4>6. QED
        BY <4>1, <4>2, <4>4, <4>5
    <3>3. QED
      BY <3>1, <3>2
  <2>2. \E f, g : chains' = [k \in Keys |-> f[k]] /\ log' = [k \in Keys |-> g[k]]
    <3>1. chains' = [k \in Keys |-> chains'[k]] /\ log' = [k \in Keys |-> log'[k]]
      BY <1>3, Zenon DEF BulkLoad
    <3>2. QED
      BY <3>1
  <2>3. QED
    BY <2>1, <2>2 DEF ChainOK
<1>4. CASE Prune
  <2>1. /\ log' = log
        /\ chains' = [k \in Keys |-> {v \in chains[k] : v = Newest(chains[k]) \/ v.delete >= safe}]
    BY <1>4 DEF Prune
  <2>2. ASSUME NEW k \in Keys PROVE chains'[k] \in SUBSET Version /\ Records(chains'[k], log'[k])
    <3>1. chains'[k] \in SUBSET chains[k] /\ (chains[k] # {} => Newest(chains[k]) \in chains'[k])
      BY <1>1, <2>1, NewestFact
    <3>2. QED
      BY <1>1, <2>1, <3>1, RecordsPruned
  <2>3. QED
    BY <1>1, <2>1, <2>2 DEF ChainOK
<1>5. ASSUME NEW w \in Writers, Expire(w)
      PROVE  ChainOK' /\ chains' \in [Keys -> SUBSET Version] /\ log' \in [Keys -> Seq(Stamped)]
  <2> DEFINE k == write[w].op.key
             n == Newest(chains[k])
             d == {Expired(v, n, write[w].ts) : v \in chains[k]}
  <2>1. log' = log /\ chains' = [chains EXCEPT ![k] = d]
    BY <1>5 DEF Expire, Expired
  <2>2. k \in Keys /\ write[w].ts \in Timestamps
    BY <1>1
  <2>3. d \in SUBSET Version /\ Records(d, log[k])
    <3>1. chains[k] \in SUBSET Version /\ log[k] \in Seq(Stamped) /\ Records(chains[k], log[k])
      BY <1>1, <2>2
    <3> HIDE DEF k, n
    <3>2. QED
      BY <2>2, <3>1, RecordsExpired
  <2> HIDE DEF d, k
  <2>4. QED
    BY <1>1, <2>1, <2>2, <2>3 DEF ChainOK
<1>6. ASSUME NEW w \in Writers, Install(w)
      PROVE  ChainOK' /\ chains' \in [Keys -> SUBSET Version] /\ log' \in [Keys -> Seq(Stamped)]
  <2> DEFINE k == write[w].op.key
             v == [pos |-> IF chains[k] = {} THEN 1 ELSE Newest(chains[k]).pos + 1,
                   tids |-> write[w].tids, commit |-> write[w].ts, delete |-> Infinity]
             e == [ts |-> write[w].ts, tids |-> Update(Last(log[k]), write[w].op)]
  <2>1. k \in Keys /\ chains[k] \in SUBSET Version /\ log[k] \in Seq(Stamped)
    BY <1>1
  <2>2. log' = [log EXCEPT ![k] = Append(log[k], e)] /\ chains' = [chains EXCEPT ![k] = chains[k] \cup {v}]
    BY <1>1, <2>1, <1>6 DEF Install, PutInFront, Last
  <2>3. v.pos = Len(log[k]) + 1
    <3>1. CASE chains[k] = {}
      <4>1. log[k] = <<>>
        BY <1>1, <2>1, <3>1, Zenon DEF Records
      <4>2. QED
        BY <3>1, <4>1
    <3>2. CASE chains[k] # {}
      <4>1. v.pos = Newest(chains[k]).pos + 1
        BY <3>2
      <4>2. Newest(chains[k]).pos = Len(log[k])
        <5> HIDE DEF k, v
        <5>1. QED
          BY <1>1, <2>1, <3>2, NewestFact
      <4>3. QED
        BY <4>1, <4>2
    <3>3. QED
      BY <3>1, <3>2
  <2>4. e = [ts |-> v.commit, tids |-> v.tids]
    BY <1>6 DEF Base, FreshOK, Install, PutInFront
  <2>5. v \in Version
    <3>1. v.pos \in Nat
      BY <2>1, <2>3
    <3>2. QED
      BY <1>1, <3>1 DEF Version
  <2> HIDE DEF v, e, k
  <2>6. Append(log[k], e) \in Seq(Stamped) /\ Records(chains[k] \cup {v}, Append(log[k], e))
    BY <1>1, <2>1, <2>3, <2>4, <2>5, RecordsExtended
  <2>7. QED
    BY <1>1, <2>1, <2>2, <2>5, <2>6 DEF ChainOK
<1>7. QED
  BY <1>2, <1>3, <1>4, <1>5, <1>6, StepKinds DEF Aside, Stamp, LockKey, CopyNewest

(* Nobody else installs a version of the key while a writer has its mutex. *)
LEMMA FreshStep ==
  ASSUME Base, [Next]_vars
  PROVE  FreshOK'
<1> USE DEF Goto
<1>1. /\ pc = [t \in Threads |-> pc[t]] /\ write = [w \in Writers |-> write[w]]
      /\ chains \in [Keys -> SUBSET Version] /\ log \in [Keys -> Seq(Stamped)]
      /\ \A w \in Writers : write[w].op.key \in Keys
      /\ \A k \in Keys : Records(chains[k], log[k])
      /\ FreshOK /\ Writers \subseteq Threads
  BY ThreadFacts DEF Base, TypeOK, WriteOp, Stamped, ChainOK
<1>2. CASE Aside \/ Prune
  BY <1>1, <1>2 DEF Aside, Prune, writing, FreshOK
<1>3. CASE BulkLoad
  BY <1>1, <1>3, ThreadFacts DEF BulkLoad, Base, PcOK, FreshOK
<1>4. ASSUME NEW w \in Writers, Stamp(w) \/ LockKey(w) PROVE FreshOK'
  <2>1. /\ log' = log
        /\ pc'[w] \in {"lock", "copy"}
        /\ \A u \in Writers \ {w} : pc'[u] = pc[u] /\ write'[u] = write[u]
    BY <1>1, <1>4 DEF Stamp, LockKey
  <2>2. QED
    BY <1>1, <2>1 DEF FreshOK
<1>5. ASSUME NEW w \in Writers, CopyNewest(w) PROVE FreshOK'
  <2> DEFINE k == write[w].op.key
             t == IF chains[k] = {} THEN {} ELSE Newest(chains[k]).tids
             s == Update(t, write[w].op)
  <2>1. /\ log' = log /\ pc' = [pc EXCEPT ![w] = "expire"]
        /\ write' = [write EXCEPT ![w].tids = s]
    BY <1>5 DEF CopyNewest
  <2>2. t = Last(log[k])
    <3>1. k \in Keys /\ chains[k] \in SUBSET Version /\ log[k] \in Seq(Stamped)
          /\ Records(chains[k], log[k])
      BY <1>1
    <3>2. CASE chains[k] = {}
      <4>1. log[k] = <<>>
        BY <3>1, <3>2, Zenon DEF Records
      <4>2. QED
        BY <3>2, <4>1 DEF Last
    <3>3. CASE chains[k] # {}
      <4>1. t = Newest(chains[k]).tids
        BY <3>3
      <4> HIDE DEF k, t
      <4>2. /\ log[k] # <<>>
            /\ log[k][Len(log[k])] = [ts |-> Newest(chains[k]).commit, tids |-> Newest(chains[k]).tids]
        BY <3>1, <3>3, NewestFact
      <4>3. QED
        BY <4>1, <4>2 DEF Last
    <3>4. QED
      BY <3>2, <3>3
  <2>3. write'[w].tids = Update(Last(log'[write'[w].op.key]), write'[w].op)
    <3>1. write'[w].tids = s
      <4> HIDE DEF s
      <4>1. write[w] \in [op : WriteOp, ts : Timestamps, tids : SUBSET TIDs]
        BY DEF Base, TypeOK
      <4>2. QED
        BY <1>1, <2>1, <4>1
    <3>2. write'[w].op = write[w].op
      <4> HIDE DEF s
      <4>1. QED
        BY <2>1, CopiedOp DEF Base
    <3>3. QED
      BY <2>1, <2>2, <3>1, <3>2
  <2>4. \A u \in Writers \ {w} : pc'[u] = pc[u] /\ write'[u] = write[u]
    BY <1>1, <2>1
  <2>5. QED
    BY <1>1, <2>1, <2>3, <2>4 DEF FreshOK
<1>6. ASSUME NEW w \in Writers, Expire(w) PROVE FreshOK'
  BY <1>1, <1>6 DEF Expire, writing, FreshOK
<1>7. ASSUME NEW w \in Writers, Install(w) PROVE FreshOK'
  <2>1. /\ pc[w] = "install" /\ pc' = [pc EXCEPT ![w] = "idle"]
        /\ \A u \in Writers \ {w} : write'[u] = write[u]
        /\ \A k \in Keys : k # write[w].op.key => log'[k] = log[k]
    BY <1>1, <1>7 DEF Install, PutInFront
  <2>2. \A u \in Writers \ {w} :
            pc[u] \in {"expire", "install"} => write[u].op.key # write[w].op.key
    BY <2>1 DEF Base, LockOK
  <2>3. ASSUME NEW u \in Writers, pc'[u] \in {"expire", "install"}
        PROVE  write'[u].tids = Update(Last(log'[write'[u].op.key]), write'[u].op)
    <3>1. u # w /\ pc[u] \in {"expire", "install"}
      BY <1>1, <2>1, <2>3
    <3>2. write'[u] = write[u] /\ log'[write[u].op.key] = log[write[u].op.key]
      BY <1>1, <2>1, <2>2, <3>1
    <3>3. write[u].tids = Update(Last(log[write[u].op.key]), write[u].op)
      BY <3>1 DEF Base, FreshOK
    <3>4. QED
      BY <3>2, <3>3
  <2>4. QED
    BY <2>3 DEF FreshOK, Last
<1>8. QED
  BY <1>2, <1>3, <1>4, <1>5, <1>6, <1>7, StepKinds

(* The stamps stay within their bound because writers stop at it; positions
   and contents of versions are those of the history. *)
LEMMA TypeStep ==
  ASSUME Base, [Next]_vars
  PROVE  TypeOK'
<1>1. /\ chains' \in [Keys -> SUBSET Version]
      /\ log' \in [Keys -> Seq([ts : Timestamps, tids : SUBSET TIDs])]
  BY ChainStep DEF Stamped
<1> USE ThreadFacts DEF Base, Goto
<1>2. CASE BulkLoad
  <2>1. clock' = 0 /\ 0 \in Timestamps
    BY <1>2, ParametersAssumption DEF BulkLoad, Timestamps
  <2>2. /\ pc' = [pc EXCEPT ![Main] = "use"]
        /\ UNCHANGED <<active, todo, probe, keyLock, write, safe, covered, stop>>
    BY <1>2 DEF BulkLoad, reading, collecting
  <2>3. QED
    BY <1>1, <2>1, <2>2 DEF TypeOK
<1>3. CASE Wake
  <2>1. SafeTs(active) \in Timestamps \cup {Infinity}
    BY SafeTsFact DEF TypeOK
  <2>2. QED
    BY <1>1, <1>3, <2>1 DEF Wake, TypeOK, reading, writing
<1>4. CASE Prune
  <2>1. 0 \in Timestamps
    BY ParametersAssumption DEF Timestamps
  <2>2. QED
    BY <1>1, <1>4, <2>1 DEF Prune, TypeOK, reading, writing
<1>5. CASE Destroy \/ Join
  BY <1>1, <1>5 DEF Destroy, Join, TypeOK, reading, writing, collecting
<1>6. ASSUME NEW p \in Probers, TakeSnapshot(p) PROVE TypeOK'
  <2>1. todo' \in [Probers -> 0 .. MaxProbes]
    <3>1. todo[p] - 1 \in 0 .. MaxProbes
      BY <1>6, ParametersAssumption DEF TakeSnapshot, TypeOK
    <3>2. QED
      BY <1>6, <3>1 DEF TakeSnapshot, TypeOK
  <2>2. PICK k \in Keys : probe' = [probe EXCEPT ![p] = [NoProbe EXCEPT !.key = k, !.ts = clock]]
    BY <1>6 DEF TakeSnapshot
  <2>3. probe' \in [Probers -> [key : Keys, ts : Timestamps, result : SUBSET TIDs]]
    BY <2>2, LocalsType DEF TypeOK
  <2>4. pc' = [pc EXCEPT ![p] = "register"] /\ UNCHANGED <<active, writing, collecting, stop>>
    BY <1>6 DEF TakeSnapshot
  <2>5. QED
    BY <1>1, <2>1, <2>3, <2>4 DEF TypeOK, writing, collecting
<1>7. ASSUME NEW p \in Probers, Register(p) PROVE TypeOK'
  BY <1>1, <1>7 DEF Register, TypeOK, writing, collecting
<1>8. ASSUME NEW p \in Probers, ReadChain(p) PROVE TypeOK'
  <2>1. Walk(chains[probe[p].key], probe[p].ts) \in SUBSET TIDs
    BY WalkType DEF TypeOK, ChainOK, Stamped
  <2>2. QED
    <3> DEFINE s == Walk(chains[probe[p].key], probe[p].ts)
    <3>1. /\ pc' = [pc EXCEPT ![p] = "unregister"] /\ probe' = [probe EXCEPT ![p].result = s]
          /\ UNCHANGED <<active, todo, clock, keyLock, write, safe, covered, stop>>
      BY <1>8 DEF ReadChain, writing, collecting
    <3>2. s \in SUBSET TIDs
      BY <2>1
    <3> HIDE DEF s
    <3>3. probe' \in [Probers -> [key : Keys, ts : Timestamps, result : SUBSET TIDs]]
      <4>1. probe \in [Probers -> [key : Keys, ts : Timestamps, result : SUBSET TIDs]]
        BY DEF TypeOK
      <4>2. QED
        BY <3>1, <3>2, <4>1
    <3>4. pc' \in [Threads -> {"load", "use", "join", "done", "sleep", "prune", "idle",
                              "register", "walk", "unregister",
                              "lock", "copy", "expire", "install"}]
      BY <3>1 DEF TypeOK
    <3>5. QED
      BY <1>1, <3>1, <3>3, <3>4 DEF TypeOK
<1>9. ASSUME NEW p \in Probers, Unregister(p) PROVE TypeOK'
  BY <1>1, <1>9, LocalsType DEF Unregister, TypeOK, writing, collecting
<1>10. ASSUME NEW w \in Writers, Stamp(w) PROVE TypeOK'
  <2>1. clock' \in Timestamps
    BY <1>10, ParametersAssumption DEF Stamp, TypeOK, Timestamps
  <2>2. PICK op \in WriteOp : write' = [write EXCEPT ![w] = [NoWrite EXCEPT !.op = op, !.ts = clock']]
    BY <1>10 DEF Stamp
  <2>3. write' \in [Writers -> [op : WriteOp, ts : Timestamps, tids : SUBSET TIDs]]
    BY <2>1, <2>2, LocalsType DEF TypeOK
  <2>4. pc' = [pc EXCEPT ![w] = "lock"] /\ UNCHANGED <<reading, keyLock, collecting, stop>>
    BY <1>10 DEF Stamp
  <2>5. QED
    BY <1>1, <2>1, <2>3, <2>4 DEF TypeOK, reading, collecting
<1>11. ASSUME NEW w \in Writers, LockKey(w) PROVE TypeOK'
  BY <1>1, <1>11 DEF LockKey, TypeOK, reading, collecting
<1>12. ASSUME NEW w \in Writers, CopyNewest(w) PROVE TypeOK'
  <2> DEFINE k == write[w].op.key
             t == IF chains[k] = {} THEN {} ELSE Newest(chains[k]).tids
             s == Update(t, write[w].op)
  <2>1. t \in SUBSET TIDs
    <3>1. k \in Keys /\ chains[k] \in SUBSET Version /\ log[k] \in Seq(Stamped)
          /\ Records(chains[k], log[k])
      BY DEF TypeOK, ChainOK, Stamped, WriteOp
    <3> HIDE DEF k
    <3>2. chains[k] # {} => Newest(chains[k]) \in chains[k]
      BY <3>1, NewestFact
    <3>3. QED
      BY <3>1, <3>2 DEF Version
  <2>2. s \in SUBSET TIDs
    <3> HIDE DEF t
    <3>1. QED
      BY <2>1, UpdateType DEF TypeOK
  <2>3. /\ pc' = [pc EXCEPT ![w] = "expire"] /\ write' = [write EXCEPT ![w].tids = s]
        /\ UNCHANGED <<reading, clock, keyLock, collecting, stop>>
    BY <1>12 DEF CopyNewest
  <2> HIDE DEF s
  <2>4. write' \in [Writers -> [op : WriteOp, ts : Timestamps, tids : SUBSET TIDs]]
    <3>1. write \in [Writers -> [op : WriteOp, ts : Timestamps, tids : SUBSET TIDs]]
      BY DEF TypeOK
    <3>2. [write[w] EXCEPT !.tids = s] \in [op : WriteOp, ts : Timestamps, tids : SUBSET TIDs]
      BY <2>2, <3>1
    <3>3. write' = [write EXCEPT ![w] = [write[w] EXCEPT !.tids = s]]
      BY <2>3
    <3>4. QED
      BY <3>1, <3>2, <3>3
  <2>5. pc' = [pc EXCEPT ![w] = "expire"] /\ UNCHANGED <<reading, clock, keyLock, collecting, stop>>
    BY <2>3
  <2>6. QED
    BY <1>1, <2>4, <2>5 DEF TypeOK, reading, collecting
<1>13. ASSUME NEW w \in Writers, Expire(w) PROVE TypeOK'
  BY <1>1, <1>13 DEF Expire, TypeOK, reading, writing, collecting
<1>14. ASSUME NEW w \in Writers, Install(w) PROVE TypeOK'
  BY <1>1, <1>14, LocalsType DEF Install, PutInFront, TypeOK, reading, collecting
<1>15. CASE UNCHANGED vars
  BY <1>1, <1>15 DEF vars, TypeOK, reading, writing, collecting
<1>16. QED
  BY <1>2, <1>3, <1>4, <1>5, <1>6, <1>7, <1>8, <1>9, <1>10, <1>11, <1>12, <1>13, <1>14, <1>15
     DEF Next, Prober, Writer, Terminated

(* The constructor establishes Base. *)
LEMMA BaseInit == Init => Base
<1> SUFFICES ASSUME Init PROVE Base
  OBVIOUS
<1> USE ThreadFacts DEF Init
<1>1. /\ 0 \in Timestamps /\ MaxProbes \in 0 .. MaxProbes
      /\ <<>> \in Seq([ts : Timestamps, tids : SUBSET TIDs])
  BY ParametersAssumption DEF Timestamps
<1>2. TypeOK
  BY <1>1, LocalsType DEF TypeOK
<1>3. PcOK
  BY DEF PcOK
<1>4. LockOK /\ FreshOK
  BY DEF LockOK, FreshOK
<1>5. ChainOK
  BY DEF ChainOK, Records
<1>6. QED
  BY <1>2, <1>3, <1>4, <1>5 DEF Base

(* Base holds throughout. *)
LEMMA BaseInvariant == Spec => []Base
<1>1. Base /\ [Next]_vars => Base'
  BY TypeStep, PcStep, LockStep, ChainStep, FreshStep DEF Base
<1>2. QED
  BY BaseInit, <1>1, PTL DEF Spec

(***************************************************************************)
(* Every variable keeps its type; clock and stamps stay within the bound.  *)
(***************************************************************************)
THEOREM TypeCorrect == Spec => []TypeOK
<1>1. Base => TypeOK
  BY DEF Base
<1>2. QED
  BY BaseInvariant, <1>1, PTL

(* A write builds on the one installed before it: the critical sections in
   which apply_write copies, expires and installs act as one. *)
THEOREM UpdatesKept == Spec => []NoLostUpdate
<1>1. Base => NoLostUpdate
  <2> SUFFICES ASSUME Base, NEW k \in Keys
               PROVE  /\ \A v \in chains[k] :
                            /\ v.pos \in DOMAIN log[k]
                            /\ log[k][v.pos] = [ts |-> v.commit, tids |-> v.tids]
                      /\ log[k] # <<>> => /\ chains[k] # {}
                                          /\ Newest(chains[k]).pos = Len(log[k])
    BY Zenon DEF NoLostUpdate
  <2>1. /\ chains[k] \in SUBSET Version /\ log[k] \in Seq(Stamped)
        /\ Records(chains[k], log[k])
    BY DEF Base, TypeOK, ChainOK, Stamped
  <2>2. DOMAIN log[k] = 1 .. Len(log[k])
    BY <2>1
  <2>3. /\ \A v \in chains[k] : /\ v.pos \in 1 .. Len(log[k])
                                 /\ log[k][v.pos] = [ts |-> v.commit, tids |-> v.tids]
        /\ log[k] # <<>> => chains[k] # {}
    BY <2>1, Zenon DEF Records
  <2>4. chains[k] # {} => Newest(chains[k]).pos = Len(log[k])
    BY <2>1, NewestFact
  <2>5. QED
    BY <2>2, <2>3, <2>4, Zenon
<1>2. QED
  BY BaseInvariant, <1>1, PTL

-----------------------------------------------------------------------------
(* The second layer: a version that has a successor was expired at the stamp
   of that successor, and the head is live unless it is being replaced, when it
   carries the stamp of the write that replaces it. *)
Deleted(k) ==
    \A v \in chains[k] :
        /\ v.pos < Len(log[k]) => v.delete = log[k][v.pos + 1].ts
        /\ v.pos = Len(log[k]) /\ ~ Replacing(k) => v.delete = Infinity
        /\ \A w \in Writers :
              v.pos = Len(log[k]) /\ pc[w] = "install" /\ write[w].op.key = k =>
                  v.delete = write[w].ts

Stamps == \A k \in Keys : Deleted(k)

(* A key that no step touches keeps its stamps. *)
LEMMA DeletedKept ==
  ASSUME NEW k \in Keys, Deleted(k), chains'[k] \in SUBSET chains[k], log'[k] = log[k],
         \A w \in Writers : (pc[w] = "install" /\ write[w].op.key = k) <=>
                            (pc'[w] = "install" /\ write'[w].op.key = k),
         \A w \in Writers : pc'[w] = "install" => write'[w].ts = write[w].ts
  PROVE  Deleted(k)'
<1>1. Replacing(k)' <=> Replacing(k)
  BY DEF Replacing
<1>2. ASSUME NEW v \in chains'[k]
      PROVE  /\ v.pos < Len(log[k]) => v.delete = log[k][v.pos + 1].ts
             /\ v.pos = Len(log[k]) /\ ~ Replacing(k) => v.delete = Infinity
             /\ \A w \in Writers :
                   v.pos = Len(log[k]) /\ pc'[w] = "install" /\ write'[w].op.key = k =>
                       v.delete = write'[w].ts
  <2>1. v \in chains[k]
    OBVIOUS
  <2>2. QED
    BY <2>1, Zenon DEF Deleted
<1>3. QED
  BY <1>1, <1>2, Zenon DEF Deleted

(* Expire and Install bring the stamps of their key along. *)
LEMMA StampsStep ==
  ASSUME Base, Stamps, [Next]_vars
  PROVE  Stamps'
<1> USE DEF Goto
<1>1. /\ pc = [t \in Threads |-> pc[t]] /\ write = [w \in Writers |-> write[w]]
      /\ chains \in [Keys -> SUBSET Version] /\ log \in [Keys -> Seq(Stamped)]
      /\ \A w \in Writers : write[w].op.key \in Keys /\ write[w].ts \in Timestamps
      /\ \A k \in Keys : Records(chains[k], log[k])
      /\ Writers \subseteq Threads
  BY ThreadFacts DEF Base, TypeOK, WriteOp, Stamped, ChainOK
<1>2. SUFFICES ASSUME NEW k \in Keys PROVE Deleted(k)'
  BY DEF Stamps
<1>3. Deleted(k) /\ Records(chains[k], log[k]) /\ chains[k] \in SUBSET Version
      /\ log[k] \in Seq(Stamped)
  BY <1>1 DEF Stamps
<1>4. CASE Aside
  BY <1>3, <1>4, DeletedKept DEF Aside, writing
<1>5. CASE BulkLoad
  <2>1. ~ Replacing(k)' /\ \A w \in Writers : pc'[w] # "install"
    BY <1>1, <1>5, ThreadFacts DEF BulkLoad, Base, PcOK, Replacing
  <2>2. CASE Loaded(k) = {}
    <3>1. chains'[k] = {}
      BY <1>5, <2>2 DEF BulkLoad
    <3>2. QED
      BY <3>1 DEF Deleted
  <2>3. CASE Loaded(k) # {}
    <3> DEFINE v == [pos |-> 1, tids |-> Loaded(k), commit |-> 0, delete |-> Infinity]
               e == [ts |-> 0, tids |-> Loaded(k)]
    <3>1. chains'[k] = {v} /\ log'[k] = <<e>>
      BY <1>5, <2>3 DEF BulkLoad
    <3>2. v.pos = 1 /\ v.delete = Infinity
      OBVIOUS
    <3> HIDE DEF v, e
    <3>3. Len(<<e>>) = 1
      OBVIOUS
    <3>4. QED
      BY <2>1, <3>1, <3>2, <3>3 DEF Deleted
  <2>4. QED
    BY <2>2, <2>3
<1>6. CASE Prune
  <2>1. chains'[k] \in SUBSET chains[k] /\ log' = log /\ write' = write
        /\ \A w \in Writers : pc'[w] = pc[w]
    BY <1>1, <1>6, ThreadFacts DEF Prune, writing
  <2>2. QED
    BY <1>3, <2>1, DeletedKept
<1>7. ASSUME NEW w \in Writers, Stamp(w) \/ LockKey(w) \/ CopyNewest(w) PROVE Deleted(k)'
  <2>1. /\ chains' = chains /\ log' = log
        /\ pc[w] # "install" /\ pc'[w] # "install"
        /\ \A u \in Writers \ {w} : pc'[u] = pc[u] /\ write'[u] = write[u]
    BY <1>1, <1>7 DEF Stamp, LockKey, CopyNewest
  <2>2. QED
    BY <1>3, <2>1, DeletedKept
<1>8. ASSUME NEW w \in Writers, Expire(w) PROVE Deleted(k)'
  <2> DEFINE n == Newest(chains[k])
  <2>1. /\ log' = log /\ write' = write
        /\ pc[w] = "expire" /\ pc'[w] = "install"
        /\ \A u \in Writers \ {w} : pc'[u] = pc[u]
    BY <1>1, <1>8 DEF Expire, writing
  <2>2. CASE write[w].op.key # k
    <3>1. chains'[k] = chains[k]
      BY <1>1, <1>8, <2>2 DEF Expire
    <3>2. QED
      BY <1>3, <2>1, <2>2, <3>1, DeletedKept
  <2>3. CASE write[w].op.key = k
    <3>1. chains'[k] = {Expired(v, n, write[w].ts) : v \in chains[k]}
      BY <1>1, <1>8, <2>3 DEF Expire, Expired
    <3>2. \A u \in Writers \ {w} : ~ (pc[u] = "install" /\ write[u].op.key = k)
      BY <2>1, <2>3 DEF Base, LockOK
    <3>3. Replacing(k)'
      BY <2>1, <2>3 DEF Replacing
    <3>4. ASSUME NEW x \in chains'[k]
          PROVE  /\ x.pos < Len(log[k]) => x.delete = log[k][x.pos + 1].ts
                 /\ x.pos = Len(log[k]) => x.delete = write[w].ts
      <4>1. PICK v \in chains[k] : x = Expired(v, n, write[w].ts)
        BY <3>1
      <4>2. v \in Version /\ chains[k] # {} /\ Len(log[k]) \in Nat
        BY <1>3
      <4>3. CASE v = n
        <5>1. x = [v EXCEPT !.delete = write[w].ts]
          BY <4>1, <4>3 DEF Expired
        <5>2. x.pos = v.pos /\ x.delete = write[w].ts
          BY <4>2, <5>1 DEF Version
        <5>3. v.pos = Len(log[k])
          BY <1>3, <4>2, <4>3, NewestFact
        <5>4. QED
          BY <4>2, <5>2, <5>3
      <4>4. CASE v # n
        <5>1. x = v
          BY <4>1, <4>4 DEF Expired
        <5>2. v.pos # Len(log[k])
          BY <1>3, <4>4, OlderThanNewest
        <5>3. v.pos < Len(log[k]) => v.delete = log[k][v.pos + 1].ts
          BY <1>3, Zenon DEF Deleted
        <5>4. QED
          BY <5>1, <5>2, <5>3
      <4>5. QED
        BY <4>3, <4>4
    <3>5. QED
      BY <2>1, <3>2, <3>3, <3>4 DEF Deleted
  <2>4. QED
    BY <2>2, <2>3
<1>9. ASSUME NEW w \in Writers, Install(w) PROVE Deleted(k)'
  <2>1. /\ pc[w] = "install" /\ pc'[w] = "idle"
        /\ \A u \in Writers \ {w} : pc'[u] = pc[u] /\ write'[u] = write[u]
    BY <1>1, <1>9 DEF Install, PutInFront
  <2>2. CASE write[w].op.key # k
    <3>1. chains'[k] = chains[k] /\ log'[k] = log[k]
      BY <1>1, <1>9, <2>2 DEF Install, PutInFront
    <3>2. QED
      BY <1>3, <2>1, <2>2, <3>1, DeletedKept
  <2>3. CASE write[w].op.key = k
    <3> DEFINE v == [pos |-> IF chains[k] = {} THEN 1 ELSE Newest(chains[k]).pos + 1,
                     tids |-> write[w].tids, commit |-> write[w].ts, delete |-> Infinity]
               e == [ts |-> write[w].ts, tids |-> Update(Last(log[k]), write[w].op)]
    <3>1. chains'[k] = chains[k] \cup {v} /\ log'[k] = Append(log[k], e)
      BY <1>1, <1>9, <2>3 DEF Install, PutInFront, Last
    <3>2. /\ v.delete = Infinity /\ e.ts = write[w].ts
          /\ v.pos = IF chains[k] = {} THEN 1 ELSE Newest(chains[k]).pos + 1
      OBVIOUS
    <3> HIDE DEF v, e
    <3>3. e \in Stamped
      BY <1>1, <1>3, <3>1, ChainStep DEF e
    <3>4. /\ Len(log'[k]) = Len(log[k]) + 1 /\ Len(log[k]) \in Nat
          /\ log'[k][Len(log[k]) + 1] = e
          /\ \A i \in 1 .. Len(log[k]) : log'[k][i] = log[k][i]
      BY <1>3, <3>1
    <3>5. ~ Replacing(k)' /\ \A u \in Writers : ~ (pc'[u] = "install" /\ write'[u].op.key = k)
      BY <2>1, <2>3 DEF Base, LockOK, Replacing
    <3>6. \A x \in chains[k] : x.pos \in 1 .. Len(log[k])
      BY <1>3, Zenon DEF Records
    <3>7. ASSUME NEW x \in chains[k]
          PROVE  x.pos < Len(log'[k]) /\ x.delete = log'[k][x.pos + 1].ts
      <4>1. CASE x.pos = Len(log[k])
        <5>1. x.delete = write[w].ts
          BY <1>3, <2>1, <2>3, <4>1, Zenon DEF Deleted
        <5>2. QED
          BY <3>2, <3>4, <4>1, <5>1
      <4>2. CASE x.pos # Len(log[k])
        <5>1. x.pos < Len(log[k]) /\ x.pos + 1 \in 1 .. Len(log[k])
          BY <3>4, <3>6, <4>2
        <5>2. x.delete = log[k][x.pos + 1].ts
          BY <1>3, <5>1, Zenon DEF Deleted
        <5>3. log'[k][x.pos + 1] = log[k][x.pos + 1]
          BY <3>4, <5>1
        <5>4. x.pos < Len(log'[k])
          BY <3>4, <3>6, <5>1
        <5>5. QED
          BY <5>2, <5>3, <5>4
      <4>3. QED
        BY <4>1, <4>2
    <3>8. v.pos = Len(log'[k])
      <4>1. CASE chains[k] = {}
        <5>1. log[k] = <<>>
          BY <1>3, <4>1, Zenon DEF Records
        <5>2. QED
          BY <3>2, <3>4, <4>1, <5>1
      <4>2. CASE chains[k] # {}
        <5>1. Newest(chains[k]).pos = Len(log[k])
          BY <1>3, <4>2, NewestFact
        <5>2. v.pos = Newest(chains[k]).pos + 1
          BY <3>2, <4>2
        <5>3. QED
          BY <3>4, <5>1, <5>2
      <4>3. QED
        BY <4>1, <4>2
    <3>9. ASSUME NEW x \in chains'[k]
          PROVE  /\ x.pos < Len(log'[k]) => x.delete = log'[k][x.pos + 1].ts
                 /\ x.pos = Len(log'[k]) => x.delete = Infinity
      <4>1. x \in chains[k] \/ x = v
        BY <3>1
      <4>2. x \in chains[k] => x.pos # Len(log'[k])
        BY <3>4, <3>6
      <4>3. x = v => ~ (x.pos < Len(log'[k]))
        BY <3>4, <3>8
      <4>4. QED
        BY <3>2, <3>7, <4>1, <4>2, <4>3
    <3>10. QED
      BY <3>5, <3>9, Zenon DEF Deleted
  <2>4. QED
    BY <2>2, <2>3
<1>10. QED
  BY <1>4, <1>5, <1>6, <1>7, <1>8, <1>9, StepKinds

(* Stamps holds throughout. *)
LEMMA StampsInvariant == Spec => []Stamps
<1>1. Init => Stamps
  BY DEF Init, Stamps, Deleted
<1>2. Base /\ Stamps /\ [Next]_vars => Stamps'
  BY StampsStep
<1>3. QED
  BY BaseInvariant, <1>1, <1>2, PTL DEF Spec

(* What the two layers say of the chain and the history of one key. *)
LEMMA KeyFacts ==
  ASSUME Base, Stamps, NEW k \in Keys
  PROVE  /\ chains[k] \in SUBSET Version /\ log[k] \in Seq(Stamped)
         /\ Records(chains[k], log[k]) /\ Deleted(k)
         /\ Len(log[k]) \in Nat
         /\ \A v \in chains[k] : /\ v.pos \in 1 .. Len(log[k])
                                 /\ v.commit = log[k][v.pos].ts /\ v.tids = log[k][v.pos].tids
         /\ \A i \in 1 .. Len(log[k]) : log[k][i].ts \in Nat /\ log[k][i].ts < Infinity
<1>1. /\ chains[k] \in SUBSET Version /\ log[k] \in Seq(Stamped)
      /\ Records(chains[k], log[k]) /\ Deleted(k)
  BY DEF Base, TypeOK, ChainOK, Stamped, Stamps
<1>2. \A v \in chains[k] : /\ v.pos \in 1 .. Len(log[k])
                            /\ log[k][v.pos] = [ts |-> v.commit, tids |-> v.tids]
  BY <1>1, Zenon DEF Records
<1>3. ASSUME NEW i \in 1 .. Len(log[k]) PROVE log[k][i].ts \in Nat /\ log[k][i].ts < Infinity
  <2>1. log[k][i] \in Stamped
    BY <1>1
  <2>2. log[k][i].ts \in Timestamps
    BY <2>1 DEF Stamped
  <2>3. QED
    BY <2>2, ParametersAssumption DEF Timestamps, Infinity
<1>4. ASSUME NEW v \in chains[k]
      PROVE  v.commit = log[k][v.pos].ts /\ v.tids = log[k][v.pos].tids
  <2>1. log[k][v.pos] = [ts |-> v.commit, tids |-> v.tids]
    BY <1>2
  <2>2. QED
    BY <2>1
<1>5. Len(log[k]) \in Nat
  BY <1>1
<1>6. QED
  BY <1>1, <1>2, <1>3, <1>4, <1>5, Zenon

(* A key has one live version, its newest, or none while apply_write stands
   between expiring the old head and putting the new one in front. *)
THEOREM LiveVersion == Spec => []OneLiveVersion
<1>1. Base /\ Stamps => OneLiveVersion
  <2> SUFFICES ASSUME Base, Stamps, NEW k \in Keys
               PROVE  {v \in chains[k] : v.delete = Infinity} =
                          IF chains[k] = {} \/ Replacing(k) THEN {} ELSE {Newest(chains[k])}
    BY Zenon DEF OneLiveVersion
  <2>1. \A v \in chains[k] : v.pos < Len(log[k]) => v.delete # Infinity
    <3>1. ASSUME NEW v \in chains[k], v.pos < Len(log[k]) PROVE v.delete # Infinity
      <4>1. v.pos + 1 \in 1 .. Len(log[k])
        BY <3>1, KeyFacts
      <4>2. v.delete = log[k][v.pos + 1].ts
        BY <3>1, KeyFacts, Zenon DEF Deleted
      <4>3. log[k][v.pos + 1].ts < Infinity /\ log[k][v.pos + 1].ts \in Nat
        BY <4>1, KeyFacts
      <4>4. Infinity \in Nat
        BY ParametersAssumption DEF Infinity
      <4>5. QED
        BY <4>2, <4>3, <4>4
    <3>2. QED
      BY <3>1
  <2>2. CASE chains[k] = {}
    BY <2>2
  <2>3. CASE chains[k] # {} /\ Replacing(k)
    <3>1. PICK w \in Writers : pc[w] = "install" /\ write[w].op.key = k
      BY <2>3 DEF Replacing
    <3>2. write[w].ts # Infinity
      BY ParametersAssumption DEF Base, TypeOK, Timestamps, Infinity
    <3>3. \A v \in chains[k] : v.pos = Len(log[k]) => v.delete = write[w].ts
      BY <3>1, KeyFacts, Zenon DEF Deleted
    <3>4. \A v \in chains[k] : v.pos < Len(log[k]) \/ v.pos = Len(log[k])
      BY KeyFacts
    <3>5. QED
      BY <2>1, <2>3, <3>2, <3>3, <3>4
  <2>4. CASE chains[k] # {} /\ ~ Replacing(k)
    <3>1. /\ Newest(chains[k]) \in chains[k] /\ Newest(chains[k]).pos = Len(log[k])
          /\ \A v \in chains[k] : v.pos = Len(log[k]) => v = Newest(chains[k])
      BY <2>4, KeyFacts, NewestFact
    <3>2. Newest(chains[k]).delete = Infinity
      BY <2>4, <3>1, KeyFacts, Zenon DEF Deleted
    <3>3. \A v \in chains[k] : v.pos < Len(log[k]) \/ v.pos = Len(log[k])
      BY KeyFacts
    <3>4. QED
      BY <2>1, <2>4, <3>1, <3>2, <3>3
  <2>5. QED
    BY <2>2, <2>3, <2>4
<1>2. QED
  BY BaseInvariant, StampsInvariant, <1>1, PTL

(* If the writes of its key installed in the order of their stamps, the version
   a probe stops at holds exactly the writes stamped no later than the probe. *)
THEOREM SnapshotRead == Spec => []InOrderSnapshotRead
<1>1. Base /\ Stamps => InOrderSnapshotRead
  <2> SUFFICES ASSUME Base, Stamps, NEW p \in Probers, InstalledInOrder(probe[p].key),
                      pc[p] = "walk", Visible(chains[probe[p].key], probe[p].ts) # {},
                      NEW i \in DOMAIN log[probe[p].key]
               PROVE  log[probe[p].key][i].ts <= probe[p].ts <=>
                          i <= Newest(Visible(chains[probe[p].key], probe[p].ts)).pos
    BY Zenon DEF InOrderSnapshotRead, ReadsSnapshot
  <2> DEFINE k == probe[p].key
             h == log[k]
             found == Visible(chains[k], probe[p].ts)
             v == Newest(found)
  <2>1. k \in Keys /\ probe[p].ts \in Nat
    BY DEF Base, TypeOK, Timestamps
  <2>2. /\ found \in SUBSET chains[k] /\ found # {}
        /\ \A u \in found : u.commit <= probe[p].ts /\ probe[p].ts < u.delete
    BY DEF Visible
  <2> HIDE DEF found, k
  <2>3. v \in found /\ v \in chains[k]
    BY <2>1, <2>2, KeyFacts, NewestVisible
  <2>4. /\ v.pos \in 1 .. Len(h) /\ Len(h) \in Nat
        /\ h[v.pos].ts <= probe[p].ts
        /\ \A j \in 1 .. Len(h) : h[j].ts \in Nat
    <3>1. v.commit <= probe[p].ts
      BY <2>2, <2>3
    <3> HIDE DEF v
    <3>2. QED
      BY <2>1, <2>3, <3>1, KeyFacts
  <2>5. v.pos + 1 \in 1 .. Len(h) => probe[p].ts < h[v.pos + 1].ts
    <3>1. probe[p].ts < v.delete
      BY <2>2, <2>3
    <3> HIDE DEF v
    <3>2. Deleted(k)
      BY <2>1, KeyFacts
    <3>3. v.pos < Len(h) => v.delete = h[v.pos + 1].ts
      BY <2>3, <3>2, Zenon DEF Deleted
    <3>4. QED
      BY <2>4, <3>1, <3>3
  <2>6. DOMAIN h = 1 .. Len(h)
    <3>1. h \in Seq(Stamped)
      BY <2>1, KeyFacts
    <3> HIDE DEF h
    <3>2. QED
      BY <3>1
  <2>7. \A a, b \in 1 .. Len(h) : a < b => h[a].ts < h[b].ts
    BY <2>6 DEF InstalledInOrder, k
  <2>8. i \in 1 .. Len(h)
    BY <2>6 DEF k
  <2> HIDE DEF v, h
  <2>9. ASSUME i <= v.pos PROVE h[i].ts <= probe[p].ts
    <3>1. h[i].ts <= h[v.pos].ts
      BY <2>4, <2>7, <2>8, <2>9
    <3>2. QED
      BY <2>1, <2>4, <2>8, <3>1
  <2>10. ASSUME ~ (i <= v.pos) PROVE ~ (h[i].ts <= probe[p].ts)
    <3>1. v.pos + 1 \in 1 .. Len(h) /\ v.pos + 1 <= i
      BY <2>4, <2>8, <2>10
    <3>2. h[v.pos + 1].ts <= h[i].ts
      BY <2>4, <2>7, <2>8, <3>1
    <3>3. QED
      BY <2>1, <2>4, <2>5, <2>8, <3>1, <3>2
  <2>11. log[probe[p].key][i].ts <= probe[p].ts <=> i <= v.pos
    BY <2>9, <2>10 DEF h, k
  <2>12. QED
    BY <2>11 DEF v, found, k
<1>2. QED
  BY BaseInvariant, StampsInvariant, <1>1, PTL

-----------------------------------------------------------------------------
(* The third layer: no timestamp is ahead of the clock, and the collector's is
   not ahead of any probe it has seen registered, nor of the clock those
   probers would read next. *)
Safe ==
    /\ \A p \in Probers : pc[p] # "idle" => probe[p].ts <= clock
    /\ active \subseteq {p \in Probers : pc[p] \in {"walk", "unregister"}}
    /\ pc[Collector] = "prune" =>
          \A p \in covered : safe <= clock /\ (pc[p] # "idle" => safe <= probe[p].ts)

(* A writer moves nobody but itself. *)
LEMMA WriterAlone ==
  ASSUME Base, NEW w \in Writers, Writer(w)
  PROVE  \A t \in Probers \cup {Collector} : pc'[t] = pc[t]
<1>1. pc = [t \in Threads |-> pc[t]]
  BY DEF Base, TypeOK
<1>2. \E x : pc' = [pc EXCEPT ![w] = x]
  <2>1. CASE Stamp(w) \/ LockKey(w) \/ CopyNewest(w)
    BY <2>1 DEF Goto, Stamp, LockKey, CopyNewest
  <2>2. CASE Expire(w) \/ Install(w)
    BY <2>2 DEF Goto, Expire, Install, PutInFront
  <2>3. QED
    BY <2>1, <2>2 DEF Writer
<1>3. QED
  BY <1>1, <1>2, ThreadFacts

(* Only Wake changes the collector's timestamp, and the clock never goes back. *)
LEMMA SafeStep ==
  ASSUME Base, Safe, [Next]_vars
  PROVE  Safe'
<1> USE ThreadFacts DEF Goto
<1>1. /\ pc = [t \in Threads |-> pc[t]] /\ probe = [p \in Probers |-> probe[p]]
      /\ clock \in Nat /\ safe \in Nat /\ covered \in SUBSET Probers /\ active \in SUBSET Probers
      /\ \A p \in Probers : probe[p].ts \in Nat
      /\ Probers \subseteq Threads
  BY ParametersAssumption DEF Base, TypeOK, Timestamps, Infinity
<1>2. CASE BulkLoad
  <2>1. /\ clock' = clock
        /\ UNCHANGED <<active, probe, safe, covered>>
        /\ pc' = [pc EXCEPT ![Main] = "use"]
    BY <1>2 DEF BulkLoad, Base, PcOK, reading, collecting
  <2>2. QED
    BY <1>1, <2>1 DEF Safe
<1>3. CASE Wake
  <2>1. /\ UNCHANGED <<active, probe, clock>>
        /\ safe' = IF stop THEN safe ELSE SafeTs(active)
        /\ covered' = IF stop THEN {} ELSE active
        /\ pc' = [pc EXCEPT ![Collector] = IF stop THEN "done" ELSE "prune"]
    BY <1>3 DEF Wake, reading, writing
  <2>2. /\ SafeTs(active) \in Nat
        /\ \A p \in active : SafeTs(active) <= probe[p].ts
    <3>1. probe \in [Probers -> [key : Keys, ts : Timestamps, result : SUBSET TIDs]]
      BY DEF Base, TypeOK
    <3>2. SafeTs(active) \in Timestamps \cup {Infinity}
      BY <1>1, <3>1, SafeTsFact
    <3>3. \A p \in active : SafeTs(active) <= probe[p].ts
      BY <1>1, <3>1, SafeTsFact
    <3>4. QED
      BY <3>2, <3>3, ParametersAssumption DEF Timestamps, Infinity
  <2>3. \A p \in active : pc[p] # "idle" /\ probe[p].ts <= clock
    BY <1>1 DEF Safe
  <2>4. \A p \in active : SafeTs(active) <= clock
    <3>1. ASSUME NEW p \in active PROVE SafeTs(active) <= clock
      <4>1. probe[p].ts \in Nat /\ SafeTs(active) <= probe[p].ts /\ probe[p].ts <= clock
        BY <1>1, <2>2, <2>3
      <4>2. QED
        BY <1>1, <2>2, <4>1
    <3>2. QED
      BY <3>1
  <2>5. QED
    BY <1>1, <2>1, <2>2, <2>4 DEF Safe
<1>4. CASE Prune
  BY <1>1, <1>4 DEF Prune, reading, writing, Safe
<1>5. CASE Destroy \/ Join
  BY <1>1, <1>5 DEF Destroy, Join, reading, writing, collecting, Safe
<1>6. ASSUME NEW p \in Probers, TakeSnapshot(p) PROVE Safe'
  <2>1. /\ UNCHANGED <<active, clock, safe, covered>>
        /\ pc[p] = "idle" /\ pc' = [pc EXCEPT ![p] = "register"]
        /\ \A q \in Probers \ {p} : probe'[q] = probe[q]
        /\ probe'[p].ts = clock
    BY <1>1, <1>6 DEF TakeSnapshot, NoProbe, writing, collecting
  <2>2. QED
    BY <1>1, <2>1 DEF Safe
<1>7. ASSUME NEW p \in Probers, Register(p) PROVE Safe'
  BY <1>1, <1>7 DEF Register, writing, collecting, Safe
<1>8. ASSUME NEW p \in Probers, ReadChain(p) PROVE Safe'
  <2>1. /\ UNCHANGED <<active, clock, safe, covered>>
        /\ pc[p] = "walk" /\ pc' = [pc EXCEPT ![p] = "unregister"]
        /\ \E s : probe' = [probe EXCEPT ![p].result = s]
    BY <1>8 DEF ReadChain, writing, collecting
  <2>2. \A q \in Probers : probe'[q].ts = probe[q].ts
    BY <2>1 DEF Base, TypeOK
  <2>3. QED
    BY <1>1, <2>1, <2>2 DEF Safe
<1>9. ASSUME NEW p \in Probers, Unregister(p) PROVE Safe'
  BY <1>1, <1>9 DEF Unregister, writing, collecting, Safe
<1>10. ASSUME NEW w \in Writers, Writer(w) PROVE Safe'
  <2>1. /\ UNCHANGED <<reading, collecting>>
        /\ clock' = clock \/ clock' = clock + 1
    BY <1>10 DEF Writer, Stamp, LockKey, CopyNewest, Expire, Install, PutInFront, writing
  <2>2. \A t \in Probers \cup {Collector} : pc'[t] = pc[t]
    BY <1>10, WriterAlone
  <2>3. /\ UNCHANGED <<active, probe, safe, covered>>
        /\ clock' \in Nat /\ clock <= clock'
    BY <1>1, <2>1 DEF reading, collecting
  <2>4. \A p \in Probers : pc'[p] # "idle" => probe'[p].ts <= clock'
    BY <1>1, <2>2, <2>3 DEF Safe
  <2>5. active' \subseteq {p \in Probers : pc'[p] \in {"walk", "unregister"}}
    BY <2>2, <2>3 DEF Safe
  <2>6. ASSUME pc'[Collector] = "prune", NEW p \in covered'
        PROVE  safe' <= clock' /\ (pc'[p] # "idle" => safe' <= probe'[p].ts)
    BY <1>1, <2>2, <2>3, <2>6 DEF Safe
  <2>7. QED
    BY <2>4, <2>5, <2>6 DEF Safe
<1>11. CASE UNCHANGED vars
  BY <1>11 DEF vars, reading, writing, collecting, Safe
<1>12. QED
  BY <1>2, <1>3, <1>4, <1>5, <1>6, <1>7, <1>8, <1>9, <1>10, <1>11 DEF Next, Prober, Terminated

(* Safe holds throughout. *)
LEMMA SafeInvariant == Spec => []Safe
<1>1. Init => Safe
  BY ThreadFacts DEF Init, Safe
<1>2. Base /\ Safe /\ [Next]_vars => Safe'
  BY SafeStep
<1>3. QED
  BY BaseInvariant, <1>1, <1>2, PTL DEF Spec

(* Nobody but the collector ends its prune, and nobody but a prober its walk. *)
LEMMA OwnSteps ==
  ASSUME Base, [Next]_vars
  PROVE  /\ pc[Collector] = "prune" /\ pc'[Collector] = "sleep" => Prune
         /\ \A p \in Probers : pc[p] = "walk" /\ pc'[p] = "unregister" => ReadChain(p)
<1> USE ThreadFacts DEF Goto
<1>1. pc = [t \in Threads |-> pc[t]]
  BY DEF Base, TypeOK
<1>2. CASE BulkLoad \/ Wake \/ Prune \/ Destroy \/ Join
  BY <1>1, <1>2 DEF BulkLoad, Wake, Prune, Destroy, Join
<1>3. ASSUME NEW q \in Probers, Prober(q)
      PROVE  /\ pc'[Collector] = pc[Collector]
             /\ \A p \in Probers : pc[p] = "walk" /\ pc'[p] = "unregister" => ReadChain(p)
  BY <1>1, <1>3 DEF Prober, TakeSnapshot, Register, ReadChain, Unregister
<1>4. ASSUME NEW w \in Writers, Writer(w)
      PROVE  \A t \in Probers \cup {Collector} : pc'[t] = pc[t]
  BY <1>4, WriterAlone
<1>5. CASE UNCHANGED vars
  BY <1>5 DEF vars
<1>6. QED
  BY <1>2, <1>3, <1>4, <1>5 DEF Next, Terminated

(* The collector unlinks nothing that a probe it knew of can still return. *)
THEOREM CollectorSparesCovered == Spec => CoveredProbesKeepAnswer
<1> DEFINE A == \A p \in covered \cap active :
              pc[Collector] = "prune" /\ pc'[Collector] = "sleep" =>
                  Walk(chains'[probe[p].key], probe[p].ts) = Walk(chains[probe[p].key], probe[p].ts)
<1>1. Base /\ Safe /\ [Next]_vars => A
  <2> SUFFICES ASSUME Base, Safe, [Next]_vars, NEW p \in covered \cap active,
                      pc[Collector] = "prune", pc'[Collector] = "sleep"
               PROVE  Walk(chains'[probe[p].key], probe[p].ts)
                          = Walk(chains[probe[p].key], probe[p].ts)
    BY Zenon
  <2> DEFINE k == probe[p].key
             ts == probe[p].ts
  <2>1. p \in Probers /\ k \in Keys /\ ts \in Nat /\ safe \in Nat /\ chains[k] \in SUBSET Version
    BY ParametersAssumption DEF Base, TypeOK, Timestamps, Infinity
  <2>2. safe <= ts
    BY <2>1 DEF Safe
  <2>3. chains'[k] = {v \in chains[k] : v = Newest(chains[k]) \/ v.delete >= safe}
    BY <2>1, OwnSteps DEF Prune
  <2>4. \A v \in chains[k] : v.delete \in Nat
    BY <2>1, ParametersAssumption DEF Version, Timestamps, Infinity
  <2> HIDE DEF k, ts
  <2>5. \A v \in chains[k] : ts < v.delete => v \in chains'[k]
    BY <2>1, <2>2, <2>3, <2>4
  <2>6. Visible(chains'[k], ts) = Visible(chains[k], ts)
    BY <2>3, <2>5 DEF Visible
  <2>7. Walk(chains'[k], ts) = Walk(chains[k], ts)
    BY <2>6 DEF Walk
  <2>8. QED
    BY <2>7 DEF k, ts
<1>2. QED
  BY BaseInvariant, SafeInvariant, <1>1, PTL DEF Spec, CoveredProbesKeepAnswer

(* A probe that meets no write of its key, and is not older than the last one,
   returns what the completed writes have made of the key. *)
THEOREM QuietProbeReads == Spec => QuietProbeExact
<1> DEFINE A == \A p \in Probers :
          LET k == probe[p].key IN
          /\ pc[p] = "walk" /\ pc'[p] = "unregister"
          /\ \A w \in Writers : pc[w] # "idle" => write[w].op.key # k
          /\ log[k] # <<>> /\ log[k][Len(log[k])].ts <= probe[p].ts
          => probe'[p].result = log[k][Len(log[k])].tids
<1>1. Base /\ Stamps /\ [Next]_vars => A
  <2> SUFFICES ASSUME Base, Stamps, [Next]_vars, NEW p \in Probers,
                      pc[p] = "walk", pc'[p] = "unregister",
                      \A w \in Writers : pc[w] # "idle" => write[w].op.key # probe[p].key,
                      log[probe[p].key] # <<>>,
                      log[probe[p].key][Len(log[probe[p].key])].ts <= probe[p].ts
               PROVE  probe'[p].result = log[probe[p].key][Len(log[probe[p].key])].tids
    BY Zenon
  <2> DEFINE k  == probe[p].key
             ts == probe[p].ts
             h  == log[k]
             n  == Newest(chains[k])
             d  == Visible(chains[k], ts)
  <2>1. k \in Keys /\ ts \in Nat /\ ts < Infinity
    BY ParametersAssumption DEF Base, TypeOK, Timestamps, Infinity
  <2>2. probe'[p].result = Walk(chains[k], ts)
    <3>1. probe' = [probe EXCEPT ![p].result = Walk(chains[k], ts)]
      BY OwnSteps DEF ReadChain
    <3>2. probe \in [Probers -> [key : Keys, ts : Timestamps, result : SUBSET TIDs]]
      BY DEF Base, TypeOK
    <3> HIDE DEF k, ts
    <3>3. QED
      BY <3>1, <3>2
  <2>3. ~ Replacing(k)
    BY DEF Replacing
  <2>4. h # <<>> /\ h[Len(h)].ts <= ts
    OBVIOUS
  <2> HIDE DEF k, ts
  <2>5. chains[k] # {}
    BY <2>1, <2>4, KeyFacts, Zenon DEF Records
  <2>6. /\ n \in chains[k] /\ n.pos = Len(h)
        /\ h[Len(h)] = [ts |-> n.commit, tids |-> n.tids]
        /\ \A v \in chains[k] : v.pos = Len(h) => v = n
    BY <2>1, <2>5, KeyFacts, NewestFact
  <2>7. n.delete = Infinity
    <3>1. Deleted(k)
      BY <2>1, KeyFacts
    <3>2. QED
      BY <2>3, <2>6, <3>1, Zenon DEF Deleted
  <2>8. n \in d /\ d \in SUBSET chains[k]
    BY <2>1, <2>4, <2>6, <2>7 DEF Visible
  <2>9. /\ Len(h) \in Nat
        /\ \A v \in chains[k] : v.pos \in Nat /\ v.pos <= Len(h)
    BY <2>1, KeyFacts
  <2> HIDE DEF d
  <2>10. Newest(d) \in d /\ \A v \in d : v.pos <= Newest(d).pos
    BY <2>1, <2>8, KeyFacts, NewestVisible
  <2> HIDE DEF n, h
  <2>11. Newest(d) = n
    <3>1. Newest(d).pos <= Len(h) /\ Len(h) <= Newest(d).pos /\ Newest(d).pos \in Nat
      BY <2>6, <2>8, <2>9, <2>10
    <3>2. Newest(d).pos = Len(h)
      BY <2>9, <3>1
    <3>3. QED
      BY <2>6, <2>8, <2>10, <3>2
  <2>12. Walk(chains[k], ts) = n.tids
    BY <2>8, <2>11 DEF Walk, d
  <2>13. QED
    BY <2>2, <2>6, <2>12 DEF k, h
<1>2. QED
  BY BaseInvariant, StampsInvariant, <1>1, PTL DEF Spec, QuietProbeExact

-----------------------------------------------------------------------------
(* A key's mutex is held only by a writer inside its critical section. *)

KeysHeld ==
    \A k \in Keys : keyLock[k] # NoThread =>
        \E w \in Writers :
            /\ keyLock[k] = w
            /\ pc[w] \in {"copy", "expire", "install"}
            /\ write[w].op.key = k

LEMMA HeldStep ==
  ASSUME Base, KeysHeld, [Next]_vars
  PROVE  KeysHeld'
<1> USE ThreadFacts DEF Goto
<1>1. /\ pc = [t \in Threads |-> pc[t]]
      /\ write = [w \in Writers |-> write[w]]
      /\ keyLock = [k \in Keys |-> keyLock[k]]
      /\ \A w \in Writers : write[w].op.key \in Keys
  BY DEF Base, TypeOK, WriteOp
<1>2. CASE Aside
  BY <1>2 DEF Aside, writing, KeysHeld
<1>3. CASE Prune
  <2>1. UNCHANGED <<keyLock, write>> /\ \A w \in Writers : pc'[w] = pc[w]
    BY <1>1, <1>3 DEF Prune, writing
  <2>2. QED
    BY <2>1 DEF KeysHeld
<1>4. CASE BulkLoad
  BY <1>1, <1>4 DEF BulkLoad, Base, PcOK, KeysHeld
<1>5. ASSUME NEW w \in Writers, Stamp(w) PROVE KeysHeld'
  <2>1. keyLock' = keyLock /\ pc[w] = "idle"
        /\ \A u \in Writers \ {w} : pc'[u] = pc[u] /\ write'[u] = write[u]
    BY <1>1, <1>5 DEF Stamp
  <2>2. QED
    BY <2>1 DEF KeysHeld
<1>6. ASSUME NEW w \in Writers, LockKey(w) PROVE KeysHeld'
  <2> DEFINE k == write[w].op.key
  <2>1. /\ keyLock' = [keyLock EXCEPT ![k] = w] /\ write' = write
        /\ pc' = [pc EXCEPT ![w] = "copy"] /\ pc[w] = "lock"
    BY <1>6 DEF LockKey
  <2>2. k \in Keys /\ w \in Threads
    BY <1>1
  <2> HIDE DEF k
  <2>3. pc'[w] = "copy" /\ \A u \in Writers : u # w => pc'[u] = pc[u]
    BY <1>1, <2>1, <2>2
  <2>4. keyLock'[k] = w /\ \A l \in Keys : l # k => keyLock'[l] = keyLock[l]
    BY <1>1, <2>1, <2>2
  <2>5. ASSUME NEW l \in Keys, keyLock'[l] # NoThread
        PROVE  \E u \in Writers : /\ keyLock'[l] = u
                                  /\ pc'[u] \in {"copy", "expire", "install"}
                                  /\ write'[u].op.key = l
    <3>1. CASE l = k
      BY <2>1, <2>3, <2>4, <3>1 DEF k
    <3>2. CASE l # k
      <4>1. PICK u \in Writers : /\ keyLock[l] = u
                                 /\ pc[u] \in {"copy", "expire", "install"}
                                 /\ write[u].op.key = l
        BY <2>4, <2>5, <3>2 DEF KeysHeld
      <4>2. u # w
        BY <2>1, <4>1
      <4>3. QED
        BY <2>1, <2>3, <2>4, <3>2, <4>1, <4>2
    <3>3. QED
      BY <3>1, <3>2
  <2>6. QED
    BY <2>5 DEF KeysHeld
<1>7. ASSUME NEW w \in Writers, CopyNewest(w) PROVE KeysHeld'
  <2>1. keyLock' = keyLock /\ pc' = [pc EXCEPT ![w] = "expire"]
    BY <1>7 DEF CopyNewest
  <2>2. \A u \in Writers : write'[u].op = write[u].op
    BY <1>7, CopiedOp DEF CopyNewest, Base
  <2>3. QED
    BY <1>1, <2>1, <2>2 DEF KeysHeld
<1>8. ASSUME NEW w \in Writers, Expire(w) PROVE KeysHeld'
  BY <1>1, <1>8 DEF Expire, writing, KeysHeld
<1>9. ASSUME NEW w \in Writers, Install(w) PROVE KeysHeld'
  <2> DEFINE k == write[w].op.key
  <2>1. /\ keyLock' = [keyLock EXCEPT ![k] = NoThread]
        /\ pc' = [pc EXCEPT ![w] = "idle"] /\ write' = [write EXCEPT ![w] = NoWrite]
    BY <1>9 DEF Install, PutInFront
  <2>2. \A l \in Keys : keyLock'[l] = IF l = k THEN NoThread ELSE keyLock[l]
    BY <1>1, <2>1
  <2>3. \A u \in Writers \ {w} : pc'[u] = pc[u] /\ write'[u] = write[u]
    BY <1>1, <2>1
  <2>4. QED
    BY <2>2, <2>3 DEF KeysHeld
<1>10. QED
  BY <1>2, <1>3, <1>4, <1>5, <1>6, <1>7, <1>8, <1>9, StepKinds

(* Who waits for a key waits for a writer that is past every wait for a key. *)
WaitersEnd ==
    \A w \in Writers : pc[w] = "lock" /\ keyLock[write[w].op.key] # NoThread =>
        \E v \in Writers \ {w} :
            /\ keyLock[write[w].op.key] = v
            /\ pc[v] \in {"copy", "expire", "install"}

(* A write never locks two keys and unlocks the one it has on its return, so
   the callers of insert and remove cannot wait for each other in a circle
   (mpimvcc_index.cpp:135). *)
THEOREM KeyWaitsEnd == Spec => []WaitersEnd
<1>1. Init => KeysHeld
  BY DEF Init, KeysHeld
<1>2. Base /\ KeysHeld => WaitersEnd
  BY DEF Base, TypeOK, WriteOp, KeysHeld, WaitersEnd
<1>3. QED
  BY <1>1, <1>2, HeldStep, BaseInvariant, PTL DEF Spec
=============================================================================
