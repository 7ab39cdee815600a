----------------------------- MODULE BFCSI_proofs -----------------------------
(***************************************************************************)
(* Proofs about BFCSI for any threads, keys, tids, relation, hashing,      *)
(* shards, slots, threshold and bounds.  The flag lets one rebuild through *)
(* (Exclusive); so the snapshot of that rebuild, with the keys the history *)
(* calls overlapped, has every key that is in the list or on its way into  *)
(* it (FilterOK); the cache is wrong about a key only while an insert of   *)
(* it has its slot yet to clear, or after a late fill (CacheOK, which is   *)
(* CacheHidesLate); and a probe whose key stays live meets neither unless  *)
(* it is one of these accidents (SureOK).  The flag comes before the       *)
(* mutex, so that nobody waits for a rebuild (WaitsForUnlock).             *)
(***************************************************************************)
EXTENDS BFCSI, FiniteSetTheorems, TLAPS

(* What a rebuild goes through from the flag to the loop over the slots. *)
Rebuilding == {"lock", "snapshot", "shard", "reset", "total", "finish"}

Working(w) ==
    \/ pc[w] \in Rebuilding
    \/ pc[w] = "clear" /\ write[w].op.op = "DELETE"

(* The program counters of an insert and of a remove; the loop over the slots
   has both. *)
OpOK ==
    \A w \in Writers :
        /\ pc[w] = "list" => write[w].op.op = "INSERT" /\ write[w].at = 0
        /\ pc[w] \in {"check", "delete", "ratio", "claim"} \cup Rebuilding
               => write[w].op.op = "DELETE"

Exclusive ==
    /\ rebuilding = TRUE <=> \E w \in Writers : Working(w)
    /\ \A v, w \in Writers : Working(v) /\ Working(w) => v = w

(* A key is in the list, or its insert has only to put it there. *)
Coming(k) ==
    \/ list[k] # {}
    \/ \E w \in Writers : pc[w] = "list" /\ write[w].op.key = k

FilterOK ==
    \A k \in Keys \ overlapped :
        Coming(k) =>
            /\ Present(k)
            /\ \A w \in Writers : pc[w] = "shard" /\ write[w].at <= ShardOf(k)
                   => k \in write[w].live

CacheOK == CacheHidesLate

SureOK ==
    \A p \in sure :
        /\ pc[p] \in {"cache", "lookup", "return"}
        /\ list[probe[p].key] # {}
        /\ cache[SlotOf(probe[p].key)] = probe[p].key => probe[p].key \in late

Base == TypeOK /\ OpOK /\ Exclusive
Inv  == Base /\ FilterOK /\ CacheOK /\ SureOK

-----------------------------------------------------------------------------
(* Facts about the constants. *)

LEMMA ShardType == ASSUME NEW k \in Keys PROVE ShardOf(k) \in Shards
BY DomainAssumption, ParametersAssumption DEF ShardOf, Shards

LEMMA SlotType == ASSUME NEW k \in Keys PROVE SlotOf(k) \in Slots
BY DomainAssumption, ParametersAssumption DEF SlotOf, Slots

LEMMA LocalsType ==
  /\ NoWrite \in [op : WriteOp, count : Nat, live : SUBSET Keys, at : Nat]
  /\ NoProbe \in [key : Keys, result : SUBSET TIDs]
<1>1. WriteOp # {}
  <2>1. PICK k \in Keys, t \in TIDs : TRUE
    BY DomainAssumption
  <2>2. [op |-> "INSERT", key |-> k, tid |-> t] \in WriteOp
    BY DEF WriteOp
  <2>3. QED
    BY <2>2
<1>2. (CHOOSE op \in WriteOp : TRUE) \in WriteOp
  BY <1>1
<1>3. QED
  BY <1>2 DEF NoWrite, NoProbe, WriteOp

(* A set of keys has a size. *)
LEMMA KeysFinite == ASSUME NEW K \in SUBSET Keys PROVE Cardinality(K) \in Nat
BY DomainAssumption, FS_Subset, FS_CardinalityType

LEMMA BitsType == ASSUME NEW K \in SUBSET Keys, NEW s PROVE BitsOf(K, s) \in SUBSET Positions
BY ParametersAssumption DEF BitsOf

-----------------------------------------------------------------------------
(* The initial states. *)

LEMMA InitType == Init => TypeOK
<1> SUFFICES ASSUME Init PROVE TypeOK
  OBVIOUS
<1> USE DEF Init
<1>1. bloom \in [Shards -> SUBSET Positions]
  BY BitsType DEF LiveKeys
<1>2. total \in Nat
  <2> DEFINE R == {r \in Keys \X TIDs : r[2] \in Relation[r[1]]}
  <2>1. IsFiniteSet(Keys \X TIDs)
    BY DomainAssumption, FS_Product
  <2>2. IsFiniteSet(R)
    BY <2>1, FS_Subset
  <2>3. QED
    BY <2>2, FS_CardinalityType
<1>3. list \in [Keys -> SUBSET TIDs] /\ cache \in [Slots -> Keys \cup {NullKey}]
  BY ParametersAssumption
<1>4. probe \in [Probers -> [key : Keys, result : SUBSET TIDs]]
  BY LocalsType
<1>5. write \in [Writers -> [op : WriteOp, count : Nat, live : SUBSET Keys, at : Nat]]
  BY LocalsType
<1>6. todo \in [Probers -> 0 .. MaxProbes] /\ written \in 0 .. MaxWrites
  BY ParametersAssumption
<1>7. pc \in [Threads -> {"idle", "cache", "lookup", "fill", "return", "list", "clear", "count",
                          "check", "delete", "ratio", "claim", "lock", "snapshot", "shard",
                          "reset", "total", "finish", "unlock"}]
  OBVIOUS
<1>8. QED
  BY <1>1, <1>2, <1>3, <1>4, <1>5, <1>6, <1>7 DEF TypeOK

LEMMA InitInv == Init => Inv
<1> SUFFICES ASSUME Init PROVE Inv
  OBVIOUS
<1>1. TypeOK
  BY InitType
<1>2. \A w \in Writers : pc[w] = "idle"
  BY DEF Init, Threads
<1>3. OpOK
  BY <1>2 DEF OpOK, Rebuilding
<1>4. Exclusive
  BY <1>2 DEF Init, Exclusive, Working, Rebuilding
<1>5. FilterOK
  <2> SUFFICES ASSUME NEW k \in Keys, Coming(k) PROVE Present(k)
    BY <1>2 DEF FilterOK
  <2>1. k \in LiveKeys
    BY <1>2 DEF Coming, LiveKeys
  <2>2. Hash[k] \subseteq BitsOf(LiveKeys, ShardOf(k))
    BY <2>1 DEF BitsOf
  <2>3. bloom[ShardOf(k)] = BitsOf(LiveKeys, ShardOf(k))
    BY ShardType DEF Init
  <2>4. QED
    BY <2>2, <2>3 DEF Present
<1>6. CacheOK
  BY SlotType, ParametersAssumption DEF Init, CacheOK, CacheHidesLate, LiveKeys
<1>7. SureOK
  BY DEF Init, SureOK
<1>8. QED
  BY <1>1, <1>3, <1>4, <1>5, <1>6, <1>7 DEF Inv, Base

-----------------------------------------------------------------------------
(* Every step keeps the types. *)

LEMMA StepType ==
  ASSUME Base, Next
  PROVE  TypeOK'
<1> USE DEF Base, TypeOK, Goto, Threads, filters, caches, counters, probing
<1>1. ASSUME NEW p \in Probers, ProbeFilter(p) PROVE TypeOK'
  <2>1. PICK k \in Keys :
          /\ todo[p] > 0
          /\ Goto(p, "idle", IF Present(k) THEN "cache" ELSE "return")
          /\ todo' = [todo EXCEPT ![p] = @ - 1]
          /\ probe' = [probe EXCEPT ![p].key = k]
          /\ sure' = IF list[k] # {} /\ ~ Inserting(k) THEN sure \cup {p} ELSE sure
          /\ UNCHANGED <<list, filters, caches, counters, rebuilding, lock, written, write>>
    BY <1>1 DEF ProbeFilter
  <2>2. todo[p] - 1 \in 0 .. MaxProbes
    BY <2>1, ParametersAssumption
  <2>3. todo' \in [Probers -> 0 .. MaxProbes]
    BY <2>1, <2>2
  <2>4. pc' \in [Threads -> {"idle", "cache", "lookup", "fill", "return", "list", "clear",
                             "count", "check", "delete", "ratio", "claim", "lock", "snapshot",
                             "shard", "reset", "total", "finish", "unlock"}]
    BY <2>1
  <2>5. sure' \in SUBSET Probers
    BY <2>1
  <2>6. probe' \in [Probers -> [key : Keys, result : SUBSET TIDs]]
    BY <2>1
  <2>7. QED
    BY <2>1, <2>3, <2>4, <2>5, <2>6
<1>2. ASSUME NEW p \in Probers, ProbeCache(p) PROVE TypeOK'
  BY <1>2 DEF ProbeCache
<1>3. ASSUME NEW p \in Probers, ProbeList(p) PROVE TypeOK'
  BY <1>3 DEF ProbeList
<1>4. ASSUME NEW p \in Probers, ProbeFill(p) PROVE TypeOK'
  BY <1>4 DEF ProbeFill
<1>5. ASSUME NEW p \in Probers, ProbeReturn(p) PROVE TypeOK'
  BY <1>5, LocalsType DEF ProbeReturn
<1>6. ASSUME NEW w \in Writers, NEW op \in WriteOp, Begin(w, op)
      PROVE  /\ written' \in 0 .. MaxWrites
             /\ write' \in [Writers -> [op : WriteOp, count : Nat, live : SUBSET Keys, at : Nat]]
  BY <1>6, LocalsType, ParametersAssumption DEF Begin
<1>7. ASSUME NEW w \in Writers, Finish(w)
      PROVE  write' \in [Writers -> [op : WriteOp, count : Nat, live : SUBSET Keys, at : Nat]]
  BY <1>7, LocalsType DEF Finish
<1>8. ASSUME NEW w \in Writers, ClearSlot(w) PROVE TypeOK'
  <2>1. write[w].at \in Nat /\ write[w].at + 1 \in Nat
    OBVIOUS
  <2>2. write' \in [Writers -> [op : WriteOp, count : Nat, live : SUBSET Keys, at : Nat]]
    <3>1. \A n \in Nat : [write[w] EXCEPT !.at = n]
                             \in [op : WriteOp, count : Nat, live : SUBSET Keys, at : Nat]
      OBVIOUS
    <3>2. PICK n \in Nat : write' = [write EXCEPT ![w] = [write[w] EXCEPT !.at = n]]
      BY <1>8, <2>1 DEF ClearSlot, ClearUpTo
    <3>3. QED
      BY <3>1, <3>2
  <2>3. cache' \in [Slots -> Keys \cup {NullKey}] /\ late' \in SUBSET Keys
    BY <1>8 DEF ClearSlot, ClearUpTo
  <2>4. QED
    BY <1>8, <2>2, <2>3 DEF ClearSlot, ClearUpTo
<1>9. ASSUME NEW w \in Writers, InsertFilter(w) PROVE TypeOK'
  <2>1. PICK op \in WriteOp :
          LET k == op.key IN
          /\ Begin(w, op)
          /\ Goto(w, "idle", "list")
          /\ bloom' = [bloom EXCEPT ![ShardOf(k)] = @ \cup Hash[k]]
          /\ overlapped' = IF Window(ShardOf(k)) THEN overlapped \cup {k} ELSE overlapped \ {k}
          /\ UNCHANGED <<list, caches, counters, rebuilding, lock, probing, sure>>
    BY <1>9 DEF InsertFilter
  <2>2. op.key \in Keys
    BY DEF WriteOp
  <2>3. bloom' \in [Shards -> SUBSET Positions]
    BY <2>1, <2>2, ParametersAssumption
  <2>4. overlapped' \in SUBSET Keys
    BY <2>1, <2>2
  <2>5. QED
    BY <1>6, <2>1, <2>3, <2>4
<1>10. ASSUME NEW w \in Writers, InsertList(w) PROVE TypeOK'
  BY <1>10 DEF InsertList, WriteOp
<1>11. ASSUME NEW w \in Writers, InsertCount(w) PROVE TypeOK'
  BY <1>11, LocalsType DEF InsertCount
<1>12. ASSUME NEW w \in Writers, RemoveList(w) PROVE TypeOK'
  <2>1. PICK op \in WriteOp :
          /\ Begin(w, op)
          /\ Goto(w, "idle", "check")
          /\ list' = [list EXCEPT ![op.key] = @ \ {op.tid}]
          /\ sure' = {p \in sure : probe[p].key \in {k \in Keys : list'[k] # {}}}
          /\ UNCHANGED <<filters, caches, counters, rebuilding, lock, probing>>
    BY <1>12 DEF RemoveList
  <2>2. QED
    BY <1>6, <2>1
<1>13. ASSUME NEW w \in Writers, RemoveCheck(w) PROVE TypeOK'
  BY <1>7, <1>13 DEF RemoveCheck
<1>14. ASSUME NEW w \in Writers, RemoveCount(w) PROVE TypeOK'
  <2>1. deletes' \in Nat
    BY <1>14 DEF RemoveCount
  <2>2. write' \in [Writers -> [op : WriteOp, count : Nat, live : SUBSET Keys, at : Nat]]
    <3>1. \A c \in Nat : [write[w] EXCEPT !.count = c]
                             \in [op : WriteOp, count : Nat, live : SUBSET Keys, at : Nat]
      OBVIOUS
    <3>2. write' = [write EXCEPT ![w] = [write[w] EXCEPT !.count = deletes']]
      BY <1>14 DEF RemoveCount
    <3>3. QED
      BY <2>1, <3>1, <3>2
  <2>3. QED
    BY <1>14, <2>1, <2>2 DEF RemoveCount
<1>15. ASSUME NEW w \in Writers, RemoveRatio(w) PROVE TypeOK'
  BY <1>7, <1>15 DEF RemoveRatio
<1>16. ASSUME NEW w \in Writers, RebuildClaim(w) PROVE TypeOK'
  BY <1>7, <1>16 DEF RebuildClaim
<1>17. ASSUME NEW w \in Writers, RebuildLock(w) PROVE TypeOK'
  BY <1>17 DEF RebuildLock
<1>18. ASSUME NEW w \in Writers, RebuildSnapshot(w) PROVE TypeOK'
  <2>1. overlapped' \in SUBSET Keys
    BY <1>18 DEF RebuildSnapshot, Snapshot, WriteOp
  <2>2. LiveKeys \in SUBSET Keys
    BY DEF LiveKeys
  <2>3. QED
    BY <1>18, <2>1, <2>2, SMTT(40) DEF RebuildSnapshot, Snapshot
<1>19. ASSUME NEW w \in Writers, RebuildShard(w) PROVE TypeOK'
  <2>1. BitsOf(write[w].live, write[w].at) \in SUBSET Positions
    BY BitsType
  <2>2. QED
    <3>1. write[w].at + 1 \in Nat
      OBVIOUS
    <3>2. write' \in [Writers -> [op : WriteOp, count : Nat, live : SUBSET Keys, at : Nat]]
      BY <1>19, <3>1 DEF RebuildShard
    <3>3. overlapped' \in SUBSET Keys /\ bloom' \in [Shards -> SUBSET Positions]
      BY <1>19, <2>1 DEF RebuildShard
    <3>4. QED
      BY <1>19, <3>2, <3>3 DEF RebuildShard
<1>20. ASSUME NEW w \in Writers, RebuildReset(w) PROVE TypeOK'
  BY <1>20 DEF RebuildReset
<1>21. ASSUME NEW w \in Writers, RebuildTotal(w) PROVE TypeOK'
  BY <1>21, KeysFinite DEF RebuildTotal
<1>22. ASSUME NEW w \in Writers, RebuildFinish(w) PROVE TypeOK'
  BY <1>22 DEF RebuildFinish
<1>23. ASSUME NEW w \in Writers, RebuildUnlock(w) PROVE TypeOK'
  BY <1>7, <1>23 DEF RebuildUnlock
<1>24. CASE Terminated
  BY <1>24 DEF Terminated, vars
<1>25. QED
  BY <1>1, <1>2, <1>3, <1>4, <1>5, <1>8, <1>9, <1>10, <1>11, <1>12, <1>13, <1>14, <1>15,
     <1>16, <1>17, <1>18, <1>19, <1>20, <1>21, <1>22, <1>23, <1>24
  DEF Next, Prober, Writer, Insert, Remove, Rebuild

-----------------------------------------------------------------------------
(* What the steps of one thread leave alone. *)

LEMMA ProberFrame ==
  ASSUME TypeOK, NEW p \in Probers, Prober(p)
  PROVE  /\ UNCHANGED <<list, filters, counters, rebuilding, lock, write>>
         /\ \A w \in Writers : pc'[w] = pc[w]
         /\ \A q \in Probers \ {p} : pc'[q] = pc[q] /\ probe'[q] = probe[q]
<1> USE ThreadsAssumption DEF TypeOK, Goto, Threads, filters, counters
<1>1. CASE ProbeFilter(p)
  BY <1>1 DEF ProbeFilter
<1>2. CASE ProbeCache(p)
  BY <1>2 DEF ProbeCache, probing
<1>3. CASE ProbeList(p)
  BY <1>3 DEF ProbeList
<1>4. CASE ProbeFill(p)
  BY <1>4 DEF ProbeFill, probing
<1>5. CASE ProbeReturn(p)
  BY <1>5 DEF ProbeReturn
<1>6. QED
  BY <1>1, <1>2, <1>3, <1>4, <1>5 DEF Prober

LEMMA WriterFrame ==
  ASSUME TypeOK, NEW w \in Writers, Writer(w)
  PROVE  /\ UNCHANGED probing
         /\ \A v \in Writers \ {w} : pc'[v] = pc[v] /\ write'[v] = write[v]
         /\ \A p \in Probers : pc'[p] = pc[p]
<1> USE ThreadsAssumption DEF TypeOK, Goto, Threads, Begin, Finish
<1>1. CASE InsertFilter(w)
  BY <1>1 DEF InsertFilter
<1>2. CASE InsertList(w) \/ InsertCount(w)
  BY <1>2 DEF InsertList, InsertCount
<1>3. CASE RemoveList(w)
  BY <1>3 DEF RemoveList
<1>4. CASE RemoveCheck(w) \/ RemoveCount(w) \/ RemoveRatio(w)
  BY <1>4 DEF RemoveCheck, RemoveCount, RemoveRatio
<1>5. CASE ClearSlot(w)
  BY <1>5 DEF ClearSlot, ClearUpTo
<1>6. CASE RebuildClaim(w) \/ RebuildLock(w)
  BY <1>6 DEF RebuildClaim, RebuildLock
<1>7. CASE RebuildSnapshot(w) \/ RebuildShard(w)
  BY <1>7 DEF RebuildSnapshot, Snapshot, RebuildShard
<1>8. CASE RebuildReset(w) \/ RebuildTotal(w) \/ RebuildFinish(w) \/ RebuildUnlock(w)
  BY <1>8 DEF RebuildReset, RebuildTotal, RebuildFinish, RebuildUnlock
<1>9. QED
  BY <1>1, <1>2, <1>3, <1>4, <1>5, <1>6, <1>7, <1>8 DEF Writer, Insert, Remove, Rebuild

-----------------------------------------------------------------------------
(* The flag excludes rebuilds. *)

LEMMA StepOp ==
  ASSUME Base, Next
  PROVE  OpOK'
<1> USE DEF Base, OpOK, Rebuilding
<1>1. ASSUME NEW p \in Probers, Prober(p) PROVE OpOK'
  BY <1>1, ProberFrame
<1>2. ASSUME NEW w \in Writers, Writer(w) PROVE OpOK'
  <2>1. ASSUME /\ pc'[w] = "list" => write'[w].op.op = "INSERT" /\ write'[w].at = 0
               /\ pc'[w] \in {"check", "delete", "ratio", "claim"} \cup Rebuilding
                      => write'[w].op.op = "DELETE"
        PROVE  OpOK'
    BY <1>2, <2>1, WriterFrame
  <2> USE DEF TypeOK, Goto, Threads, Begin, Finish, NoWrite, WriteOp
  <2>2. CASE InsertFilter(w)
    BY <2>1, <2>2 DEF InsertFilter
  <2>3. CASE InsertList(w)
    BY <2>1, <2>3 DEF InsertList
  <2>4. CASE InsertCount(w)
    BY <2>1, <2>4 DEF InsertCount
  <2>5. CASE RemoveList(w)
    BY <2>1, <2>5 DEF RemoveList
  <2>6. CASE RemoveCheck(w)
    BY <2>1, <2>6 DEF RemoveCheck
  <2>7. CASE RemoveCount(w)
    BY <2>1, <2>7 DEF RemoveCount
  <2>8. CASE RemoveRatio(w)
    BY <2>1, <2>8 DEF RemoveRatio
  <2>9. CASE ClearSlot(w)
    BY <2>1, <2>9 DEF ClearSlot, ClearUpTo
  <2>10. CASE RebuildClaim(w)
    BY <2>1, <2>10 DEF RebuildClaim
  <2>11. CASE RebuildLock(w)
    BY <2>1, <2>11 DEF RebuildLock
  <2>12. CASE RebuildSnapshot(w)
    BY <2>1, <2>12 DEF RebuildSnapshot, Snapshot
  <2>13. CASE RebuildShard(w)
    BY <2>1, <2>13 DEF RebuildShard
  <2>14. CASE RebuildReset(w)
    BY <2>1, <2>14 DEF RebuildReset
  <2>15. CASE RebuildTotal(w) \/ RebuildFinish(w) \/ RebuildUnlock(w)
    BY <2>1, <2>15 DEF RebuildTotal, RebuildFinish, RebuildUnlock
  <2>16. QED
    BY <1>2, <2>2, <2>3, <2>4, <2>5, <2>6, <2>7, <2>8, <2>9, <2>10, <2>11, <2>12,
       <2>13, <2>14, <2>15 DEF Writer, Insert, Remove, Rebuild
<1>3. CASE Terminated
  BY <1>3 DEF Terminated, vars
<1>4. QED
  BY <1>1, <1>2, <1>3 DEF Next

LEMMA StepExclusive ==
  ASSUME Base, Next
  PROVE  Exclusive'
<1> USE DEF Base, Working, Rebuilding
<1>1. ASSUME NEW p \in Probers, Prober(p) PROVE Exclusive'
  BY <1>1, ProberFrame DEF Exclusive
<1>2. ASSUME NEW w \in Writers, Writer(w) PROVE Exclusive'
  <2>0. \A v \in Writers \ {w} : Working(v)' <=> Working(v)
    BY <1>2, WriterFrame
  <2>1. ASSUME rebuilding' = rebuilding, Working(w)' <=> Working(w) PROVE Exclusive'
    <3> HIDE DEF Working
    <3>1. QED
      BY <2>0, <2>1 DEF Exclusive
  <2> USE DEF TypeOK, Goto, Threads, Begin, Finish, NoWrite, WriteOp
  <2>2. CASE InsertFilter(w)
    BY <2>1, <2>2 DEF InsertFilter
  <2>3. CASE InsertList(w)
    BY <2>1, <2>3 DEF InsertList, OpOK
  <2>4. CASE InsertCount(w)
    BY <2>1, <2>4 DEF InsertCount
  <2>5. CASE RemoveList(w)
    BY <2>1, <2>5 DEF RemoveList
  <2>6. CASE RemoveCheck(w)
    BY <2>1, <2>6 DEF RemoveCheck
  <2>7. CASE RemoveCount(w)
    BY <2>1, <2>7 DEF RemoveCount
  <2>8. CASE RemoveRatio(w)
    BY <2>1, <2>8 DEF RemoveRatio
  <2>9. CASE ClearSlot(w)
    BY <2>1, <2>9 DEF ClearSlot, ClearUpTo
  <2>10. CASE RebuildClaim(w)
    <3>1. CASE rebuilding
      BY <2>1, <2>10, <3>1 DEF RebuildClaim
    <3>2. CASE ~ rebuilding
      <4>1. rebuilding' = TRUE /\ pc'[w] = "lock"
        BY <2>10, <3>2 DEF RebuildClaim
      <4>2. Working(w)'
        BY <4>1
      <4> HIDE DEF Working
      <4>3. \A v \in Writers : ~ Working(v)
        BY <3>2 DEF Exclusive
      <4>4. QED
        BY <2>0, <4>1, <4>2, <4>3 DEF Exclusive
    <3>3. QED
      BY <3>1, <3>2
  <2>11. CASE RebuildLock(w)
    BY <2>1, <2>11 DEF RebuildLock
  <2>12. CASE RebuildSnapshot(w)
    BY <2>1, <2>12 DEF RebuildSnapshot, Snapshot
  <2>13. CASE RebuildShard(w)
    BY <2>1, <2>13 DEF RebuildShard
  <2>14. CASE RebuildReset(w)
    BY <2>1, <2>14 DEF RebuildReset
  <2>15. CASE RebuildTotal(w)
    BY <2>1, <2>15 DEF RebuildTotal, OpOK
  <2>16. CASE RebuildFinish(w)
    <3>1. rebuilding' = FALSE /\ pc'[w] = "unlock" /\ pc[w] = "finish"
      BY <2>16 DEF RebuildFinish
    <3>2. Working(w) /\ ~ Working(w)'
      BY <3>1
    <3> HIDE DEF Working
    <3>3. QED
      BY <2>0, <3>1, <3>2 DEF Exclusive
  <2>17. CASE RebuildUnlock(w)
    BY <2>1, <2>17 DEF RebuildUnlock
  <2>18. QED
    BY <1>2, <2>2, <2>3, <2>4, <2>5, <2>6, <2>7, <2>8, <2>9, <2>10, <2>11, <2>12,
       <2>13, <2>14, <2>15, <2>16, <2>17 DEF Writer, Insert, Remove, Rebuild
<1>3. CASE Terminated
  BY <1>3 DEF Terminated, vars, Exclusive
<1>4. QED
  BY <1>1, <1>2, <1>3 DEF Next

LEMMA StepBase ==
  ASSUME Base, Next
  PROVE  Base'
BY StepType, StepOp, StepExclusive DEF Base

-----------------------------------------------------------------------------
(* The filter. *)

LEMMA StepFilter ==
  ASSUME Base, FilterOK, Next
  PROVE  FilterOK'
<1> USE DEF Base
<1>1. ASSUME NEW p \in Probers, Prober(p) PROVE FilterOK'
  BY <1>1, ProberFrame DEF FilterOK, Coming, Present, filters
<1>2. ASSUME NEW w \in Writers, Writer(w) PROVE FilterOK'
  <2>0. \A v \in Writers \ {w} : pc'[v] = pc[v] /\ write'[v] = write[v]
    BY <1>2, WriterFrame
  <2> SUFFICES ASSUME NEW k \in Keys, k \notin overlapped', Coming(k)'
               PROVE  /\ Present(k)'
                      /\ \A v \in Writers : pc'[v] = "shard" /\ write'[v].at <= ShardOf(k)
                             => k \in write'[v].live
    BY DEF FilterOK
  <2> DEFINE Known(v) == pc[v] = "shard" /\ write[v].at <= ShardOf(k) => k \in write[v].live
  <2>1. Coming(k) /\ k \notin overlapped => Present(k) /\ \A v \in Writers : Known(v)
    BY DEF FilterOK
  <2>2. ASSUME UNCHANGED filters, Coming(k), pc'[w] # "shard"
        PROVE  /\ Present(k)'
               /\ \A v \in Writers : pc'[v] = "shard" /\ write'[v].at <= ShardOf(k)
                      => k \in write'[v].live
    BY <2>0, <2>1, <2>2 DEF filters, Present
  <2>3. ASSUME UNCHANGED list, pc'[w] # "list" PROVE Coming(k)
    BY <2>0, <2>3 DEF Coming
  <2> USE DEF TypeOK, Goto, Threads, Begin
  <2>4. CASE InsertFilter(w)
    <3>1. PICK op \in WriteOp :
            /\ Begin(w, op)
            /\ Goto(w, "idle", "list")
            /\ bloom' = [bloom EXCEPT ![ShardOf(op.key)] = @ \cup Hash[op.key]]
            /\ overlapped' = IF Window(ShardOf(op.key)) THEN overlapped \cup {op.key}
                                                        ELSE overlapped \ {op.key}
            /\ list' = list
      BY <2>4 DEF InsertFilter
    <3>2. op.key \in Keys /\ ShardOf(op.key) \in Shards /\ ShardOf(k) \in Shards
      BY ShardType DEF WriteOp
    <3>3. bloom[ShardOf(k)] \subseteq bloom'[ShardOf(k)]
      BY <3>1, <3>2
    <3>4. CASE k = op.key
      <4>1. Present(k)'
        BY <3>1, <3>2, <3>4 DEF Present
      <4>2. ~ Window(ShardOf(k))
        BY <3>1, <3>4
      <4>3. QED
        BY <2>0, <3>1, <4>1, <4>2 DEF Window
    <3>5. CASE k # op.key
      <4>1. Coming(k) /\ k \notin overlapped
        BY <2>0, <3>1, <3>5 DEF Coming, NoWrite
      <4>2. Present(k)'
        BY <2>1, <3>3, <4>1 DEF Present
      <4>3. QED
        BY <2>0, <2>1, <3>1, <4>1, <4>2
    <3>6. QED
      BY <3>4, <3>5
  <2>5. CASE InsertList(w)
    <3>1. pc'[w] = "clear" /\ Coming(k)
      BY <2>0, <2>5 DEF InsertList, Coming
    <3>2. QED
      BY <2>2, <2>5, <3>1 DEF InsertList
  <2>6. CASE RemoveList(w)
    <3>1. pc'[w] = "check" /\ Coming(k)
      <4>1. PICK op \in WriteOp : list' = [list EXCEPT ![op.key] = @ \ {op.tid}]
        BY <2>6 DEF RemoveList
      <4>2. list'[k] \subseteq list[k]
        BY <4>1
      <4>3. pc'[w] = "check"
        BY <2>6 DEF RemoveList
      <4>4. QED
        BY <2>0, <4>2, <4>3 DEF Coming
    <3>2. QED
      BY <2>2, <2>6, <3>1 DEF RemoveList
  <2>7. CASE InsertCount(w)
    BY <2>2, <2>3, <2>7 DEF InsertCount
  <2>8. CASE RemoveCheck(w) \/ RemoveCount(w) \/ RemoveRatio(w)
    BY <2>2, <2>3, <2>8 DEF RemoveCheck, RemoveCount, RemoveRatio
  <2>9. CASE ClearSlot(w)
    BY <2>2, <2>3, <2>9 DEF ClearSlot, ClearUpTo
  <2>10. CASE RebuildClaim(w) \/ RebuildLock(w)
    BY <2>2, <2>3, <2>10 DEF RebuildClaim, RebuildLock
  <2>11. CASE RebuildSnapshot(w)
    <3>1. list' = list /\ bloom' = bloom /\ pc[w] = "snapshot" /\ pc'[w] = "shard"
      BY <2>11 DEF RebuildSnapshot, Snapshot
    <3>2. Coming(k) /\ k \notin overlapped
      BY <2>3, <2>11, <3>1 DEF RebuildSnapshot, Snapshot
    <3>3. k \in LiveKeys
      BY <2>0, <2>11, <3>1, <3>2 DEF RebuildSnapshot, Snapshot, Coming, LiveKeys
    <3>4. k \in write'[w].live
      BY <2>11, <3>3 DEF RebuildSnapshot, Snapshot
    <3>5. QED
      BY <2>0, <2>1, <3>1, <3>2, <3>4 DEF Present
  <2>12. CASE RebuildShard(w)
    <3> DEFINE s == write[w].at
    <3>1. /\ list' = list /\ pc[w] = "shard" /\ pc'[w] \in {"shard", "reset"}
          /\ bloom' = [bloom EXCEPT ![s] = BitsOf(write[w].live, s)]
          /\ overlapped' = overlapped \ {j \in write[w].live : ShardOf(j) = s}
          /\ write'[w].live = write[w].live
          /\ pc'[w] = "shard" => write'[w].at = s + 1
      BY <2>12 DEF RebuildShard
    <3>2. Coming(k)
      BY <2>3, <3>1
    <3>3. \A v \in Writers \ {w} : pc'[v] # "shard"
      <4>1. Working(w)
        BY <3>1 DEF Working, Rebuilding
      <4>2. \A v \in Writers : pc[v] = "shard" => Working(v)
        BY DEF Working, Rebuilding
      <4>3. QED
        BY <2>0, <4>1, <4>2 DEF Exclusive
    <3>4. ShardOf(k) \in Shards /\ ShardOf(k) \in Int /\ s \in Nat
      BY ShardType DEF Shards
    <3>5. CASE ShardOf(k) = s
      <4>1. k \in write[w].live
        BY <2>1, <3>1, <3>2, <3>4, <3>5
      <4>2. Hash[k] \subseteq BitsOf(write[w].live, s)
        BY <3>5, <4>1 DEF BitsOf
      <4>3. Present(k)'
        BY <3>1, <3>4, <3>5, <4>2 DEF Present
      <4>4. QED
        BY <3>1, <3>3, <4>1, <4>3
    <3>6. CASE ShardOf(k) # s
      <4>1. k \notin overlapped
        BY <3>1, <3>6
      <4>2. Present(k)' <=> Present(k)
        BY <3>1, <3>4, <3>6 DEF Present
      <4>3. write'[w].at <= ShardOf(k) /\ pc'[w] = "shard" => write[w].at <= ShardOf(k)
        BY <3>1, <3>4
      <4>4. QED
        BY <2>1, <3>1, <3>2, <3>3, <4>1, <4>2, <4>3
    <3>7. QED
      BY <3>5, <3>6
  <2>13. CASE RebuildReset(w) \/ RebuildTotal(w) \/ RebuildFinish(w) \/ RebuildUnlock(w)
    BY <2>2, <2>3, <2>13 DEF RebuildReset, RebuildTotal, RebuildFinish, RebuildUnlock
  <2>14. QED
    BY <1>2, <2>4, <2>5, <2>6, <2>7, <2>8, <2>9, <2>10, <2>11, <2>12, <2>13
    DEF Writer, Insert, Remove, Rebuild
<1>3. CASE Terminated
  BY <1>3 DEF Terminated, vars, filters, FilterOK, Coming, Present
<1>4. QED
  BY <1>1, <1>2, <1>3 DEF Next

-----------------------------------------------------------------------------
(* The cache. *)

LEMMA StepCache ==
  ASSUME Base, CacheOK, Next
  PROVE  CacheOK'
<1> USE DEF Base
<1> SUFFICES ASSUME NEW k \in Keys, list'[k] # {}, cache'[SlotOf(k)] = k
             PROVE  k \in late' \/ Inserting(k)'
  BY DEF CacheOK, CacheHidesLate, LiveKeys
<1>0. SlotOf(k) \in Slots /\ SlotOf(k) \in Nat
  BY SlotType DEF Slots
<1>1. list[k] # {} /\ cache[SlotOf(k)] = k => k \in late \/ Inserting(k)
  BY DEF CacheOK, CacheHidesLate, LiveKeys
<1>2. ASSUME NEW p \in Probers, Prober(p) PROVE k \in late' \/ Inserting(k)'
  <2>1. list' = list /\ (Inserting(k)' <=> Inserting(k))
    BY <1>2, ProberFrame DEF Inserting, Clearing
  <2>2. ASSUME UNCHANGED caches PROVE k \in late' \/ Inserting(k)'
    BY <1>1, <2>1, <2>2 DEF caches
  <2>3. CASE ProbeFill(p)
    <3> DEFINE j == probe[p].key
    <3>1. /\ cache' = [cache EXCEPT ![SlotOf(j)] = j]
          /\ late' = {i \in late : SlotOf(i) # SlotOf(j)} \cup {i \in {j} : list[i] # {}}
      BY <2>3 DEF ProbeFill
    <3>2. CASE SlotOf(k) = SlotOf(j)
      BY <1>0, <2>1, <3>1, <3>2 DEF TypeOK
    <3>3. CASE SlotOf(k) # SlotOf(j)
      <4>1. cache[SlotOf(k)] = k
        BY <1>0, <3>1, <3>3 DEF TypeOK
      <4>2. k \in late' <=> k \in late
        BY <3>1, <3>3
      <4>3. QED
        BY <1>1, <2>1, <4>1, <4>2
    <3>4. QED
      BY <3>2, <3>3
  <2>4. QED
    BY <1>2, <2>2, <2>3 DEF Prober, ProbeFilter, ProbeCache, ProbeList, ProbeReturn
<1>3. ASSUME NEW w \in Writers, Writer(w) PROVE k \in late' \/ Inserting(k)'
  <2>0. \A v \in Writers \ {w} : pc'[v] = pc[v] /\ write'[v] = write[v]
    BY <1>3, WriterFrame
  <2> DEFINE Mine == /\ Clearing(w) /\ write[w].op.key = k
                     /\ pc[w] = "clear" => write[w].at <= SlotOf(k)
  <2>1. ASSUME Mine => Mine' PROVE Inserting(k) => Inserting(k)'
    BY <2>0, <2>1 DEF Inserting, Clearing
  <2>2. ASSUME UNCHANGED caches, list'[k] \subseteq list[k], pc[w] \notin {"list", "clear"}
        PROVE  k \in late' \/ Inserting(k)'
    <3>1. Mine => Mine'
      BY <2>2 DEF Clearing
    <3>2. list[k] # {}
      BY <2>2
    <3>3. QED
      BY <1>1, <2>1, <2>2, <3>1, <3>2 DEF caches
  <2> USE DEF TypeOK, Goto, Threads
  <2>3. CASE InsertFilter(w)
    BY <2>2, <2>3 DEF InsertFilter
  <2>4. CASE InsertList(w)
    <3> DEFINE op == write[w].op
    <3>1. /\ pc[w] = "list" /\ pc'[w] = "clear" /\ write' = write /\ UNCHANGED caches
          /\ list' = [list EXCEPT ![op.key] = @ \cup {op.tid}]
      BY <2>4 DEF InsertList
    <3>2. write[w].at = 0 /\ op.op = "INSERT"
      BY <3>1 DEF OpOK
    <3>3. CASE op.key = k
      <4>1. Clearing(w)'
        BY <3>1, <3>2 DEF Clearing
      <4>2. write'[w].at <= SlotOf(k)
        BY <1>0, <3>1, <3>2
      <4>3. QED
        BY <3>1, <3>3, <4>1, <4>2 DEF Inserting
    <3>4. CASE op.key # k
      <4>1. list'[k] = list[k]
        BY <3>1, <3>4
      <4>2. Mine => Mine'
        BY <3>4
      <4>3. QED
        BY <1>1, <2>1, <3>1, <4>1, <4>2 DEF caches
    <3>5. QED
      BY <3>3, <3>4
  <2>5. CASE InsertCount(w)
    BY <2>2, <2>5 DEF InsertCount
  <2>6. CASE RemoveList(w)
    <3>1. PICK op \in WriteOp : list' = [list EXCEPT ![op.key] = @ \ {op.tid}]
      BY <2>6 DEF RemoveList
    <3>2. list'[k] \subseteq list[k]
      BY <3>1
    <3>3. QED
      BY <2>2, <2>6, <3>2 DEF RemoveList
  <2>7. CASE RemoveCheck(w) \/ RemoveCount(w) \/ RemoveRatio(w)
    BY <2>2, <2>7 DEF RemoveCheck, RemoveCount, RemoveRatio
  <2>8. CASE ClearSlot(w)
    <3> DEFINE i == write[w].at
    <3>1. /\ pc[w] = "clear" /\ list' = list
          /\ cache' = [cache EXCEPT ![i] = NullKey]
          /\ late' = {j \in late : SlotOf(j) # i}
          /\ write'[w].op = write[w].op
          /\ \/ i < NumSlots - 1 /\ pc'[w] = "clear" /\ write'[w].at = i + 1
             \/ i >= NumSlots - 1
      BY <2>8, ParametersAssumption DEF ClearSlot, ClearUpTo
    <3>2. SlotOf(k) # i
      BY <1>0, <3>1, ParametersAssumption
    <3>3. cache[SlotOf(k)] = k /\ (k \in late' <=> k \in late)
      BY <1>0, <3>1, <3>2
    <3>4. Mine => Mine'
      <4> SUFFICES ASSUME Mine PROVE Mine'
        OBVIOUS
      <4>1. i < SlotOf(k) /\ SlotOf(k) <= NumSlots - 1
        BY <1>0, <3>1, <3>2, ParametersAssumption DEF Slots
      <4>2. pc'[w] = "clear" /\ write'[w].at = i + 1 /\ i + 1 <= SlotOf(k)
        BY <1>0, <3>1, <4>1, ParametersAssumption
      <4>3. QED
        BY <3>1, <4>2 DEF Clearing
    <3>5. QED
      BY <1>1, <2>1, <3>1, <3>3, <3>4
  <2>9. CASE RebuildClaim(w) \/ RebuildLock(w)
    BY <2>2, <2>9 DEF RebuildClaim, RebuildLock
  <2>10. CASE RebuildSnapshot(w) \/ RebuildShard(w)
    BY <2>2, <2>10 DEF RebuildSnapshot, Snapshot, RebuildShard
  <2>11. CASE RebuildReset(w) \/ RebuildTotal(w) \/ RebuildFinish(w) \/ RebuildUnlock(w)
    BY <2>2, <2>11 DEF RebuildReset, RebuildTotal, RebuildFinish, RebuildUnlock
  <2>12. QED
    BY <1>3, <2>3, <2>4, <2>5, <2>6, <2>7, <2>8, <2>9, <2>10, <2>11
    DEF Writer, Insert, Remove, Rebuild
<1>4. CASE Terminated
  BY <1>1, <1>4 DEF Terminated, vars, caches, Inserting, Clearing
<1>5. QED
  BY <1>2, <1>3, <1>4 DEF Next

-----------------------------------------------------------------------------
(* The probes of a key that stays live. *)

LEMMA StepSure ==
  ASSUME Base, CacheOK, SureOK, Next
  PROVE  SureOK'
<1> USE DEF Base
<1> SUFFICES ASSUME NEW p \in sure'
             PROVE  /\ pc'[p] \in {"cache", "lookup", "return"}
                    /\ list'[probe'[p].key] # {}
                    /\ cache'[SlotOf(probe'[p].key)] = probe'[p].key => probe'[p].key \in late'
  BY DEF SureOK
<1>0. p \in Probers
  BY StepType DEF TypeOK
<1> DEFINE k == probe[p].key
<1>1. k \in Keys /\ SlotOf(k) \in Slots
  BY <1>0, SlotType DEF TypeOK
<1>2. p \in sure => /\ pc[p] \in {"cache", "lookup", "return"}
                    /\ list[k] # {}
                    /\ cache[SlotOf(k)] = k => k \in late
  BY DEF SureOK
<1>3. ASSUME NEW q \in Probers, Prober(q)
      PROVE  /\ pc'[p] \in {"cache", "lookup", "return"}
             /\ list'[probe'[p].key] # {}
             /\ cache'[SlotOf(probe'[p].key)] = probe'[p].key => probe'[p].key \in late'
  <2>0. list' = list /\ (p # q => pc'[p] = pc[p] /\ probe'[p] = probe[p])
    BY <1>0, <1>3, ProberFrame
  <2> USE DEF TypeOK, Goto, Threads
  <2>1. CASE ProbeFilter(q)
    <3>1. PICK j \in Keys :
            /\ pc[q] = "idle"
            /\ pc'[q] \in {"cache", "return"}
            /\ probe'[q].key = j
            /\ sure' = IF list[j] # {} /\ ~ Inserting(j) THEN sure \cup {q} ELSE sure
            /\ UNCHANGED caches
      BY <2>1 DEF ProbeFilter
    <3>2. CASE p = q
      <4>1. list[j] # {} /\ ~ Inserting(j)
        BY <1>2, <3>1, <3>2
      <4>2. cache[SlotOf(j)] = j => j \in late
        BY <4>1 DEF CacheOK, CacheHidesLate, LiveKeys
      <4>3. QED
        BY <2>0, <3>1, <3>2, <4>1, <4>2 DEF caches
    <3>3. CASE p # q
      BY <1>2, <2>0, <3>1, <3>3 DEF caches
    <3>4. QED
      BY <3>2, <3>3
  <2>2. CASE ProbeCache(q)
    BY <1>0, <1>2, <2>0, <2>2 DEF ProbeCache, caches, probing
  <2>3. CASE ProbeList(q)
    BY <1>0, <1>2, <2>0, <2>3 DEF ProbeList, caches
  <2>4. CASE ProbeFill(q)
    <3> DEFINE j == probe[q].key
    <3>1. /\ cache' = [cache EXCEPT ![SlotOf(j)] = j]
          /\ late' = {i \in late : SlotOf(i) # SlotOf(j)} \cup {i \in {j} : list[i] # {}}
          /\ sure' = sure /\ probe' = probe /\ pc[q] = "fill"
      BY <2>4 DEF ProbeFill, probing
    <3>2. p \in sure /\ p # q
      BY <1>2, <3>1
    <3>3. cache'[SlotOf(k)] = k => k \in late'
      <4>1. CASE SlotOf(k) = SlotOf(j)
        BY <1>1, <1>2, <3>1, <3>2, <4>1
      <4>2. CASE SlotOf(k) # SlotOf(j)
        BY <1>1, <1>2, <3>1, <3>2, <4>2
      <4>3. QED
        BY <4>1, <4>2
    <3>4. QED
      BY <1>2, <2>0, <3>1, <3>2, <3>3
  <2>5. CASE ProbeReturn(q)
    BY <1>2, <2>0, <2>5 DEF ProbeReturn, caches
  <2>6. QED
    BY <1>3, <2>1, <2>2, <2>3, <2>4, <2>5 DEF Prober
<1>4. ASSUME NEW w \in Writers, Writer(w)
      PROVE  /\ pc'[p] \in {"cache", "lookup", "return"}
             /\ list'[probe'[p].key] # {}
             /\ cache'[SlotOf(probe'[p].key)] = probe'[p].key => probe'[p].key \in late'
  <2>0. probe' = probe /\ pc'[p] = pc[p]
    BY <1>0, <1>4, WriterFrame DEF probing
  <2>1. ASSUME UNCHANGED <<caches, list, sure>>
        PROVE  /\ pc'[p] \in {"cache", "lookup", "return"}
               /\ list'[probe'[p].key] # {}
               /\ cache'[SlotOf(probe'[p].key)] = probe'[p].key => probe'[p].key \in late'
    BY <1>2, <2>0, <2>1 DEF caches
  <2>2. CASE InsertFilter(w)
    BY <2>1, <2>2 DEF InsertFilter
  <2>3. CASE InsertList(w)
    <3>1. list[k] \subseteq list'[k] /\ UNCHANGED <<caches, sure>>
      BY <1>1, <2>3 DEF InsertList, TypeOK
    <3>2. QED
      BY <1>2, <2>0, <3>1 DEF caches
  <2>4. CASE InsertCount(w)
    BY <2>1, <2>4 DEF InsertCount
  <2>5. CASE RemoveList(w)
    BY <1>2, <2>0, <2>5 DEF RemoveList, caches
  <2>6. CASE RemoveCheck(w) \/ RemoveCount(w) \/ RemoveRatio(w)
    BY <2>1, <2>6 DEF RemoveCheck, RemoveCount, RemoveRatio
  <2>7. CASE ClearSlot(w)
    <3> DEFINE i == write[w].at
    <3>1. /\ cache' = [cache EXCEPT ![i] = NullKey] /\ late' = {j \in late : SlotOf(j) # i}
          /\ list' = list /\ sure' = sure
      BY <2>7 DEF ClearSlot, ClearUpTo
    <3>2. cache'[SlotOf(k)] = k => SlotOf(k) # i /\ cache[SlotOf(k)] = k
      BY <1>1, <3>1, ParametersAssumption DEF TypeOK
    <3>3. QED
      BY <1>1, <1>2, <2>0, <3>1, <3>2
  <2>8. CASE RebuildClaim(w) \/ RebuildLock(w)
    BY <2>1, <2>8 DEF RebuildClaim, RebuildLock
  <2>9. CASE RebuildSnapshot(w) \/ RebuildShard(w)
    BY <2>1, <2>9 DEF RebuildSnapshot, Snapshot, RebuildShard
  <2>10. CASE RebuildReset(w) \/ RebuildTotal(w) \/ RebuildFinish(w) \/ RebuildUnlock(w)
    BY <2>1, <2>10 DEF RebuildReset, RebuildTotal, RebuildFinish, RebuildUnlock
  <2>11. QED
    BY <1>4, <2>2, <2>3, <2>4, <2>5, <2>6, <2>7, <2>8, <2>9, <2>10
    DEF Writer, Insert, Remove, Rebuild
<1>5. CASE Terminated
  BY <1>2, <1>5 DEF Terminated, vars, caches, probing
<1>6. QED
  BY <1>3, <1>4, <1>5 DEF Next

-----------------------------------------------------------------------------
(* The invariant, and what follows from it. *)

LEMMA StepInv == Inv /\ [Next]_vars => Inv'
<1> SUFFICES ASSUME Inv, [Next]_vars PROVE Inv'
  OBVIOUS
<1>1. CASE Next
  BY <1>1, StepBase, StepFilter, StepCache, StepSure DEF Inv
<1>2. CASE UNCHANGED vars
  <2>2. Base'
    BY <1>2 DEF Inv, Base, TypeOK, OpOK, Exclusive, Working, vars, filters, caches, counters, probing
  <2>3. FilterOK'
    BY <1>2 DEF Inv, FilterOK, Coming, Present, vars, filters
  <2>4. CacheOK'
    BY <1>2 DEF Inv, CacheOK, CacheHidesLate, LiveKeys, Inserting, Clearing, vars, caches
  <2>5. SureOK'
    BY <1>2 DEF Inv, SureOK, vars, caches, probing
  <2>6. QED
    BY <2>2, <2>3, <2>4, <2>5 DEF Inv
<1>3. QED
  BY <1>1, <1>2

LEMMA Invariance == Spec => []Inv
BY InitInv, StepInv, PTL DEF Spec

(* A probe whose key stays live and that returns a miss was kept from the list
   by the filter or by the cache. *)
LEMMA MissStep ==
  ASSUME Inv, [Next]_vars, NEW p \in sure',
         pc[p] # "return", pc'[p] = "return", probe'[p].result = {}
  PROVE  probe'[p].key \in overlapped \cup late
<1> USE DEF Inv, Base
<1>1. Next
  BY DEF vars
<1>2. p \in Probers
  BY <1>1, StepType DEF TypeOK
<1>3. ASSUME NEW w \in Writers, Writer(w) PROVE FALSE
  BY <1>2, <1>3, WriterFrame
<1>4. PICK q \in Probers : Prober(q)
  BY <1>1, <1>3 DEF Next, Terminated, vars
<1>5. p = q
  BY <1>2, <1>4, ProberFrame
<1> USE DEF TypeOK, Goto, Threads
<1>6. CASE ProbeFilter(p)
  <2>1. PICK k \in Keys :
          /\ pc[p] = "idle"
          /\ pc'[p] = IF Present(k) THEN "cache" ELSE "return"
          /\ probe'[p].key = k
          /\ sure' = IF list[k] # {} /\ ~ Inserting(k) THEN sure \cup {p} ELSE sure
    BY <1>2, <1>6 DEF ProbeFilter
  <2>2. list[k] # {} /\ ~ Present(k)
    BY <2>1 DEF SureOK
  <2>3. QED
    BY <2>1, <2>2 DEF FilterOK, Coming
<1>7. CASE ProbeCache(p)
  <2>1. /\ pc[p] = "cache" /\ sure' = sure /\ probe' = probe
        /\ cache[SlotOf(probe[p].key)] = probe[p].key
    BY <1>2, <1>7 DEF ProbeCache, probing
  <2>2. QED
    BY <2>1 DEF SureOK
<1>8. CASE ProbeList(p)
  <2>1. sure' = sure /\ probe'[p].result = list[probe[p].key]
    BY <1>2, <1>8 DEF ProbeList
  <2>2. QED
    BY <2>1 DEF SureOK
<1>9. CASE ProbeFill(p)
  <2>1. sure' = sure /\ pc[p] = "fill"
    BY <1>9 DEF ProbeFill
  <2>2. QED
    BY <2>1 DEF SureOK
<1>10. CASE ProbeReturn(p)
  BY <1>2, <1>10 DEF ProbeReturn
<1>11. QED
  BY <1>4, <1>5, <1>6, <1>7, <1>8, <1>9, <1>10 DEF Prober

-----------------------------------------------------------------------------
(* Every variable keeps its shape; above all the counters never wrap around
   when they are reset under the feet of a remove (bfcsi_index.cpp:127). *)
THEOREM TypeCorrect == Spec => []TypeOK
<1>1. Inv => TypeOK
  BY DEF Inv, Base
<1>2. QED
  BY <1>1, Invariance, PTL

(* The flag is set exactly while one writer rebuilds, whatever number of
   removes passes the ratio test at once (bfcsi_index.cpp:171). *)
THEOREM RebuildsAlone == Spec => []RebuildsExclude
<1>1. Inv => RebuildsExclude
  <2> SUFFICES ASSUME Inv PROVE RebuildsExclude
    OBVIOUS
  <2> DEFINE W == {w \in Writers : Working(w)}
  <2>1. RebuildsExclude <=> Cardinality(W) = IF rebuilding THEN 1 ELSE 0
    BY DEF RebuildsExclude, Working, Rebuilding
  <2> HIDE DEF RebuildsExclude
  <2>2. CASE rebuilding
    <3>1. PICK w \in Writers : W = {w}
      BY <2>2 DEF Inv, Base, TypeOK, Exclusive
    <3>2. Cardinality({w}) = 1
      BY FS_Singleton
    <3>3. QED
      BY <2>1, <2>2, <3>1, <3>2
  <2>3. CASE ~ rebuilding
    <3>1. W = {}
      BY <2>3 DEF Inv, Base, Exclusive
    <3>2. QED
      BY <2>1, <2>3, <3>1, FS_EmptySet
  <2>4. QED
    BY <2>2, <2>3
<1>2. QED
  BY <1>1, Invariance, PTL

(* Only a rebuild that overlaps the insert of a key can hide it from the
   filter, in whatever order shards are rebuilt and keys inserted
   (bfcsi_index.cpp:186). *)
THEOREM FilterHides == Spec => []FilterHidesOverlapped
<1>1. Inv => FilterHidesOverlapped
  BY DEF Inv, FilterOK, FilterHidesOverlapped, LiveKeys, Coming
<1>2. QED
  BY <1>1, Invariance, PTL

(* Only a late fill can hide a key behind the cache once its insert has
   cleared the slot of the key (bfcsi_index.cpp:103, 116). *)
THEOREM CacheHides == Spec => []CacheHidesLate
<1>1. Inv => CacheHidesLate
  BY DEF Inv, CacheOK
<1>2. QED
  BY <1>1, Invariance, PTL

(* A probe that finds nothing is right about some moment of its run, unless
   one of these two accidents has happened to the key. *)
THEOREM MissesJustified == Spec => MissJustified
<1> DEFINE A == \A p \in sure' :
                    pc[p] # "return" /\ pc'[p] = "return" /\ probe'[p].result = {} =>
                        probe'[p].key \in overlapped \cup late
<1>1. Inv /\ [Next]_vars => [A]_vars
  BY MissStep
<1>2. QED
  BY <1>1, Invariance, PTL DEF Spec, MissJustified

-----------------------------------------------------------------------------
(* rebuild_mutex_ *)

Inside(w) ==
    \/ pc[w] \in {"snapshot", "shard", "reset", "total", "finish", "unlock"}
    \/ pc[w] = "clear" /\ write[w].op.op = "DELETE"

LockOK == \A w \in Writers : Inside(w) <=> lock = w

LEMMA StepLock ==
  ASSUME Base, LockOK, Next
  PROVE  LockOK'
<1> USE ThreadsAssumption DEF Base, Inside
<1>1. ASSUME NEW p \in Probers, Prober(p) PROVE LockOK'
  BY <1>1, ProberFrame DEF LockOK
<1>2. ASSUME NEW w \in Writers, Writer(w) PROVE LockOK'
  <2>0. \A v \in Writers \ {w} : Inside(v)' <=> Inside(v)
    BY <1>2, WriterFrame
  <2>1. ASSUME lock' = lock, Inside(w)' <=> Inside(w) PROVE LockOK'
    <3> HIDE DEF Inside
    <3>1. QED
      BY <2>0, <2>1 DEF LockOK
  <2> USE DEF TypeOK, Goto, Threads, Begin, Finish, NoWrite, WriteOp
  <2>2. CASE InsertFilter(w)
    BY <2>1, <2>2 DEF InsertFilter
  <2>3. CASE InsertList(w)
    BY <2>1, <2>3 DEF InsertList, OpOK
  <2>4. CASE InsertCount(w) \/ RemoveList(w)
    BY <2>1, <2>4 DEF InsertCount, RemoveList
  <2>5. CASE RemoveCheck(w) \/ RemoveCount(w) \/ RemoveRatio(w)
    BY <2>1, <2>5 DEF RemoveCheck, RemoveCount, RemoveRatio
  <2>6. CASE ClearSlot(w)
    BY <2>1, <2>6 DEF ClearSlot, ClearUpTo
  <2>7. CASE RebuildClaim(w)
    BY <2>1, <2>7 DEF RebuildClaim
  <2>8. CASE RebuildLock(w)
    <3>1. lock = NoThread /\ lock' = w /\ pc'[w] = "snapshot"
      BY <2>8 DEF RebuildLock
    <3>2. Inside(w)'
      BY <3>1
    <3> HIDE DEF Inside
    <3>3. QED
      BY <2>0, <3>1, <3>2 DEF LockOK
  <2>9. CASE RebuildSnapshot(w) \/ RebuildShard(w)
    BY <2>1, <2>9 DEF RebuildSnapshot, Snapshot, RebuildShard
  <2>10. CASE RebuildReset(w)
    BY <2>1, <2>10 DEF RebuildReset
  <2>11. CASE RebuildTotal(w)
    BY <2>1, <2>11 DEF RebuildTotal, OpOK, Rebuilding
  <2>12. CASE RebuildFinish(w)
    BY <2>1, <2>12 DEF RebuildFinish
  <2>13. CASE RebuildUnlock(w)
    <3>1. lock' = NoThread /\ pc'[w] = "idle" /\ pc[w] = "unlock"
      BY <2>13 DEF RebuildUnlock
    <3>2. Inside(w) /\ ~ Inside(w)'
      BY <3>1
    <3> HIDE DEF Inside
    <3>3. QED
      BY <2>0, <3>1, <3>2 DEF LockOK
  <2>14. QED
    BY <1>2, <2>2, <2>3, <2>4, <2>5, <2>6, <2>7, <2>8, <2>9, <2>10, <2>11, <2>12, <2>13
    DEF Writer, Insert, Remove, Rebuild
<1>3. CASE Terminated
  BY <1>3 DEF Terminated, vars, LockOK
<1>4. QED
  BY <1>1, <1>2, <1>3 DEF Next

(* One rebuild at a time is inside, and the next one can only have come to the
   mutex because that one has reset the flag already: it has no work left. *)
WaitsForUnlock ==
    \A w \in Writers : pc[w] = "lock" /\ lock # NoThread =>
        /\ pc[lock] = "unlock"
        /\ \A v \in Writers : pc[v] = "lock" => v = w

(* rebuild_mutex_, taken after the flag, is waited for by one writer at most,
   and that one waits for the end of a scope, never for a rebuild: no remove
   can be stuck behind a loop over the shards (bfcsi_index.cpp:185). *)
THEOREM RebuildWaitsEnd == Spec => []WaitsForUnlock
<1>1. Init => LockOK
  BY ThreadsAssumption DEF Init, LockOK, Inside, Threads
<1>2. Inv /\ LockOK /\ [Next]_vars => LockOK'
  <2>1. CASE UNCHANGED vars
    BY <2>1 DEF vars, LockOK, Inside
  <2>2. QED
    BY <2>1, StepLock DEF Inv
<1>3. Inv /\ LockOK => WaitsForUnlock
  <2> SUFFICES ASSUME Inv, LockOK, NEW w \in Writers, pc[w] = "lock", lock # NoThread
               PROVE  pc[lock] = "unlock" /\ \A v \in Writers : pc[v] = "lock" => v = w
    BY DEF WaitsForUnlock
  <2>1. \A v \in Writers : Working(v) => v = w
    BY DEF Inv, Base, Exclusive, Working, Rebuilding
  <2>2. lock \in Writers /\ Inside(lock) /\ lock # w
    BY DEF Inv, Base, TypeOK, LockOK, Inside
  <2>3. pc[lock] = "unlock"
    BY <2>1, <2>2 DEF Inside, Working, Rebuilding
  <2>4. QED
    BY <2>1, <2>3 DEF Working, Rebuilding
<1>4. QED
  BY <1>1, <1>2, <1>3, Invariance, PTL DEF Spec
=============================================================================
