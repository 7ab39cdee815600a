-------------------------------- MODULE BFCSI --------------------------------
(***************************************************************************)
(* The Bloom-filter-augmented index: a probe asks the Bloom filter of the  *)
(* key's shard, then the cache of known false positives, then the list.    *)
(* An insert goes to the filter, then to the list, then clears the cache.  *)
(* A remove that empties a key may rebuild all filters, in the thread that *)
(* removes.                                                                *)
(*                                                                         *)
(* A filter is the set of its bits that are set, so it can be right or     *)
(* wrong about a key.  ConcurrentSkipList is one lock around an ordered    *)
(* map.  An action is one critical section of that lock or of a shard's    *)
(* lock, or one access to an atomic.                                       *)
(***************************************************************************)
EXTENDS Integers, Sequences, FiniteSets

CONSTANTS
    Keys,        \* the join keys
    TIDs,        \* the tuple ids of relation R
    Relation,    \* what bulk_load puts into the index: key -> set of tids
    Probers,     \* threads that call probe
    Writers,     \* threads that call insert and remove
    NoThread,    \* rebuild_mutex_ is free
    NullKey,     \* NULL_KEY, an empty slot of the cache
    Positions,   \* the bits of a filter
    Hash,        \* the bits insert_unlocked sets for a key
    NumShards,   \* bfcsi.num_shards
    NumSlots,    \* bfcsi.fp_cache_capacity
    ThresholdNum, ThresholdDen,   \* bfcsi.rebuild_threshold, as a fraction
    MaxWrites,   \* bound: writes in one behaviour
    MaxProbes    \* bound: probes of each prober (its share of S)

Threads == Probers \cup Writers

ASSUME ThreadsAssumption ==
    /\ Probers \cap Writers = {}
    /\ NoThread \notin Threads

(* Config::validate: domain_size is positive; and there are tuples to write. *)
ASSUME DomainAssumption ==
    /\ Keys # {} /\ Keys \subseteq Nat /\ IsFiniteSet(Keys)
    /\ TIDs # {} /\ IsFiniteSet(TIDs)

ASSUME ParametersAssumption ==
    /\ NullKey \notin Keys
    /\ Relation \in [Keys -> SUBSET TIDs]
    /\ Hash \in [Keys -> SUBSET Positions]
    /\ NumShards \in Nat \ {0} /\ NumSlots \in Nat \ {0}
    /\ ThresholdNum \in Nat \ {0} /\ ThresholdDen \in Nat \ {0}
    /\ MaxWrites \in Nat /\ MaxProbes \in Nat

Shards == 0 .. NumShards - 1
Slots  == 0 .. NumSlots - 1

ShardOf(k) == k % NumShards
SlotOf(k)  == k % NumSlots

WriteOp == [op : {"INSERT", "DELETE"}, key : Keys, tid : TIDs]

VARIABLES
    list,        \* skiplist_
    bloom,       \* bf_shards_
    cache,       \* fp_cache_
    deletes,     \* bf_delete_count_
    total,       \* bf_total_keys_
    rebuilding,  \* rebuild_in_progress_
    lock,        \* the holder of rebuild_mutex_
    pc,          \* what each thread does next
    written,     \* writes so far
    todo,        \* probes a prober has left
    probe,       \* key and result of a prober's probe
    write,       \* arguments of a writer's write, and its locals:
                 \* count = deletes, live = live_keys, at = the loop counter

(***************************************************************************)
(* History variables: nothing below reads them to decide what to do.       *)
(*   overlapped  keys inserted while a rebuild was between its snapshot    *)
(*               and their shard, or the other way round                   *)
(*   late        keys a probe put into the cache although they were live   *)
(*   sure        probers whose key has been live, with no insert of it     *)
(*               under way at the start, for the whole of their probe      *)
(***************************************************************************)
    overlapped, late, sure

(* Variables that most steps leave alone together. *)
filters  == <<bloom, overlapped>>
caches   == <<cache, late>>
counters == <<deletes, total>>
probing  == <<todo, probe>>
vars     == <<list, filters, caches, counters, rebuilding, lock, pc, written, probing, write, sure>>

LiveKeys == {k \in Keys : list[k] # {}}

(* What the locals of a thread hold before its first call is never read. *)
NoWrite == [op |-> CHOOSE op \in WriteOp : TRUE, count |-> 0, live |-> {}, at |-> 0]
NoProbe == [key |-> NoWrite.op.key, result |-> {}]

(* The bits of the keys ks in the filter of shard s. *)
BitsOf(ks, s) == UNION {Hash[k] : k \in {j \in ks : ShardOf(j) = s}}

(* bulk_load has returned: no thread of this index runs before it has. *)
Init ==
    /\ list = Relation
    /\ bloom = [s \in Shards |-> BitsOf(LiveKeys, s)]
    /\ cache = [i \in Slots |-> NullKey]
    /\ deletes = 0
    /\ total = Cardinality({r \in Keys \X TIDs : r[2] \in Relation[r[1]]})
    /\ rebuilding = FALSE
    /\ lock = NoThread
    /\ pc = [t \in Threads |-> "idle"]
    /\ written = 0
    /\ todo = [p \in Probers |-> MaxProbes]
    /\ probe = [p \in Probers |-> NoProbe]
    /\ write = [w \in Writers |-> NoWrite]
    /\ overlapped = {}
    /\ late = {}
    /\ sure = {}

Goto(t, from, to) ==
    /\ pc[t] = from
    /\ pc' = [pc EXCEPT ![t] = to]

Present(k) == Hash[k] \subseteq bloom[ShardOf(k)]

(* An insert of k is under way and has not cleared the cache for k yet. *)
Clearing(w) == pc[w] \in {"list", "clear"} /\ write[w].op.op = "INSERT"
Inserting(k) ==
    \E w \in Writers :
        /\ Clearing(w) /\ write[w].op.key = k
        /\ pc[w] = "clear" => write[w].at <= SlotOf(k)

-----------------------------------------------------------------------------
(* probe: filter, cache, list; a miss in the list is put into the cache. *)

ProbeFilter(p) ==
    \E k \in Keys :
        /\ todo[p] > 0
        /\ Goto(p, "idle", IF Present(k) THEN "cache" ELSE "return")
        /\ todo' = [todo EXCEPT ![p] = @ - 1]
        /\ probe' = [probe EXCEPT ![p].key = k]
        /\ sure' = IF list[k] # {} /\ ~ Inserting(k) THEN sure \cup {p} ELSE sure
        /\ UNCHANGED <<list, filters, caches, counters, rebuilding, lock, written, write>>

(* Plausible bug: any key in the slot is taken for this one. *)
AnyKeyProbeCache(p) ==
    /\ Goto(p, "cache", IF cache[SlotOf(probe[p].key)] # NullKey THEN "return" ELSE "lookup")
    /\ UNCHANGED <<list, filters, caches, counters, rebuilding, lock, written, probing, write, sure>>

ProbeCache(p) ==
    /\ Goto(p, "cache", IF cache[SlotOf(probe[p].key)] = probe[p].key THEN "return" ELSE "lookup")
    /\ UNCHANGED <<list, filters, caches, counters, rebuilding, lock, written, probing, write, sure>>

ProbeList(p) ==
    LET tids == list[probe[p].key] IN
    /\ Goto(p, "lookup", IF tids = {} THEN "fill" ELSE "return")
    /\ probe' = [probe EXCEPT ![p].result = tids]
    /\ UNCHANGED <<list, filters, caches, counters, rebuilding, lock, written, todo, write, sure>>

ProbeFill(p) ==
    LET k == probe[p].key IN
    /\ Goto(p, "fill", "return")
    /\ cache' = [cache EXCEPT ![SlotOf(k)] = k]
    /\ late' = {j \in late : SlotOf(j) # SlotOf(k)} \cup {j \in {k} : list[j] # {}}
    /\ UNCHANGED <<list, filters, counters, rebuilding, lock, written, probing, write, sure>>

ProbeReturn(p) ==
    /\ Goto(p, "return", "idle")
    /\ probe' = [probe EXCEPT ![p] = NoProbe]
    /\ sure' = sure \ {p}
    /\ UNCHANGED <<list, filters, caches, counters, rebuilding, lock, written, todo, write>>

Prober(p) ==
    ProbeFilter(p) \/ ProbeCache(p) \/ ProbeList(p) \/ ProbeFill(p) \/ ProbeReturn(p)

-----------------------------------------------------------------------------
(* The loop over the slots that insert and the rebuild end with. *)
ClearUpTo(w, last) ==
    LET i == write[w].at IN
    /\ Goto(w, "clear", IF i < last THEN "clear"
                        ELSE IF write[w].op.op = "INSERT" THEN "count" ELSE "finish")
    /\ cache' = [cache EXCEPT ![i] = NullKey]
    /\ late' = {k \in late : SlotOf(k) # i}
    /\ write' = [write EXCEPT ![w].at = IF i < last THEN i + 1 ELSE 0]
    /\ UNCHANGED <<list, filters, counters, rebuilding, lock, written, probing, sure>>

(* Plausible bug: the last slot is left out. *)
ShortClearSlot(w) == ClearUpTo(w, NumSlots - 2)

ClearSlot(w) == ClearUpTo(w, NumSlots - 1)

-----------------------------------------------------------------------------
(* insert *)

(* A rebuild has taken its snapshot and not come to shard s yet. *)
Window(s) == \E w \in Writers : pc[w] = "shard" /\ write[w].at <= s

Begin(w, op) ==
    /\ written < MaxWrites
    /\ written' = written + 1
    /\ write' = [write EXCEPT ![w] = [NoWrite EXCEPT !.op = op]]

InsertFilter(w) ==
    \E op \in WriteOp :
        LET k == op.key IN
        /\ op.op = "INSERT"
        /\ Begin(w, op)
        /\ Goto(w, "idle", "list")
        /\ bloom' = [bloom EXCEPT ![ShardOf(k)] = @ \cup Hash[k]]
        /\ overlapped' = IF Window(ShardOf(k)) THEN overlapped \cup {k} ELSE overlapped \ {k}
        /\ UNCHANGED <<list, caches, counters, rebuilding, lock, probing, sure>>

InsertList(w) ==
    LET op == write[w].op IN
    /\ Goto(w, "list", "clear")
    /\ list' = [list EXCEPT ![op.key] = @ \cup {op.tid}]
    /\ UNCHANGED <<filters, caches, counters, rebuilding, lock, written, probing, write, sure>>

InsertCount(w) ==
    /\ Goto(w, "count", "idle")
    /\ total' = total + 1
    /\ write' = [write EXCEPT ![w] = NoWrite]
    /\ UNCHANGED <<list, filters, caches, deletes, rebuilding, lock, written, probing, sure>>

-----------------------------------------------------------------------------
(* remove *)

RemoveList(w) ==
    \E op \in WriteOp :
        /\ op.op = "DELETE"
        /\ Begin(w, op)
        /\ Goto(w, "idle", "check")
        /\ list' = [list EXCEPT ![op.key] = @ \ {op.tid}]
        /\ sure' = {p \in sure : probe[p].key \in {k \in Keys : list'[k] # {}}}
        /\ UNCHANGED <<filters, caches, counters, rebuilding, lock, probing>>

(* A return drops the locals of the write. *)
Finish(w) == write' = [write EXCEPT ![w] = NoWrite]

RemoveCheck(w) ==
    LET empty == list[write[w].op.key] = {} IN
    /\ Goto(w, "check", IF empty THEN "delete" ELSE "idle")
    /\ IF empty THEN UNCHANGED write ELSE Finish(w)
    /\ UNCHANGED <<list, filters, caches, counters, rebuilding, lock, written, probing, sure>>

RemoveCount(w) ==
    /\ Goto(w, "delete", "ratio")
    /\ deletes' = deletes + 1
    /\ write' = [write EXCEPT ![w].count = deletes']
    /\ UNCHANGED <<list, filters, caches, total, rebuilding, lock, written, probing, sure>>

(* deletes / max(1, total) >= rebuild_threshold_ *)
Exceeds(count) ==
    count * ThresholdDen >= ThresholdNum * (IF total = 0 THEN 1 ELSE total)

RemoveRatio(w) ==
    LET enough == Exceeds(write[w].count) IN
    /\ Goto(w, "ratio", IF enough THEN "claim" ELSE "idle")
    /\ IF enough THEN UNCHANGED write ELSE Finish(w)
    /\ UNCHANGED <<list, filters, caches, counters, rebuilding, lock, written, probing, sure>>

-----------------------------------------------------------------------------
(* force_rebuild and rebuild_bloom_filter *)

(* Plausible bug: the flag is set without looking at it. *)
BlindRebuildClaim(w) ==
    /\ Goto(w, "claim", "lock")
    /\ rebuilding' = TRUE
    /\ UNCHANGED <<list, filters, caches, counters, lock, written, probing, write, sure>>

(* The compare-and-swap: whoever finds a rebuild in progress returns. *)
RebuildClaim(w) ==
    /\ Goto(w, "claim", IF rebuilding THEN "idle" ELSE "lock")
    /\ rebuilding' = TRUE
    /\ IF rebuilding THEN Finish(w) ELSE UNCHANGED write
    /\ UNCHANGED <<list, filters, caches, counters, lock, written, probing, sure>>

RebuildLock(w) ==
    /\ Goto(w, "lock", "snapshot")
    /\ lock = NoThread
    /\ lock' = w
    /\ UNCHANGED <<list, filters, caches, counters, rebuilding, written, probing, write, sure>>

Snapshot(w, live) ==
    /\ Goto(w, "snapshot", "shard")
    /\ write' = [write EXCEPT ![w].live = live]
    /\ overlapped' = overlapped \cup {write[v].op.key : v \in {u \in Writers : pc[u] = "list"}}
    /\ UNCHANGED <<list, bloom, caches, counters, rebuilding, lock, written, probing, sure>>

(* Plausible bug: the key whose removal started the rebuild is left out,
   although it may have been inserted again. *)
ForgetfulRebuildSnapshot(w) == Snapshot(w, LiveKeys \ {write[w].op.key})

RebuildSnapshot(w) == Snapshot(w, LiveKeys)

RebuildShard(w) ==
    LET s    == write[w].at
        last == s = NumShards - 1 IN
    /\ Goto(w, "shard", IF last THEN "reset" ELSE "shard")
    /\ bloom' = [bloom EXCEPT ![s] = BitsOf(write[w].live, s)]
    /\ overlapped' = overlapped \ {k \in write[w].live : ShardOf(k) = s}
    /\ write' = [write EXCEPT ![w].at = IF last THEN 0 ELSE s + 1]
    /\ UNCHANGED <<list, caches, counters, rebuilding, lock, written, probing, sure>>

(* Plausible bug: the live keys are subtracted instead. *)
SubtractingRebuildReset(w) ==
    /\ Goto(w, "reset", "total")
    /\ deletes' = deletes - Cardinality(write[w].live)
    /\ UNCHANGED <<list, filters, caches, total, rebuilding, lock, written, probing, write, sure>>

RebuildReset(w) ==
    /\ Goto(w, "reset", "total")
    /\ deletes' = 0
    /\ UNCHANGED <<list, filters, caches, total, rebuilding, lock, written, probing, write, sure>>

RebuildTotal(w) ==
    /\ Goto(w, "total", "clear")
    /\ total' = Cardinality(write[w].live)
    /\ UNCHANGED <<list, filters, caches, deletes, rebuilding, lock, written, probing, write, sure>>

RebuildFinish(w) ==
    /\ Goto(w, "finish", "unlock")
    /\ rebuilding' = FALSE
    /\ UNCHANGED <<list, filters, caches, counters, lock, written, probing, write, sure>>

(* rebuild_lock goes out of scope after rebuild_in_progress_ was reset. *)
RebuildUnlock(w) ==
    /\ Goto(w, "unlock", "idle")
    /\ lock' = NoThread
    /\ Finish(w)
    /\ UNCHANGED <<list, filters, caches, counters, rebuilding, written, probing, sure>>

Insert(w)  == InsertFilter(w) \/ InsertList(w) \/ InsertCount(w)
Remove(w)  == RemoveList(w) \/ RemoveCheck(w) \/ RemoveCount(w) \/ RemoveRatio(w)
Rebuild(w) ==
    \/ RebuildClaim(w) \/ RebuildLock(w) \/ RebuildSnapshot(w) \/ RebuildShard(w)
    \/ RebuildReset(w) \/ RebuildTotal(w) \/ RebuildFinish(w) \/ RebuildUnlock(w)

Writer(w) == Insert(w) \/ Remove(w) \/ ClearSlot(w) \/ Rebuild(w)

(* The callers' threads are joined; the index has none of its own. *)
Terminated == (\A t \in Threads : pc[t] = "idle") /\ UNCHANGED vars

Next ==
    \/ \E p \in Probers : Prober(p)
    \/ \E w \in Writers : Writer(w)
    \/ Terminated

Spec == Init /\ [][Next]_vars

-----------------------------------------------------------------------------
(* Every variable keeps its shape. *)
TypeOK ==
    /\ list \in [Keys -> SUBSET TIDs]
    /\ bloom \in [Shards -> SUBSET Positions]
    /\ cache \in [Slots -> Keys \cup {NullKey}]
    /\ deletes \in Nat /\ total \in Nat
    /\ rebuilding \in BOOLEAN
    /\ lock \in Writers \cup {NoThread}
    /\ pc \in [Threads -> {"idle", "cache", "lookup", "fill", "return", "list", "clear", "count",
                           "check", "delete", "ratio", "claim", "lock", "snapshot", "shard",
                           "reset", "total", "finish", "unlock"}]
    /\ written \in 0 .. MaxWrites
    /\ todo \in [Probers -> 0 .. MaxProbes]
    /\ probe \in [Probers -> [key : Keys, result : SUBSET TIDs]]
    /\ write \in [Writers -> [op : WriteOp, count : Nat, live : SUBSET Keys, at : Nat]]
    /\ overlapped \in SUBSET Keys /\ late \in SUBSET Keys /\ sure \in SUBSET Probers

(* The filter of its shard admits every key that is in the list. *)
FilterComplete == \A k \in LiveKeys : Present(k)

(* Only a rebuild that overlaps the insert of a key can hide it from the
   filter: from the snapshot until the shard is done on one side, from the
   filter until the list on the other. *)
FilterHidesOverlapped == \A k \in LiveKeys \ overlapped : Present(k)

(* Only a probe that looked before the insert and filled after its clear can
   hide a key behind the cache. *)
CacheHidesLate ==
    \A k \in LiveKeys : cache[SlotOf(k)] = k => k \in late \/ Inserting(k)

(* A probe that finds nothing is right about some moment of its run, unless
   one of these two accidents has happened to the key. *)
MissJustified ==
    [][\A p \in sure' : pc[p] # "return" /\ pc'[p] = "return" /\ probe'[p].result = {} =>
          probe'[p].key \in overlapped \cup late]_vars

(* The flag is set exactly while one writer is on its way through a rebuild:
   no second rebuild starts, and none is announced that nobody does. *)
RebuildsExclude ==
    LET working == {w \in Writers :
            \/ pc[w] \in {"lock", "snapshot", "shard", "reset", "total", "finish"}
            \/ pc[w] = "clear" /\ write[w].op.op = "DELETE"}
    IN  Cardinality(working) = IF rebuilding THEN 1 ELSE 0
=============================================================================
