--------------------------------- MODULE ART ---------------------------------
(***************************************************************************)
(* ARTIndex, the v1 "adaptive radix tree": in fact one node, the root,     *)
(* that maps the top byte of a key to a KeyValue.  An insert swaps the     *)
(* KeyValue of a byte that is there, or locks the node through its version *)
(* and puts a new byte in; a find reads the node without a lock inside a   *)
(* read section of EpochReclamation.                                       *)
(*                                                                         *)
(* An action is one access to memory that other threads use, with the      *)
(* thread's own steps after it.  A value is the KeyValue that holds it:    *)
(* kvs[i] is the key of the i-th one allocated.  No node is reached but    *)
(* the root, so a depth other than 0 does not occur.                       *)
(***************************************************************************)
EXTENDS Reclamation, FiniteSets

CONSTANTS
    Keys,       \* the join keys
    ByteOf,     \* key -> its top byte, getKeyByte(key, 0)
    Writers,    \* the threads that insert and upsert; the others find
    Capacity,   \* <<4, 16, 48, 256>>: MAX_KEYS of the node types, in order
    MaxOps,     \* bound: operations begun in one behaviour
    MaxClears   \* bound: clear() calls in one behaviour

ASSUME ThreadsAssumption == IsFiniteSet(Threads) /\ Writers \subseteq Threads

ASSUME NodeAssumption ==
    /\ Keys # {}
    /\ ByteOf \in [Keys -> Nat]
    /\ Capacity[1] \in Nat /\ Capacity[1] > 2

ASSUME BoundsAssumption == MaxOps \in Nat /\ MaxClears \in Nat

\* What MaxOps operations can allocate: two KeyValues and two nodes each.
ASSUME ObjectAssumption == {"kv", "node"} \X (1 .. 2 * MaxOps) \subseteq Object

VARIABLES
    root,       \* root_, 0 for nullptr
    nodes,      \* the nodes allocated so far
    kvs,        \* the KeyValues allocated so far, as their keys
    size,       \* size_
    pc,         \* thread -> where its operation has got to
    op,         \* thread -> the operation and its local variables
    ops,        \* operations begun
    clears,     \* clear() calls begun
    lost,       \* history: KeyValues retired by the insert that goes on with them
    missed,     \* history: some compare-and-swap of a slot has failed
    mixed       \* history: a clear() has overlapped another operation

avars == <<root, nodes, kvs, size, pc, op, ops, clears, lost, missed, mixed>>
vars  == <<avars, rvars>>

Kv(i)   == <<"kv", i>>
Nd(n)   == <<"node", n>>

Kinds == {"insert", "upsert", "find", "clear"}

NoOp == [kind |-> "find", key |-> CHOOSE k \in Keys : TRUE, kv |-> 0,
         old |-> 0, node |-> 0, ver |-> 0, i |-> 1, exp |-> 0]

\* A node: its type, version with the lock bit apart, and its slots.
Node(type, keys, vals) ==
    [type |-> type, locked |-> FALSE, ver |-> 0,
     keys |-> keys, vals |-> vals, size |-> Len(keys)]

Init ==
    /\ RInit
    /\ root = 0 /\ nodes = << >> /\ kvs = << >> /\ size = 0
    /\ pc = [t \in Threads |-> "idle"]
    /\ op = [t \in Threads |-> NoOp]
    /\ ops = 0 /\ clears = 0
    /\ lost = {} /\ missed = FALSE /\ mixed = FALSE

-----------------------------------------------------------------------------
\* A thread's next step is s, with no call of EpochReclamation under way.
Ready(t, s) == pc[t] = s /\ Idle(t)
Become(t, s) == pc' = [pc EXCEPT ![t] = s]
Byte(t) == ByteOf[op[t].key]
Mine(t) == nodes[op[t].node]

\* The operation ends and its local variables with it.
Return(t) ==
    /\ Become(t, "idle")
    /\ op' = [op EXCEPT ![t] = NoOp]

SetNode(n, f, x) == nodes' = [nodes EXCEPT ![n][f] = x]

Counters == <<ops, clears, mixed>>
History  == <<lost, missed>>

Active == {t \in Threads : pc[t] # "idle"}

Begun(t, kind) ==
    /\ Ready(t, "idle")
    /\ ops < MaxOps
    /\ ops' = ops + 1
    /\ clears' = IF kind = "clear" THEN clears + 1 ELSE clears
    /\ clears' <= MaxClears
    /\ mixed' = (mixed \/ \E u \in Active : "clear" \in {kind, op[u].kind})

-----------------------------------------------------------------------------
\* insert and upsert: allocate the KeyValue, load the root.
StartPut(t, kind, k) ==
    /\ Begun(t, kind)
    /\ kvs' = Append(kvs, k)
    /\ op' = [op EXCEPT ![t] = [NoOp EXCEPT !.kind = kind, !.key = k,
                                !.kv = Len(kvs) + 1,
                                !.old = root, !.node = root]]
    /\ Become(t, IF root = 0 THEN "plant"
                 ELSE IF kind = "insert" THEN "version" ELSE "again")
    /\ UNCHANGED <<root, nodes, size, History, rvars>>

\* upsert falls back to insert, which allocates and loads once more.
InsertAgain(t) ==
    /\ Ready(t, "again")
    /\ kvs' = Append(kvs, op[t].key)
    /\ op' = [op EXCEPT ![t].kind = "insert", ![t].kv = Len(kvs) + 1,
                        ![t].old = root, ![t].node = root]
    /\ Become(t, IF root = 0 THEN "plant" ELSE "version")
    /\ UNCHANGED <<root, nodes, size, Counters, History, rvars>>

\* The root was null: the compare-and-swap installs a node with one slot ...
PlantWon(t) ==
    /\ Ready(t, "plant")
    /\ root = 0
    /\ nodes' = Append(nodes, Node(1, <<Byte(t)>>, <<op[t].kv>>))
    /\ root' = Len(nodes) + 1
    /\ Become(t, "count")
    /\ UNCHANGED <<kvs, size, op, Counters, History, rvars>>

\* ... or fails: the KeyValue is retired, and insert goes on with it and with
\* the root that won.
PlantLost(t) ==
    /\ Ready(t, "plant")
    /\ root # 0
    /\ nodes' = Append(nodes, Node(1, <<Byte(t)>>, <<op[t].kv>>))
    /\ Retire(t, Kv(op[t].kv))
    /\ IF op[t].kind = "insert"
       THEN /\ Become(t, "drop")
            /\ op' = [op EXCEPT ![t].old = root, ![t].node = root,
                                ![t].exp = Len(nodes) + 1]
            /\ lost' = lost \cup {op[t].kv}
       ELSE /\ Become(t, "again")
            /\ UNCHANGED <<op, lost>>
    /\ UNCHANGED <<root, kvs, size, Counters, missed>>

(* Plausible bug: the KeyValue goes into the list a second time. *)
TwiceDropNode(t) ==
    /\ Ready(t, "drop")
    /\ Retire(t, Kv(op[t].kv))
    /\ op' = [op EXCEPT ![t].exp = 0]
    /\ Become(t, "version")
    /\ UNCHANGED <<root, nodes, kvs, size, Counters, History>>

DropNode(t) ==
    /\ Ready(t, "drop")
    /\ Retire(t, Nd(op[t].exp))
    /\ op' = [op EXCEPT ![t].exp = 0]
    /\ Become(t, "version")
    /\ UNCHANGED <<root, nodes, kvs, size, Counters, History>>

\* A locked version is read again and again.
ReadVersion(t) ==
    /\ Ready(t, "version")
    /\ ~ Mine(t).locked
    /\ op' = [op EXCEPT ![t].ver = Mine(t).ver, ![t].i = 1]
    /\ Become(t, "scan")
    /\ UNCHANGED <<root, nodes, kvs, size, Counters, History, rvars>>

Spin(t) ==
    /\ Ready(t, "version")
    /\ Mine(t).locked
    /\ UNCHANGED vars

\* Looks at slot i.  Node48 and Node256 find the slot by table, in one step.
Scan(t, found, none) ==
    LET n == Mine(t)
        At_i == IF n.type < 3 THEN {op[t].i} \cap 1 .. n.size ELSE 1 .. n.size
        Hit  == {i \in At_i : n.keys[i] = Byte(t)}
    IN  IF Hit # {}
        THEN /\ op' = [op EXCEPT ![t].i = CHOOSE i \in Hit : TRUE]
             /\ Become(t, found)
        ELSE IF n.type < 3 /\ At_i # {}
        THEN /\ op' = [op EXCEPT ![t].i = @ + 1]
             /\ UNCHANGED pc
        ELSE /\ Become(t, none)
             /\ UNCHANGED op

ScanPut(t) ==
    /\ Ready(t, "scan")
    /\ Scan(t, "load", "lock")
    /\ UNCHANGED <<root, nodes, kvs, size, Counters, History, rvars>>

\* Only a Node4 asks whether the key is there already.
LoadSlot(t) ==
    /\ Ready(t, "load")
    /\ LET kv == Mine(t).vals[op[t].i]
       IN  IF Mine(t).type = 1 /\ kvs[kv] = op[t].key
           THEN Return(t)
           ELSE /\ op' = [op EXCEPT ![t].exp = kv]
                /\ Become(t, "cas")
    /\ UNCHANGED <<root, nodes, kvs, size, Counters, History, rvars>>

(* Plausible bug: the KeyValue that was replaced is retired. *)
RetiringCasSlot(t) ==
    /\ Ready(t, "cas")
    /\ Mine(t).vals[op[t].i] = op[t].exp
    /\ nodes' = [nodes EXCEPT ![op[t].node].vals[op[t].i] = op[t].kv]
    /\ Return(t)
    /\ Retire(t, Kv(op[t].exp))
    /\ UNCHANGED <<root, kvs, size, Counters, History>>

(* Plausible bug: a replacement is counted. *)
CountingCasSlot(t) ==
    /\ Ready(t, "cas")
    /\ Mine(t).vals[op[t].i] = op[t].exp
    /\ nodes' = [nodes EXCEPT ![op[t].node].vals[op[t].i] = op[t].kv]
    /\ Become(t, "count")
    /\ UNCHANGED <<root, kvs, size, op, Counters, History, rvars>>

\* Replaces the KeyValue of the byte, whatever its key: nothing is counted.
\* After a failure the small nodes go on with the next slot.
CasSlot(t) ==
    /\ Ready(t, "cas")
    /\ IF Mine(t).vals[op[t].i] = op[t].exp
       THEN /\ nodes' = [nodes EXCEPT ![op[t].node].vals[op[t].i] = op[t].kv]
            /\ Return(t)
            /\ UNCHANGED missed
       ELSE /\ missed' = TRUE
            /\ op' = [op EXCEPT ![t].i = @ + 1, ![t].exp = 0]
            /\ Become(t, IF Mine(t).type < 3 THEN "scan" ELSE "version")
            /\ UNCHANGED nodes
    /\ UNCHANGED <<root, kvs, size, Counters, lost, rvars>>

-----------------------------------------------------------------------------
\* incrementVersion(lockVersion(v)): the lock bit stays.
Incremented(n) == [n EXCEPT !.ver = @ + 1]

\* A full node is copied to one of the next type, retired and left locked;
\* the copy replaces the root the thread knows of and is tried next.  No
\* reachable state has a full node (lemma TwoSlots of ART_proofs: the lock bit
\* that Incremented keeps stops a node at its second byte), so this is not
\* split up.
Grow(t) ==
    LET n   == Mine(t)
        new == Len(nodes) + 1
        won == root = op[t].old
    IN  /\ nodes' = Append([nodes EXCEPT ![op[t].node].locked = TRUE],
                           Node(n.type + 1, n.keys, n.vals))
        /\ root' = IF won THEN new ELSE root
        /\ op' = [op EXCEPT ![t].node = new,
                            ![t].old = IF n.type = 1 \/ ~ won
                                       THEN new ELSE @]
        /\ Become(t, "version")
        /\ Retire(t, Nd(op[t].node))

(* Plausible bug: the version is stored without a comparison. *)
BlindLock(t) ==
    /\ Ready(t, "lock")
    /\ SetNode(op[t].node, "locked", TRUE)
    /\ Become(t, "shift")
    /\ op' = [op EXCEPT ![t].i = Mine(t).size + 1]
    /\ UNCHANGED <<root, kvs, size, Counters, History, rvars>>

\* The compare-and-swap of the version that was read before the scan.
Lock(t) ==
    /\ Ready(t, "lock")
    /\ ~ Mine(t).locked /\ Mine(t).ver = op[t].ver
    /\ IF Mine(t).size < Capacity[Mine(t).type]
       THEN /\ SetNode(op[t].node, "locked", TRUE)
            /\ Become(t, "shift")
            /\ op' = [op EXCEPT ![t].i = Mine(t).size + 1]
            /\ UNCHANGED <<root, rvars>>
       ELSE Grow(t)
    /\ UNCHANGED <<kvs, size, Counters, History>>

LockFails(t) ==
    /\ Ready(t, "lock")
    /\ Become(t, "version")
    /\ UNCHANGED <<root, nodes, kvs, size, op, Counters, History, rvars>>

\* An array written at index i, which is at most one past what it holds.
Put(s, i, x) == [j \in 1 .. IF i > Len(s) THEN i ELSE Len(s) |->
                    IF j = i THEN x ELSE s[j]]

\* insertIntoNode4 and insertIntoNode16 keep the bytes sorted: slot after slot
\* moves up, in full view of the readers, and then the new one is written.
Moves(t) == Mine(t).type < 3 /\ op[t].i > 1 /\ Mine(t).keys[op[t].i - 1] > Byte(t)

PutKey(t) ==
    LET i == op[t].i
        x == IF Moves(t) THEN Mine(t).keys[i - 1] ELSE Byte(t)
    IN  /\ Ready(t, "shift")
        /\ SetNode(op[t].node, "keys", Put(Mine(t).keys, i, x))
        /\ Become(t, IF Moves(t) THEN "move" ELSE "place")
        /\ UNCHANGED <<root, kvs, size, op, Counters, History, rvars>>

MoveValue(t) ==
    LET i == op[t].i
    IN  /\ Ready(t, "move")
        /\ SetNode(op[t].node, "vals", Put(Mine(t).vals, i, Mine(t).vals[i - 1]))
        /\ op' = [op EXCEPT ![t].i = i - 1]
        /\ Become(t, "shift")
        /\ UNCHANGED <<root, kvs, size, Counters, History, rvars>>

PlaceValue(t) ==
    /\ Ready(t, "place")
    /\ SetNode(op[t].node, "vals", Put(Mine(t).vals, op[t].i, op[t].kv))
    /\ Become(t, "widen")
    /\ UNCHANGED <<root, kvs, size, op, Counters, History, rvars>>

Widen(t) ==
    /\ Ready(t, "widen")
    /\ SetNode(op[t].node, "size", Mine(t).size + 1)
    /\ Become(t, "unlock")
    /\ UNCHANGED <<root, kvs, size, op, Counters, History, rvars>>

Unlock(t) ==
    /\ Ready(t, "unlock")
    /\ nodes' = [nodes EXCEPT ![op[t].node] = Incremented(@)]
    /\ Become(t, "count")
    /\ UNCHANGED <<root, kvs, size, op, Counters, History, rvars>>

Count(t) ==
    /\ Ready(t, "count")
    /\ size' = size + 1
    /\ Return(t)
    /\ UNCHANGED <<root, nodes, kvs, Counters, History, rvars>>

-----------------------------------------------------------------------------
\* find loads the root before it opens a read section, which findValue nests.
StartFind(t, k) ==
    /\ Begun(t, "find")
    /\ IF root = 0
       THEN UNCHANGED <<pc, op>>
       ELSE /\ op' = [op EXCEPT ![t] = [NoOp EXCEPT !.key = k, !.node = root]]
            /\ Become(t, "enter")
    /\ UNCHANGED <<root, nodes, kvs, size, History, rvars>>

EnterOuter(t) ==
    /\ Ready(t, "enter") /\ Begin(t) /\ Become(t, "nest")
    /\ UNCHANGED <<root, nodes, kvs, size, op, Counters, History>>

EnterInner(t) ==
    /\ Ready(t, "nest") /\ Begin(t) /\ Become(t, "look")
    /\ UNCHANGED <<root, nodes, kvs, size, op, Counters, History>>

ScanFind(t) ==
    /\ Ready(t, "look")
    /\ Scan(t, "fetch", "none")
    /\ UNCHANGED <<root, nodes, kvs, size, Counters, History, rvars>>

\* findValue returns the KeyValue, or nullptr, and its section ends.
Fetch(t) ==
    /\ Ready(t, "fetch") \/ Ready(t, "none")
    /\ op' = [op EXCEPT ![t].exp = IF pc[t] = "none" THEN 0
                                   ELSE Mine(t).vals[op[t].i]]
    /\ End(t)
    /\ Become(t, "compare")
    /\ UNCHANGED <<root, nodes, kvs, size, Counters, History>>

\* find compares the key and copies the value, then its own section ends.
Compare(t) ==
    /\ Ready(t, "compare")
    /\ End(t)
    /\ Return(t)
    /\ UNCHANGED <<root, nodes, kvs, size, Counters, History>>

-----------------------------------------------------------------------------
(* Plausible change: the root is retired. *)
RetiringStartClear(t) ==
    /\ Begun(t, "clear")
    /\ root # 0
    /\ root' = 0
    /\ Retire(t, Nd(root))
    /\ op' = [op EXCEPT ![t].kind = "clear"]
    /\ Become(t, "reset")
    /\ UNCHANGED <<nodes, kvs, size, History>>

StartClear(t) ==
    /\ Begun(t, "clear")
    /\ root' = 0
    /\ op' = [op EXCEPT ![t].kind = "clear"]
    /\ Become(t, "reset")
    /\ UNCHANGED <<nodes, kvs, size, History, rvars>>

ResetSize(t) ==
    /\ Ready(t, "reset")
    /\ size' = 0
    /\ Return(t)
    /\ UNCHANGED <<root, nodes, kvs, Counters, History, rvars>>

-----------------------------------------------------------------------------
Start(t) ==
    \/ StartClear(t)
    \/ \E k \in Keys :
        IF t \in Writers
        THEN StartPut(t, "insert", k) \/ StartPut(t, "upsert", k)
        ELSE StartFind(t, k)

Step(t) ==
    \/ InsertAgain(t) \/ PlantWon(t) \/ PlantLost(t) \/ DropNode(t)
    \/ ReadVersion(t) \/ Spin(t) \/ ScanPut(t) \/ LoadSlot(t) \/ CasSlot(t)
    \/ Lock(t) \/ LockFails(t)
    \/ PutKey(t) \/ MoveValue(t) \/ PlaceValue(t) \/ Widen(t) \/ Unlock(t)
    \/ Count(t)
    \/ EnterOuter(t) \/ EnterInner(t) \/ ScanFind(t) \/ Fetch(t) \/ Compare(t)
    \/ ResetSize(t)
    \/ RStep(t) /\ UNCHANGED avars

Next == \E t \in Threads : Start(t) \/ Step(t)

Spec == Init /\ [][Next]_vars

\* A thread in an operation goes on with it, and a weak compare-and-swap that
\* could succeed does not fail for ever.
FairSpec ==
    /\ Spec
    /\ \A t \in Threads : WF_vars(Step(t)) /\ SF_vars(Lock(t))

-----------------------------------------------------------------------------
\* A node a thread can get at: find reads it without having been in a read
\* section when it loaded the root, insert without any read section.
InUse == ({root} \cup {op[t].node : t \in Active}) \ {0}

\* No node that was ever the root is retired, so a thread that holds one from
\* before its read section (concurrent_index.hpp:490), or that has none
\* (concurrent_index.hpp:288), does not use a deleted one.
NodesInUseLive ==
    \A n \in InUse, t \in Threads : Nd(n) \notin freed \cup Listed(t)

\* The only KeyValues that are retired and can still be got at are those of
\* inserts that lost the race for the root and went on with the KeyValue they
\* had retired (concurrent_index.hpp:302-306): a slot that is swapped or moved
\* never leaves a retired one behind.
OnlyLosersDangle ==
    \A n \in InUse, i \in 1 .. 2, t \in Threads :
        (i <= nodes[n].size /\ Kv(nodes[n].vals[i]) \in freed \cup Listed(t))
            => nodes[n].vals[i] \in lost

\* A byte is in two slots of a node, the second of them out of find's reach,
\* only if a compare-and-swap of a slot has failed: an insert then goes on
\* past its byte to the end of the node (concurrent_index.hpp:332-339).
DuplicateAfterMiss ==
    \A n \in InUse :
        Cardinality({nodes[n].keys[i] : i \in 1 .. nodes[n].size})
            < nodes[n].size => missed

\* size_ is the number of slots of the root and of those about to be counted,
\* however inserts overlap, unless a clear() overlaps one.
SizeCountsSlots ==
    (~ mixed /\ \A t \in Active : op[t].kind # "clear") =>
        size + Cardinality({t \in Threads : pc[t] \in {"unlock", "count"}})
            = IF root = 0 THEN 0 ELSE nodes[root].size

\* Every operation of the index ends: SYSTEM_DESIGN.md:257 promises
\* optimistic locking with retry on conflict, which presumes that a lock is
\* given back.
EveryPutEnds == \A t \in Threads : pc[t] # "idle" ~> pc[t] = "idle"
=============================================================================
