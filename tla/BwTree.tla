------------------------------- MODULE BwTree -------------------------------
(***************************************************************************)
(* BwTree, the v1 index whose writes prepend a delta record to the root    *)
(* page.  A chain that has got long is consolidated into a new page, which *)
(* goes into the mapping table while root_ keeps the old page with its     *)
(* chain: no operation ever reads a consolidated page, and the root page   *)
(* itself has no keys.                                                     *)
(*                                                                         *)
(* chain is the root's delta chain, oldest first, so a pointer to a delta  *)
(* is an index and its next is the index below; a value is the index of    *)
(* the delta that holds it.  An action is one access to shared memory.     *)
(***************************************************************************)
EXTENDS Reclamation, FiniteSets, SequencesExt

CONSTANTS
    Keys,         \* the join keys, numbers
    Root,         \* the root page
    DeltaChainThreshold,   \* DELTA_CHAIN_THRESHOLD (8)
    MaxKeys,      \* BwTreeNode::MAX_KEYS (64)
    MaxOps,       \* bound: operations begun in one behaviour
    MaxClears     \* bound: clear() calls in one behaviour

ASSUME KeysAssumption == Keys \subseteq Nat

VARIABLES
    rootSet,    \* root_ is not null
    chain,      \* the delta chain of the root page
    mapped,     \* the consolidated page in mapping_table_, if there is one
    size,       \* size_
    pc,         \* thread -> where its operation has got to
    op,         \* thread -> the operation and its local variables
    ops,        \* operations begun
    clears      \* clear() calls begun

bvars == <<rootSet, chain, mapped, size, pc, op, ops, clears>>
vars  == <<bvars, rvars>>

Kinds == {"insert", "upsert", "find", "clear"}

Success  == <<"SUCCESS">>
Retry    == <<"RETRY_NEEDED">>
Found(v) == <<"value", v>>     \* nothing, if v is 0

\* late (history): the root was null when the call was made.
NoOp == [kind |-> "clear", key |-> 0, head |-> 0, page |-> << >>,
         res |-> << >>, late |-> FALSE]

Init ==
    /\ RInit
    /\ rootSet = TRUE /\ chain = << >> /\ mapped = << >> /\ size = 0
    /\ pc = [t \in Threads |-> "idle"]
    /\ op = [t \in Threads |-> NoOp]
    /\ ops = 0 /\ clears = 0

-----------------------------------------------------------------------------
Ready(t, s)  == pc[t] = s /\ Idle(t)
Become(t, s) == pc' = [pc EXCEPT ![t] = s]
Bounds == <<ops, clears>>
Tree   == <<rootSet, chain, mapped, size>>

\* The newest delta of k at or below h: what a walk from h finds.
Newest(h, k) == Max({0} \cup {i \in 1 .. h : chain[i].key = k})

\* addKey: before the first key that is not smaller; a full page ignores it.
AddKey(page, k, v) ==
    LET i == Cardinality({j \in 1 .. Len(page) : page[j].key < k}) + 1
    IN  IF Len(page) >= MaxKeys THEN page
        ELSE InsertAt(page, i, [key |-> k, value |-> v])

\* The first entry with the key, as findKey and the update loop see it.
Entry(page, k) == SelectInSeq(page, LAMBDA e : e.key = k)

Apply(page, delta, v) ==
    IF delta.type = "INSERT" THEN AddKey(page, delta.key, v)
    ELSE LET i == Entry(page, delta.key)
         IN  IF i = 0 THEN page ELSE [page EXCEPT ![i].value = v]

\* consolidateNode walks from the newest delta to the oldest.
Consolidated(h) ==
    LET Page[i \in 0 .. h] ==
            IF i = 0 THEN << >>
            ELSE Apply(Page[i - 1], chain[h + 1 - i], h + 1 - i)
    IN  Page[h]

-----------------------------------------------------------------------------
Begun(t, kind) ==
    /\ Ready(t, "idle")
    /\ ops < MaxOps
    /\ ops' = ops + 1
    /\ clears' = IF kind = "clear" THEN clears + 1 ELSE clears
    /\ clears' <= MaxClears

Start(t, kind, k) ==
    /\ Begun(t, kind)
    /\ op' = [op EXCEPT ![t] = [NoOp EXCEPT !.kind = kind, !.key = k,
                                            !.late = ~ rootSet]]
    /\ Begin(t)
    /\ Become(t, "leaf")
    /\ UNCHANGED Tree

\* findLeaf: the root is a leaf, so it is the one; it has no keys, so
\* insert finds none there.
FindLeaf(t) ==
    /\ Ready(t, "leaf")
    /\ IF rootSet
       THEN Become(t, "head") /\ UNCHANGED op
       ELSE /\ Become(t, "done")
            /\ op' = [op EXCEPT ![t].res = IF op[t].kind = "find" THEN Found(0) ELSE Retry]
    /\ UNCHANGED <<Tree, Bounds, rvars>>

\* find walks the deltas, which do not change, from the head it loads here.
LoadHead(t) ==
    /\ Ready(t, "head")
    /\ IF op[t].kind = "find"
       THEN /\ op' = [op EXCEPT ![t].res = Found(Newest(Len(chain), op[t].key))]
            /\ Become(t, "done")
       ELSE /\ op' = [op EXCEPT ![t].head = Len(chain)]
            /\ Become(t, "push")
    /\ UNCHANGED <<Tree, Bounds, rvars>>

Delta(t) ==
    [type |-> IF op[t].kind = "insert" THEN "INSERT" ELSE "UPDATE",
     key |-> op[t].key]

(* Plausible bug: the head is stored without a comparison. *)
BlindPush(t) ==
    /\ Ready(t, "push")
    /\ chain' = Append(SubSeq(chain, 1, op[t].head), Delta(t))
    /\ op' = [op EXCEPT ![t].res = Success]
    /\ Become(t, "count")
    /\ UNCHANGED <<rootSet, mapped, size, Bounds, rvars>>

Push(t) ==
    /\ Ready(t, "push")
    /\ op[t].head = Len(chain)
    /\ chain' = Append(chain, Delta(t))
    /\ op' = [op EXCEPT ![t].res = Success]
    /\ Become(t, "count")
    /\ UNCHANGED <<rootSet, mapped, size, Bounds, rvars>>

\* The weak compare-and-swap may fail for no reason; it loads the head.
PushFails(t) ==
    /\ Ready(t, "push")
    /\ op' = [op EXCEPT ![t].head = Len(chain)]
    /\ UNCHANGED <<Tree, pc, Bounds, rvars>>

CountChain(t) ==
    /\ Ready(t, "count")
    /\ Become(t, IF Len(chain) >= DeltaChainThreshold
                 THEN "consolidate" ELSE "done")
    /\ UNCHANGED <<Tree, op, Bounds, rvars>>

\* consolidateNode builds the page from the head it loads, ...
Consolidate(t) ==
    /\ Ready(t, "consolidate")
    /\ op' = [op EXCEPT ![t].page = Consolidated(Len(chain))]
    /\ Become(t, "map")
    /\ UNCHANGED <<Tree, Bounds, rvars>>

\* ... puts it into the mapping table over whatever is there, ...
MapPage(t) ==
    /\ Ready(t, "map")
    /\ mapped' = op[t].page
    /\ op' = [op EXCEPT ![t].page = << >>]
    /\ Become(t, "retire")
    /\ UNCHANGED <<rootSet, chain, size, Bounds, rvars>>

\* ... and retires the root page, which stays the root.
RetireRoot(t) ==
    /\ Ready(t, "retire")
    /\ Retire(t, Root)
    /\ Become(t, "done")
    /\ UNCHANGED <<Tree, op, Bounds>>

\* insert counts; the EpochGuard goes.
Finish(t) ==
    /\ Ready(t, "done")
    /\ size' = IF op[t].kind = "insert" /\ op[t].res = Success
               THEN size + 1 ELSE size
    /\ End(t)
    /\ op' = [op EXCEPT ![t] = NoOp]
    /\ Become(t, "idle")
    /\ UNCHANGED <<rootSet, chain, mapped, Bounds>>

StartClear(t) ==
    /\ Begun(t, "clear")
    /\ rootSet' = FALSE
    /\ Become(t, "reset")
    /\ UNCHANGED <<chain, mapped, size, op, rvars>>

ResetSize(t) ==
    /\ Ready(t, "reset")
    /\ size' = 0
    /\ Become(t, "idle")
    /\ UNCHANGED <<rootSet, chain, mapped, op, Bounds, rvars>>

-----------------------------------------------------------------------------
Step(t) ==
    \/ FindLeaf(t) \/ LoadHead(t) \/ Push(t) \/ PushFails(t) \/ CountChain(t)
    \/ Consolidate(t) \/ MapPage(t) \/ RetireRoot(t) \/ Finish(t)
    \/ ResetSize(t)
    \/ RStep(t) /\ UNCHANGED bvars

Next ==
    \E t \in Threads :
        \/ \E kind \in Kinds \ {"clear"}, k \in Keys : Start(t, kind, k)
        \/ StartClear(t)
        \/ Step(t)

Spec == Init /\ [][Next]_vars

-----------------------------------------------------------------------------
\* The root page goes into the lists of retired objects again and again while
\* it is the root (bw_tree.hpp:246-251).  It is not deleted under the threads
\* that use it because each retires it inside its own read section, so that
\* tryReclaim finds a reader; no other protection is there.  Another client of
\* the thread's list that reclaims outside a read section, as ARTIndex::insert
\* does, would delete it: the Bw-tree is the only client here.
RootNeverFreed == Root \notin freed

\* The consolidated page in the mapping table is made of deltas that are still
\* in the chain, each once and under its key, and its keys are in order: that
\* building and mapping it are separate steps, between which others push,
\* consolidate and map (bw_tree.hpp:214-251), loses it no delta.  Which of two
\* deltas of a key comes first is not claimed.
PageFromChain ==
    /\ \A i \in 1 .. Len(mapped) :
          mapped[i].value \in 1 .. Len(chain) /\ chain[mapped[i].value].key = mapped[i].key
    /\ \A i, j \in 1 .. Len(mapped) : i < j =>
          mapped[i].key <= mapped[j].key /\ mapped[i].value # mapped[j].value

-----------------------------------------------------------------------------
\* The dictionary the tree implements.  A put takes effect when its delta is
\* pushed, a find when it loads the head, a refused call when it loads root_.
Answered == {"count", "consolidate", "map", "retire", "done"}

CallOf(t) ==
    IF pc[t] \in {"idle", "reset"} THEN [kind |-> "none"]
    ELSE IF pc[t] \in Answered
    THEN [kind |-> "answered", result |-> op[t].res]
    ELSE [kind |-> op[t].kind, key |-> op[t].key, late |-> op[t].late]

Abs == INSTANCE Dictionary WITH
    dict   <- [k \in Keys |-> Newest(Len(chain), k)],
    puts   <- Len(chain),
    closed <- ~ rootSet,
    call   <- [t \in Threads |-> CallOf(t)]

\* The tree is a linearizable dictionary in which insert overwrites too.
IsDictionary == Abs!Spec
=============================================================================
