------------------------------ MODULE ART_proofs ------------------------------
(***************************************************************************)
(* Proofs about ART for any threads, keys, bytes and bounds.  The first    *)
(* layer, Base, follows a node: it has one slot while it is unlocked, the  *)
(* thread that locks it is the last one to do so, and gives it a second    *)
(* slot.  All else stands on that: nodes that are retired were never the   *)
(* root (Nodes), KeyValues are retired by their own insert, once (Values), *)
(* as many objects are allocated as there are names for (Allocation), and  *)
(* what a scan has seen still holds when the node is locked (Distinct).    *)
(* The last, Counted, is about the index between its clear()s: a slot is   *)
(* in size_, or its insert has yet to count it.                            *)
(***************************************************************************)
EXTENDS ART, Reclamation_proofs, FiniteSetTheorems

OpType ==
    [kind : Kinds, key : Keys, kv : Nat, old : Nat, node : Nat, ver : Nat,
     i : Nat \ {0}, exp : Nat]

NodeType ==
    [type : Nat, locked : BOOLEAN, ver : Nat, keys : Seq(Nat),
     vals : Seq(Nat), size : Nat]

Pcs == {"idle", "plant", "again", "drop", "version", "scan", "load", "cas",
        "lock", "shift", "move", "place", "widen", "unlock", "count",
        "enter", "nest", "look", "fetch", "none", "compare", "reset"}

\* Where a thread works on a node.
NodePcs == {"drop", "version", "scan", "load", "cas", "lock", "shift", "move",
            "place", "widen", "unlock", "enter", "nest", "look", "fetch",
            "none", "compare"}

Lockers == {"shift", "move", "place", "widen"}

ATypeOK ==
    /\ root \in Nat
    /\ nodes \in Seq(NodeType)
    /\ kvs \in Seq(Keys)
    /\ size \in Nat
    /\ pc \in [Threads -> Pcs]
    /\ op \in [Threads -> OpType]
    /\ ops \in Nat
    /\ clears \in Nat
    /\ lost \in SUBSET Nat
    /\ missed \in BOOLEAN
    /\ mixed \in BOOLEAN

\* A node has one slot until the thread that has locked it is done.
NodeOK(n) ==
    /\ n.type = 1
    /\ n.size \in {1, 2}
    /\ Len(n.keys) \in {1, 2} /\ Len(n.vals) \in {1, 2}
    /\ ~ n.locked => n.size = 1 /\ Len(n.keys) = 1 /\ Len(n.vals) = 1
    /\ n.size = 2 => Len(n.keys) = 2 /\ Len(n.vals) = 2

\* How far the thread in state s, with slot i, has got with its node.
Progress(s, i, n) ==
    /\ n.locked /\ n.size = 1
    /\ s = "shift" => \/ i = 2 /\ Len(n.keys) = 1 /\ Len(n.vals) = 1
                      \/ i = 1 /\ Len(n.keys) = 2 /\ Len(n.vals) = 2
    /\ s = "move"  => i = 2 /\ Len(n.keys) = 2 /\ Len(n.vals) = 1
    /\ s = "place" => \/ i = 2 /\ Len(n.keys) = 2 /\ Len(n.vals) = 1
                      \/ i = 1 /\ Len(n.keys) = 2 /\ Len(n.vals) = 2
    /\ s = "widen" => Len(n.keys) = 2 /\ Len(n.vals) = 2

ThreadOK(t) ==
    /\ pc[t] \in NodePcs => op[t].node \in 1 .. Len(nodes)
    /\ pc[t] \in {"load", "cas", "fetch"} => op[t].i <= nodes[op[t].node].size
    /\ pc[t] \in Lockers => Progress(pc[t], op[t].i, nodes[op[t].node])

Shape ==
    /\ root <= Len(nodes)
    /\ \A n \in 1 .. Len(nodes) : NodeOK(nodes[n])
    /\ \A t \in Threads : ThreadOK(t)
    /\ \A t, u \in Threads :
        pc[t] \in Lockers /\ pc[u] \in Lockers /\ op[t].node = op[u].node => t = u

Base == ATypeOK /\ Shape

-----------------------------------------------------------------------------
\* What a step of one thread leaves alone.
LEMMA NoOpType == NoOp \in OpType
BY NodeAssumption DEF NoOp, OpType, Kinds

LEMMA InitBase == Init => Base
<1> SUFFICES ASSUME Init PROVE Base
  OBVIOUS
<1>1. ATypeOK
  <2>1. op \in [Threads -> OpType] /\ pc \in [Threads -> Pcs]
    BY NoOpType DEF Init, Pcs
  <2>2. nodes \in Seq(NodeType) /\ kvs \in Seq(Keys)
    BY DEF Init
  <2>3. root \in Nat /\ size \in Nat /\ ops \in Nat /\ clears \in Nat
    BY DEF Init
  <2>4. lost \in SUBSET Nat /\ missed \in BOOLEAN /\ mixed \in BOOLEAN
    BY DEF Init
  <2> QED
    BY <2>1, <2>2, <2>3, <2>4 DEF ATypeOK
<1>2. Shape
  BY DEF Init, Shape, ThreadOK, NodePcs, Lockers
<1> QED
  BY <1>1, <1>2 DEF Base

\* Slot by slot: a scan finds the byte, goes on, or comes to the end.
LEMMA ScanStep ==
  ASSUME Base, NEW t \in Threads, op[t].node \in 1 .. Len(nodes),
         NEW found, NEW none, Scan(t, found, none)
  PROVE  \/ /\ op[t].i <= Mine(t).size /\ Mine(t).keys[op[t].i] = Byte(t)
            /\ op' = op /\ pc' = [pc EXCEPT ![t] = found]
         \/ /\ op[t].i <= Mine(t).size /\ Mine(t).keys[op[t].i] # Byte(t)
            /\ op' = [op EXCEPT ![t].i = @ + 1] /\ pc' = pc
         \/ /\ op[t].i > Mine(t).size
            /\ op' = op /\ pc' = [pc EXCEPT ![t] = none]
<1> DEFINE n == Mine(t)
           At_i == IF n.type < 3 THEN {op[t].i} \cap 1 .. n.size ELSE 1 .. n.size
           Hit  == {i \in At_i : n.keys[i] = Byte(t)}
<1>1. n.type = 1 /\ n.size \in {1, 2} /\ op[t].i \in Nat \ {0} /\ op \in [Threads -> OpType]
  BY DEF Base, ATypeOK, Shape, NodeOK, Mine, OpType
<1>2. At_i = {op[t].i} \cap 1 .. n.size
  BY <1>1
<1>3. \/ Hit # {} /\ op' = [op EXCEPT ![t].i = CHOOSE i \in Hit : TRUE] /\ pc' = [pc EXCEPT ![t] = found]
      \/ Hit = {} /\ At_i # {} /\ op' = [op EXCEPT ![t].i = @ + 1] /\ pc' = pc
      \/ Hit = {} /\ At_i = {} /\ op' = op /\ pc' = [pc EXCEPT ![t] = none]
  BY <1>1 DEF Scan, Become
<1>4. CASE Hit # {} /\ op' = [op EXCEPT ![t].i = CHOOSE i \in Hit : TRUE]
           /\ pc' = [pc EXCEPT ![t] = found]
  <2>1. (CHOOSE i \in Hit : TRUE) \in Hit
    BY <1>4
  <2>2. (CHOOSE i \in Hit : TRUE) = op[t].i
    BY <1>2, <2>1
  <2>3. op' = op
    <3>1. op[t] \in OpType
      BY <1>1
    <3>2. [op[t] EXCEPT !.i = op[t].i] = op[t]
      BY <3>1 DEF OpType
    <3>3. op' = [op EXCEPT ![t] = [op[t] EXCEPT !.i = op[t].i]]
      BY <1>4, <2>2
    <3> QED
      BY <1>1, <3>2, <3>3
  <2>4. op[t].i <= n.size /\ n.keys[op[t].i] = Byte(t)
    <3>1. op[t].i \in Hit
      BY <2>1, <2>2
    <3>2. op[t].i \in At_i /\ n.keys[op[t].i] = Byte(t)
      BY <3>1
    <3> HIDE DEF At_i, Hit, n
    <3>3. op[t].i \in 1 .. n.size
      BY <1>2, <3>2
    <3> QED
      BY <3>2, <3>3
  <2> QED
    BY <1>4, <2>3, <2>4
<1>5. CASE Hit = {} /\ At_i # {} /\ op' = [op EXCEPT ![t].i = @ + 1] /\ pc' = pc
  <2>1. op[t].i \in 1 .. n.size /\ n.keys[op[t].i] # Byte(t)
    BY <1>2, <1>5
  <2> QED
    BY <1>1, <1>5, <2>1
<1>6. CASE Hit = {} /\ At_i = {} /\ op' = op /\ pc' = [pc EXCEPT ![t] = none]
  <2>1. op[t].i \notin 1 .. n.size
    BY <1>2, <1>6
  <2> QED
    BY <1>1, <1>6, <2>1
<1> QED
  BY <1>3, <1>4, <1>5, <1>6

-----------------------------------------------------------------------------
\* What a step of t has to keep in order for Shape to hold again: other threads
\* stay where they are, and the place of t fits the nodes.
Others(t) == \A u \in Threads \ {t} : pc'[u] = pc[u] /\ op'[u] = op[u]

LEMMA LocalShape ==
  ASSUME Base, NEW t \in Threads, Others(t), nodes' = nodes, root' \in {root, 0},
         pc'[t] \in NodePcs => op'[t].node \in 1 .. Len(nodes),
         pc'[t] \in {"load", "cas", "fetch"} => op'[t].i <= nodes[op'[t].node].size,
         pc'[t] \notin Lockers
  PROVE  Shape'
<1> USE DEF Base, ATypeOK, Shape, Others
<1>1. root' <= Len(nodes')
  OBVIOUS
<1>2. \A u \in Threads : ThreadOK(u)'
  BY DEF ThreadOK
<1> QED
  BY <1>1, <1>2

LEMMA AppendShape ==
  ASSUME Base, NEW t \in Threads, Others(t), NEW b \in Nat, NEW v \in Nat,
         nodes' = Append(nodes, Node(1, <<b>>, <<v>>)),
         root' \in {root, Len(nodes) + 1},
         pc'[t] \in NodePcs => op'[t].node \in 1 .. Len(nodes),
         pc'[t] \notin {"load", "cas", "fetch"} \cup Lockers
  PROVE  Shape' /\ nodes' \in Seq(NodeType)
<1> DEFINE x == Node(1, <<b>>, <<v>>)
<1> USE DEF Base, ATypeOK
<1>1. x \in NodeType /\ NodeOK(x)
  BY DEF Node, NodeType, NodeOK
<1>a. nodes' = Append(nodes, x)
  OBVIOUS
<1> HIDE DEF x
<1>2. /\ nodes' \in Seq(NodeType) /\ Len(nodes') = Len(nodes) + 1
      /\ \A n \in 1 .. Len(nodes) : nodes'[n] = nodes[n]
      /\ nodes'[Len(nodes) + 1] = x
  BY <1>1, <1>a
<1>3. \A n \in 1 .. Len(nodes') : NodeOK(nodes'[n])
  <2> SUFFICES ASSUME NEW n \in 1 .. Len(nodes') PROVE NodeOK(nodes'[n])
    OBVIOUS
  <2>1. n \in 1 .. Len(nodes) \/ n = Len(nodes) + 1
    BY <1>2
  <2> QED
    BY <1>1, <1>2, <2>1 DEF Shape
<1>4. \A u \in Threads : ThreadOK(u)'
  <2> SUFFICES ASSUME NEW u \in Threads PROVE ThreadOK(u)'
    OBVIOUS
  <2>1. CASE u = t
    BY <1>2, <2>1 DEF ThreadOK, Lockers
  <2>2. CASE u # t
    <3>1. ThreadOK(u) /\ pc'[u] = pc[u] /\ op'[u] = op[u]
      BY <2>2 DEF Shape, Others
    <3>2. pc[u] \in NodePcs => nodes'[op[u].node] = nodes[op[u].node]
      BY <1>2, <3>1 DEF ThreadOK
    <3>3. pc[u] \in {"load", "cas", "fetch"} \cup Lockers => pc[u] \in NodePcs
      BY DEF Lockers, NodePcs
    <3> QED
      BY <1>2, <3>1, <3>2, <3>3 DEF ThreadOK
  <2> QED
    BY <2>1, <2>2
<1>5. root' <= Len(nodes')
  BY <1>2 DEF Shape
<1>6. \A w, u \in Threads :
        pc'[w] \in Lockers /\ pc'[u] \in Lockers /\ op'[w].node = op'[u].node => w = u
  <2>1. pc'[t] \notin Lockers
    OBVIOUS
  <2> QED
    BY <2>1 DEF Shape, Others
<1> QED
  BY <1>2, <1>3, <1>4, <1>5, <1>6 DEF Shape

LEMMA UpdateShape ==
  ASSUME Base, NEW t \in Threads, Others(t), pc[t] \in NodePcs, NEW x \in NodeType,
         nodes' = [nodes EXCEPT ![op[t].node] = x], root' = root,
         NodeOK(x), x.size >= Mine(t).size,
         pc'[t] \in NodePcs => op'[t].node = op[t].node,
         pc'[t] \notin {"load", "cas", "fetch"},
         pc'[t] \in Lockers => Progress(pc'[t], op'[t].i, x),
         \A u \in Threads \ {t} :
            pc[u] \in Lockers /\ op[u].node = op[t].node =>
                Progress(pc[u], op[u].i, x) /\ pc'[t] \notin Lockers
  PROVE  Shape' /\ nodes' \in Seq(NodeType)
<1> USE DEF Base, ATypeOK
<1>1. op[t].node \in 1 .. Len(nodes)
  BY DEF Shape, ThreadOK
<1>2. /\ nodes' \in Seq(NodeType) /\ Len(nodes') = Len(nodes)
      /\ \A n \in 1 .. Len(nodes) : nodes'[n] = IF n = op[t].node THEN x ELSE nodes[n]
  BY <1>1
<1>3. \A n \in 1 .. Len(nodes') : NodeOK(nodes'[n])
  BY <1>2 DEF Shape
<1>4. \A n \in 1 .. Len(nodes) : nodes'[n].size >= nodes[n].size
  <2> SUFFICES ASSUME NEW n \in 1 .. Len(nodes) PROVE nodes'[n].size >= nodes[n].size
    OBVIOUS
  <2>1. nodes[n] \in NodeType
    OBVIOUS
  <2>2. nodes[n].size \in Nat
    BY <2>1 DEF NodeType
  <2> QED
    BY <1>2, <2>2 DEF Mine
<1>5. \A u \in Threads : ThreadOK(u)'
  <2> SUFFICES ASSUME NEW u \in Threads PROVE ThreadOK(u)'
    OBVIOUS
  <2>1. CASE u = t
    <3>1. pc'[t] \in Lockers => pc'[t] \in NodePcs
      BY DEF Lockers, NodePcs
    <3> QED
      BY <1>1, <1>2, <2>1, <3>1 DEF ThreadOK
  <2>2. CASE u # t
    <3>1. ThreadOK(u) /\ pc'[u] = pc[u] /\ op'[u] = op[u]
      BY <2>2 DEF Shape, Others
    <3>2. pc[u] \in {"load", "cas", "fetch"} \cup Lockers => pc[u] \in NodePcs
      BY DEF Lockers, NodePcs
    <3>3. pc'[u] \in {"load", "cas", "fetch"} => op'[u].i <= nodes'[op'[u].node].size
      <4> SUFFICES ASSUME pc[u] \in {"load", "cas", "fetch"}
                   PROVE  op[u].i <= nodes'[op[u].node].size
        BY <3>1
      <4>1. op[u].node \in 1 .. Len(nodes) /\ op[u].i <= nodes[op[u].node].size
        BY <3>1, <3>2 DEF ThreadOK
      <4>2. nodes'[op[u].node].size \in Nat /\ nodes[op[u].node].size \in Nat /\ op[u].i \in Nat
        <5>1. nodes'[op[u].node] \in NodeType /\ nodes[op[u].node] \in NodeType /\ op[u] \in OpType
          BY <1>2, <4>1
        <5> QED
          BY <5>1 DEF NodeType, OpType
      <4> QED
        BY <1>4, <4>1, <4>2
    <3>4. pc'[u] \in Lockers => Progress(pc'[u], op'[u].i, nodes'[op'[u].node])
      BY <1>2, <2>2, <3>1, <3>2 DEF ThreadOK
    <3> QED
      BY <1>2, <3>1, <3>3, <3>4 DEF ThreadOK
  <2> QED
    BY <2>1, <2>2
<1>6. \A v, u \in Threads :
        pc'[v] \in Lockers /\ pc'[u] \in Lockers /\ op'[v].node = op'[u].node => v = u
  <2>1. pc'[t] \in Lockers => op'[t].node = op[t].node
    BY DEF Lockers, NodePcs
  <2> QED
    BY <2>1 DEF Shape, Others
<1> QED
  BY <1>2, <1>3, <1>5, <1>6 DEF Shape

-----------------------------------------------------------------------------
\* The types of what an operation starts and goes on with.
LEMMA OpTypes ==
  ASSUME ATypeOK, NEW t \in Threads
  PROVE  /\ op[t] \in OpType /\ op[t].key \in Keys /\ Byte(t) \in Nat
         /\ \A kind \in Kinds, k \in Keys, kv \in Nat, n \in Nat :
                [NoOp EXCEPT !.kind = kind, !.key = k, !.kv = kv, !.old = n, !.node = n] \in OpType
         /\ \A k \in Keys, n \in Nat : [NoOp EXCEPT !.key = k, !.node = n] \in OpType
         /\ \A kind \in Kinds, kv \in Nat, n \in Nat :
                [op[t] EXCEPT !.kind = kind, !.kv = kv, !.old = n, !.node = n] \in OpType
         /\ \A n \in Nat, e \in Nat :
                [op[t] EXCEPT !.old = n, !.node = n, !.exp = e] \in OpType
         /\ \A v \in Nat, i \in Nat \ {0} : [op[t] EXCEPT !.ver = v, !.i = i] \in OpType
         /\ \A i \in Nat \ {0}, e \in Nat : [op[t] EXCEPT !.i = i, !.exp = e] \in OpType
         /\ \A i \in Nat \ {0} : [op[t] EXCEPT !.i = i] \in OpType
         /\ \A e \in Nat : [op[t] EXCEPT !.exp = e] \in OpType
         /\ \A kind \in Kinds : [op[t] EXCEPT !.kind = kind] \in OpType
<1>1. op[t] \in OpType
  BY DEF ATypeOK
<1>2. op[t].key \in Keys /\ Byte(t) \in Nat
  BY <1>1, NodeAssumption DEF OpType, Byte
<1>3. QED
  BY <1>1, <1>2, NoOpType DEF OpType

\* A call of EpochReclamation alone.
LEMMA QuietBase == ASSUME Base, UNCHANGED avars PROVE Base'
BY DEF Base, avars, ATypeOK, Shape, ThreadOK

LEMMA StartPutBase ==
  ASSUME Base, NEW t \in Threads, NEW kind \in {"insert", "upsert"}, NEW k \in Keys,
         StartPut(t, kind, k)
  PROVE  Base'
<1> USE DEF Base, ATypeOK
<1> DEFINE x == [NoOp EXCEPT !.kind = kind, !.key = k, !.kv = Len(kvs) + 1,
                             !.old = root, !.node = root]
<1>1. /\ pc[t] = "idle"
      /\ pc' = [pc EXCEPT ![t] = IF root = 0 THEN "plant"
                                 ELSE IF kind = "insert" THEN "version" ELSE "again"]
      /\ op' = [op EXCEPT ![t] = x]
      /\ kvs' = Append(kvs, k)
      /\ UNCHANGED <<root, nodes, size, lost, missed>>
  BY DEF StartPut, Begun, Ready, Become, History
<1>2. ops' \in Nat /\ clears' \in Nat /\ mixed' \in BOOLEAN
  BY DEF StartPut, Begun
<1>3. x \in OpType /\ x.node = root
  <2>1. kind \in Kinds /\ Len(kvs) + 1 \in Nat
    BY DEF Kinds
  <2>2. x \in OpType
    BY <2>1, OpTypes
  <2>3. x.node = root
    BY NoOpType DEF OpType
  <2> QED
    BY <2>2, <2>3
<1> HIDE DEF x
<1>4. ATypeOK'
  BY <1>1, <1>2, <1>3 DEF Pcs
<1>5. Others(t)
  BY <1>1 DEF Others
<1>6. Shape'
  <2>1. pc'[t] \in NodePcs => root # 0
    BY <1>1 DEF NodePcs
  <2>2. root # 0 => root \in 1 .. Len(nodes)
    BY DEF Shape
  <2>3. op'[t].node = root
    BY <1>1, <1>3
  <2>4. pc'[t] \notin {"load", "cas", "fetch"} \cup Lockers
    BY <1>1 DEF Lockers
  <2> QED
    BY <1>1, <1>5, <2>1, <2>2, <2>3, <2>4, LocalShape
<1> QED
  BY <1>4, <1>6

LEMMA InsertAgainBase == ASSUME Base, NEW t \in Threads, InsertAgain(t) PROVE Base'
<1> USE DEF Base, ATypeOK
<1> DEFINE x == [op[t] EXCEPT !.kind = "insert", !.kv = Len(kvs) + 1, !.old = root, !.node = root]
<1>1. /\ pc[t] = "again"
      /\ pc' = [pc EXCEPT ![t] = IF root = 0 THEN "plant" ELSE "version"]
      /\ op' = [op EXCEPT ![t] = x]
      /\ kvs' = Append(kvs, op[t].key)
      /\ UNCHANGED <<root, nodes, size, lost, missed, ops, clears, mixed>>
  BY DEF InsertAgain, Ready, Become, History, Counters
<1>2. x \in OpType /\ x.node = root
  <2>1. "insert" \in Kinds /\ Len(kvs) + 1 \in Nat
    BY DEF Kinds
  <2>2. x \in OpType
    BY <2>1, OpTypes
  <2>3. x.node = root
    BY OpTypes, ZenonT(60) DEF OpType
  <2> QED
    BY <2>2, <2>3
<1> HIDE DEF x
<1>3. ATypeOK'
  <2>1. op' \in [Threads -> OpType] /\ pc' \in [Threads -> Pcs]
    BY <1>1, <1>2 DEF Pcs
  <2>2. op[t].key \in Keys
    BY OpTypes
  <2>3. kvs' \in Seq(Keys)
    BY <1>1, <2>2
  <2> QED
    BY <1>1, <2>1, <2>3
<1>4. Others(t)
  BY <1>1 DEF Others
<1>5. Shape'
  <2>1. pc'[t] \in NodePcs => root \in 1 .. Len(nodes)
    BY <1>1 DEF NodePcs, Shape
  <2>2. op'[t].node = root
    BY <1>1, <1>2
  <2>3. pc'[t] \notin {"load", "cas", "fetch"} \cup Lockers
    BY <1>1 DEF Lockers
  <2> QED
    BY <1>1, <1>4, <2>1, <2>2, <2>3, LocalShape
<1> QED
  BY <1>3, <1>5

LEMMA PlantWonBase == ASSUME Base, NEW t \in Threads, PlantWon(t) PROVE Base'
<1> USE DEF Base, ATypeOK
<1>1. /\ pc' = [pc EXCEPT ![t] = "count"]
      /\ nodes' = Append(nodes, Node(1, <<Byte(t)>>, <<op[t].kv>>))
      /\ root' = Len(nodes) + 1
      /\ UNCHANGED <<kvs, size, op, lost, missed, ops, clears, mixed>>
  BY DEF PlantWon, Become, History, Counters
<1>2. Byte(t) \in Nat /\ op[t].kv \in Nat
  BY OpTypes DEF OpType
<1>3. pc'[t] \notin NodePcs /\ pc'[t] \notin {"load", "cas", "fetch"} \cup Lockers
  BY <1>1 DEF NodePcs, Lockers
<1>4. Shape' /\ nodes' \in Seq(NodeType)
  BY <1>1, <1>2, <1>3, AppendShape DEF Others
<1> QED
  BY <1>1, <1>4 DEF Pcs

LEMMA PlantLostBase == ASSUME Base, NEW t \in Threads, PlantLost(t) PROVE Base'
<1> USE DEF Base, ATypeOK
<1>1. /\ root # 0
      /\ nodes' = Append(nodes, Node(1, <<Byte(t)>>, <<op[t].kv>>))
      /\ UNCHANGED <<root, kvs, size, missed, ops, clears, mixed>>
  BY DEF PlantLost, Counters
<1>2. Byte(t) \in Nat /\ op[t].kv \in Nat
  BY OpTypes DEF OpType
<1>3. \/ /\ pc' = [pc EXCEPT ![t] = "drop"]
         /\ op' = [op EXCEPT ![t] = [op[t] EXCEPT !.old = root, !.node = root, !.exp = Len(nodes) + 1]]
         /\ lost' = lost \cup {op[t].kv}
      \/ pc' = [pc EXCEPT ![t] = "again"] /\ op' = op /\ lost' = lost
  BY DEF PlantLost, Become
<1>4. op' \in [Threads -> OpType] /\ Others(t) /\ (pc'[t] = "drop" => op'[t].node = root)
  <2> DEFINE x == [op[t] EXCEPT !.old = root, !.node = root, !.exp = Len(nodes) + 1]
  <2>1. x \in OpType /\ x.node = root
    <3>1. Len(nodes) + 1 \in Nat
      OBVIOUS
    <3>2. x \in OpType
      BY <3>1, OpTypes
    <3>3. x.node = root
      BY OpTypes, ZenonT(60) DEF OpType
    <3> QED
      BY <3>2, <3>3
  <2> HIDE DEF x
  <2>2. CASE pc' = [pc EXCEPT ![t] = "drop"] /\ op' = [op EXCEPT ![t] = x]
    BY <2>1, <2>2 DEF Others
  <2>3. CASE pc' = [pc EXCEPT ![t] = "again"] /\ op' = op
    BY <2>3 DEF Others
  <2> QED
    BY <1>3, <2>2, <2>3 DEF x
<1>5. pc'[t] \in {"drop", "again"} /\ root \in 1 .. Len(nodes)
  BY <1>1, <1>3 DEF Shape
<1>6. /\ pc'[t] \in NodePcs => op'[t].node \in 1 .. Len(nodes)
      /\ pc'[t] \notin {"load", "cas", "fetch"} \cup Lockers
  BY <1>4, <1>5 DEF NodePcs, Lockers
<1>7. Shape' /\ nodes' \in Seq(NodeType)
  BY <1>1, <1>2, <1>4, <1>6, AppendShape
<1>8. lost' \in SUBSET Nat /\ pc' \in [Threads -> Pcs]
  BY <1>2, <1>3 DEF Pcs
<1> QED
  BY <1>1, <1>4, <1>7, <1>8

-----------------------------------------------------------------------------
\* A step of t that writes no node.
LEMMA LocalBase ==
  ASSUME Base, NEW t \in Threads, NEW s \in Pcs, NEW x \in OpType,
         pc' = [pc EXCEPT ![t] = s], op' = [op EXCEPT ![t] = x],
         UNCHANGED <<nodes, kvs, lost>>, root' \in {root, 0}, size' \in Nat,
         ops' \in Nat, clears' \in Nat, mixed' \in BOOLEAN, missed' \in BOOLEAN,
         s \in NodePcs => x.node \in 1 .. Len(nodes),
         s \in {"load", "cas", "fetch"} => x.i <= nodes[x.node].size,
         s \notin Lockers
  PROVE  Base'
<1> USE DEF Base, ATypeOK
<1>1. pc'[t] = s /\ op'[t] = x /\ Others(t)
  BY DEF Others
<1>2. Shape'
  BY <1>1, LocalShape
<1>3. pc' \in [Threads -> Pcs] /\ op' \in [Threads -> OpType]
  OBVIOUS
<1> QED
  BY <1>2, <1>3

\* A step of t that writes its node.
LEMMA UpdateBase ==
  ASSUME Base, NEW t \in Threads, NEW s \in Pcs, NEW o \in OpType, NEW x \in NodeType,
         pc' = [pc EXCEPT ![t] = s], op' = [op EXCEPT ![t] = o],
         UNCHANGED <<root, kvs, size, ops, clears, lost, missed, mixed>>,
         pc[t] \in NodePcs, nodes' = [nodes EXCEPT ![op[t].node] = x],
         NodeOK(x), x.size >= Mine(t).size,
         s \in NodePcs => o.node = op[t].node,
         s \notin {"load", "cas", "fetch"},
         s \in Lockers => Progress(s, o.i, x),
         \A u \in Threads \ {t} :
            pc[u] \in Lockers /\ op[u].node = op[t].node =>
                Progress(pc[u], op[u].i, x) /\ s \notin Lockers
  PROVE  Base'
<1> USE DEF Base, ATypeOK
<1>1. pc'[t] = s /\ op'[t] = o /\ Others(t)
  BY DEF Others
<1>2. Shape' /\ nodes' \in Seq(NodeType)
  <2>1. /\ pc'[t] \in NodePcs => op'[t].node = op[t].node
        /\ pc'[t] \notin {"load", "cas", "fetch"}
        /\ pc'[t] \in Lockers => Progress(pc'[t], op'[t].i, x)
    BY <1>1
  <2>2. \A u \in Threads \ {t} :
            pc[u] \in Lockers /\ op[u].node = op[t].node =>
                Progress(pc[u], op[u].i, x) /\ pc'[t] \notin Lockers
    BY <1>1
  <2> HIDE DEF Base, ATypeOK
  <2> QED
    BY <1>1, <2>1, <2>2, UpdateShape
<1>3. pc' \in [Threads -> Pcs] /\ op' \in [Threads -> OpType]
  OBVIOUS
<1> QED
  BY <1>2, <1>3

LEMMA OneOrTwo ==
  \A a, b : (a = 1 \/ a = 2) /\ (b = 1 \/ b = 2) /\ (a = 2 => b = 2) => a <= b
OBVIOUS

\* The node a thread works on, and the slots it has.
LEMMA MineType ==
  ASSUME Base, NEW t \in Threads, pc[t] \in NodePcs
  PROVE  /\ op[t].node \in 1 .. Len(nodes)
         /\ Mine(t) \in NodeType /\ NodeOK(Mine(t)) /\ ThreadOK(t)
         /\ Mine(t).ver \in Nat /\ Mine(t).locked \in BOOLEAN
         /\ Mine(t).keys \in Seq(Nat) /\ Mine(t).vals \in Seq(Nat)
         /\ Mine(t).size \in Nat
         /\ \A i \in 1 .. Mine(t).size :
                Mine(t).keys[i] \in Nat /\ Mine(t).vals[i] \in Nat
<1>1. op[t].node \in 1 .. Len(nodes) /\ ThreadOK(t)
  BY DEF Base, Shape, ThreadOK
<1>2. Mine(t) \in NodeType /\ NodeOK(Mine(t))
  BY <1>1 DEF Base, ATypeOK, Shape, Mine
<1>3. /\ Mine(t).ver \in Nat /\ Mine(t).locked \in BOOLEAN
      /\ Mine(t).keys \in Seq(Nat) /\ Mine(t).vals \in Seq(Nat)
      /\ Mine(t).size \in Nat
  BY <1>2 DEF NodeType
<1>4. Mine(t).size <= Len(Mine(t).keys) /\ Mine(t).size <= Len(Mine(t).vals)
  <2>1. /\ Mine(t).size = 1 \/ Mine(t).size = 2
        /\ Len(Mine(t).keys) = 1 \/ Len(Mine(t).keys) = 2
        /\ Len(Mine(t).vals) = 1 \/ Len(Mine(t).vals) = 2
        /\ Mine(t).size = 2 => Len(Mine(t).keys) = 2 /\ Len(Mine(t).vals) = 2
    BY <1>2 DEF NodeOK
  <2> QED
    BY <2>1, OneOrTwo
<1>5. \A i \in 1 .. Mine(t).size :
        Mine(t).keys[i] \in Nat /\ Mine(t).vals[i] \in Nat
  <2> SUFFICES ASSUME NEW i \in 1 .. Mine(t).size
               PROVE  Mine(t).keys[i] \in Nat /\ Mine(t).vals[i] \in Nat
    OBVIOUS
  <2>1. i \in 1 .. Len(Mine(t).keys) /\ i \in 1 .. Len(Mine(t).vals)
    BY <1>3, <1>4
  <2> QED
    BY <1>3, <2>1, SMTT(40)
<1> QED
  BY <1>1, <1>2, <1>3, <1>5

LEMMA DropNodeBase == ASSUME Base, NEW t \in Threads, DropNode(t) PROVE Base'
<1> DEFINE x == [op[t] EXCEPT !.exp = 0]
<1>1. /\ pc[t] = "drop"
      /\ pc' = [pc EXCEPT ![t] = "version"] /\ op' = [op EXCEPT ![t] = x]
      /\ UNCHANGED <<root, nodes, kvs, size, ops, clears, mixed, lost, missed>>
  BY DEF DropNode, Ready, Become, Counters, History
<1>2. x \in OpType /\ x.node = op[t].node
  <2>1. op[t] \in OpType
    BY DEF Base, ATypeOK
  <2> QED
    BY <2>1 DEF OpType
<1>3. op[t].node \in 1 .. Len(nodes)
  BY <1>1, MineType DEF NodePcs
<1> HIDE DEF x
<1>4. "version" \in Pcs /\ "version" \notin Lockers
  BY DEF Pcs, Lockers
<1> QED
  BY <1>1, <1>2, <1>3, <1>4, LocalBase DEF Base, ATypeOK

LEMMA ReadVersionBase == ASSUME Base, NEW t \in Threads, ReadVersion(t) PROVE Base'
<1> DEFINE x == [op[t] EXCEPT !.ver = Mine(t).ver, !.i = 1]
<1>1. /\ pc[t] = "version"
      /\ pc' = [pc EXCEPT ![t] = "scan"] /\ op' = [op EXCEPT ![t] = x]
      /\ UNCHANGED <<root, nodes, kvs, size, ops, clears, mixed, lost, missed>>
  BY DEF ReadVersion, Ready, Become, Counters, History
<1>2. op[t].node \in 1 .. Len(nodes) /\ Mine(t).ver \in Nat
  BY <1>1, MineType DEF NodePcs
<1>3. x \in OpType /\ x.node = op[t].node
  <2> DEFINE y == [op[t] EXCEPT !.ver = Mine(t).ver]
  <2>1. op[t] \in OpType
    BY DEF Base, ATypeOK
  <2>2. y \in OpType /\ y.node = op[t].node
    BY <1>2, <2>1 DEF OpType
  <2>3. x = [y EXCEPT !.i = 1]
    OBVIOUS
  <2> HIDE DEF y
  <2>4. [y EXCEPT !.i = 1] \in OpType /\ [y EXCEPT !.i = 1].node = y.node
    BY <2>2 DEF OpType
  <2> QED
    BY <2>2, <2>3, <2>4
<1> HIDE DEF x
<1>4. "scan" \in Pcs /\ "scan" \notin Lockers
  BY DEF Pcs, Lockers
<1> QED
  BY <1>1, <1>2, <1>3, <1>4, LocalBase DEF Base, ATypeOK

\* A step of a scan, of insert (load, lock) or of find (fetch, none).
LEMMA ScanBase ==
  ASSUME Base, NEW t \in Threads, NEW found \in {"load", "fetch"},
         NEW none \in {"lock", "none"}, pc[t] \in {"scan", "look"},
         Scan(t, found, none),
         UNCHANGED <<root, nodes, kvs, size, ops, clears, mixed, lost, missed>>
  PROVE  Base'
<1>1. pc[t] \in NodePcs /\ pc[t] \notin Lockers /\ pc[t] \notin {"load", "cas", "fetch"}
  BY DEF NodePcs, Lockers
<1>2. op[t].node \in 1 .. Len(nodes) /\ op[t] \in OpType /\ op[t].i \in Nat \ {0}
  BY <1>1, MineType DEF Base, ATypeOK, OpType
<1>3. pc \in [Threads -> Pcs] /\ op \in [Threads -> OpType]
  BY DEF Base, ATypeOK
<1>4. found \in Pcs /\ none \in Pcs /\ found \notin Lockers /\ none \notin Lockers
  BY DEF Pcs, Lockers
<1>5. CASE /\ op[t].i <= Mine(t).size
           /\ op' = op /\ pc' = [pc EXCEPT ![t] = found]
  <2>1. op' = [op EXCEPT ![t] = op[t]]
    BY <1>3, <1>5
  <2> QED
    BY <1>2, <1>4, <1>5, <2>1, LocalBase DEF Base, ATypeOK, Mine
<1>6. CASE op' = [op EXCEPT ![t].i = @ + 1] /\ pc' = pc
  <2> DEFINE x == [op[t] EXCEPT !.i = op[t].i + 1]
  <2>1. op' = [op EXCEPT ![t] = x] /\ pc' = [pc EXCEPT ![t] = pc[t]] /\ pc[t] \in Pcs
    BY <1>3, <1>6
  <2>2. x \in OpType /\ x.node = op[t].node
    BY <1>2, SMTT(40) DEF OpType
  <2> HIDE DEF x
  <2> QED
    BY <1>1, <1>2, <2>1, <2>2, LocalBase DEF Base, ATypeOK
<1>7. CASE op' = op /\ pc' = [pc EXCEPT ![t] = none]
  <2>1. op' = [op EXCEPT ![t] = op[t]] /\ none \notin {"load", "cas", "fetch"}
    BY <1>3, <1>7
  <2> QED
    BY <1>2, <1>4, <1>7, <2>1, LocalBase DEF Base, ATypeOK
<1> QED
  BY <1>2, <1>5, <1>6, <1>7, ScanStep

LEMMA LoadSlotBase == ASSUME Base, NEW t \in Threads, LoadSlot(t) PROVE Base'
<1> DEFINE e == Mine(t).vals[op[t].i]
           x == [op[t] EXCEPT !.exp = e]
<1>1. /\ pc[t] = "load"
      /\ UNCHANGED <<root, nodes, kvs, size, ops, clears, mixed, lost, missed>>
      /\ \/ pc' = [pc EXCEPT ![t] = "idle"] /\ op' = [op EXCEPT ![t] = NoOp]
         \/ pc' = [pc EXCEPT ![t] = "cas"] /\ op' = [op EXCEPT ![t] = x]
  BY DEF LoadSlot, Ready, Become, Return, Counters, History
<1>2. /\ op[t].node \in 1 .. Len(nodes) /\ op[t].i \in Nat \ {0}
      /\ op[t].i <= Mine(t).size /\ Mine(t).size \in Nat
      /\ \A i \in 1 .. Mine(t).size : Mine(t).vals[i] \in Nat
  BY <1>1, MineType, OpTypes DEF NodePcs, ThreadOK, Mine, Base, OpType
<1>3. e \in Nat
  BY <1>2
<1> HIDE DEF e
<1>4. x \in OpType /\ x.node = op[t].node /\ x.i = op[t].i
  <2>1. op[t] \in OpType
    BY DEF Base, ATypeOK
  <2> QED
    BY <1>3, <2>1 DEF OpType
<1> HIDE DEF x
<1>5. /\ "idle" \in Pcs /\ "idle" \notin NodePcs \cup Lockers \cup {"load", "cas", "fetch"}
      /\ "cas" \in Pcs /\ "cas" \notin Lockers
  BY DEF Pcs, Lockers, NodePcs
<1>6. CASE pc' = [pc EXCEPT ![t] = "idle"] /\ op' = [op EXCEPT ![t] = NoOp]
  BY <1>1, <1>5, <1>6, NoOpType, LocalBase DEF Base, ATypeOK
<1>7. CASE pc' = [pc EXCEPT ![t] = "cas"] /\ op' = [op EXCEPT ![t] = x]
  BY <1>1, <1>2, <1>4, <1>5, <1>7, LocalBase DEF Base, ATypeOK, Mine
<1> QED
  BY <1>1, <1>6, <1>7

-----------------------------------------------------------------------------
\* A node with one field written.
LEMMA SetKeys ==
  ASSUME NEW n \in NodeType, NEW a \in Seq(Nat), NEW x, x = [n EXCEPT !.keys = a]
  PROVE  /\ x \in NodeType /\ x.keys = a
         /\ x.type = n.type /\ x.locked = n.locked /\ x.vals = n.vals /\ x.size = n.size
BY DEF NodeType

LEMMA SetVals ==
  ASSUME NEW n \in NodeType, NEW a \in Seq(Nat), NEW x, x = [n EXCEPT !.vals = a]
  PROVE  /\ x \in NodeType /\ x.vals = a
         /\ x.type = n.type /\ x.locked = n.locked /\ x.keys = n.keys /\ x.size = n.size
BY DEF NodeType

LEMMA SetSize ==
  ASSUME NEW n \in NodeType, NEW a \in Nat, NEW x, x = [n EXCEPT !.size = a]
  PROVE  /\ x \in NodeType /\ x.size = a
         /\ x.type = n.type /\ x.locked = n.locked /\ x.keys = n.keys /\ x.vals = n.vals
BY DEF NodeType

LEMMA SetLocked ==
  ASSUME NEW n \in NodeType, NEW x, x = [n EXCEPT !.locked = TRUE]
  PROVE  /\ x \in NodeType /\ x.locked = TRUE
         /\ x.type = n.type /\ x.keys = n.keys /\ x.vals = n.vals /\ x.size = n.size
BY DEF NodeType

LEMMA IncrementedFields ==
  ASSUME NEW n \in NodeType, NEW x, x = Incremented(n)
  PROVE  /\ x \in NodeType /\ x.size = n.size
         /\ x.type = n.type /\ x.locked = n.locked /\ x.keys = n.keys /\ x.vals = n.vals
<1>1. n.ver + 1 \in Nat
  BY DEF NodeType
<1> QED
  BY <1>1 DEF NodeType, Incremented

LEMMA PutSeq ==
  ASSUME NEW s \in Seq(Nat), NEW i \in 1 .. Len(s) + 1, NEW x \in Nat
  PROVE  /\ Put(s, i, x) \in Seq(Nat)
         /\ Len(Put(s, i, x)) = IF i > Len(s) THEN i ELSE Len(s)
         /\ \A j \in 1 .. Len(s) : Put(s, i, x)[j] = IF j = i THEN x ELSE s[j]
         /\ Put(s, i, x)[i] = x
<1> DEFINE m == IF i > Len(s) THEN i ELSE Len(s)
           p == Put(s, i, x)
<1>1. m \in Nat /\ i \in 1 .. m /\ (m = Len(s) \/ (m = Len(s) + 1 /\ i = m))
  OBVIOUS
<1>2. p = [j \in 1 .. m |-> IF j = i THEN x ELSE s[j]]
  BY DEF Put
<1>3. \A j \in 1 .. m : (IF j = i THEN x ELSE s[j]) \in Nat
  BY <1>1
<1> HIDE DEF m, p
<1>4. p \in [1 .. m -> Nat]
  BY <1>2, <1>3
<1>5. p \in Seq(Nat) /\ Len(p) = m
  BY <1>1, <1>4
<1>6. \A j \in 1 .. m : p[j] = IF j = i THEN x ELSE s[j]
  BY <1>2
<1> QED
  BY <1>1, <1>5, <1>6 DEF m, p

LEMMA CasSlotBase == ASSUME Base, NEW t \in Threads, CasSlot(t) PROVE Base'
<1>1. /\ pc[t] = "cas"
      /\ UNCHANGED <<root, kvs, size, ops, clears, mixed, lost>>
  BY DEF CasSlot, Ready, Counters
<1>2. /\ op[t].node \in 1 .. Len(nodes) /\ Mine(t) \in NodeType /\ NodeOK(Mine(t))
      /\ Mine(t).vals \in Seq(Nat) /\ Mine(t).size \in Nat /\ ThreadOK(t)
      /\ op[t] \in OpType /\ op[t].i \in Nat \ {0} /\ op[t].kv \in Nat
      /\ pc[t] \in NodePcs
  BY <1>1, MineType DEF NodePcs, Base, ATypeOK, OpType
<1>3. op[t].i \in 1 .. Len(Mine(t).vals)
  <2>1. op[t].i <= Mine(t).size
    BY <1>1, <1>2 DEF ThreadOK, Mine
  <2>2. Mine(t).size <= Len(Mine(t).vals)
    BY <1>2, OneOrTwo DEF NodeOK
  <2> QED
    BY <1>2, <2>1, <2>2
<1>4. /\ "idle" \in Pcs /\ "idle" \notin NodePcs \cup Lockers \cup {"load", "cas", "fetch"}
      /\ "scan" \in Pcs /\ "scan" \notin Lockers \cup {"load", "cas", "fetch"}
  BY DEF Pcs, Lockers, NodePcs
<1>5. CASE Mine(t).vals[op[t].i] = op[t].exp
  <2> DEFINE a == [Mine(t).vals EXCEPT ![op[t].i] = op[t].kv]
             x == [Mine(t) EXCEPT !.vals = a]
  <2>1. /\ nodes' = [nodes EXCEPT ![op[t].node] = x]
        /\ pc' = [pc EXCEPT ![t] = "idle"] /\ op' = [op EXCEPT ![t] = NoOp]
        /\ missed' = missed
    BY <1>5 DEF CasSlot, Return, Become, Mine
  <2>2. a \in Seq(Nat) /\ Len(a) = Len(Mine(t).vals)
    BY <1>2, <1>3
  <2> HIDE DEF a
  <2>3. /\ x \in NodeType /\ x.vals = a
        /\ x.type = Mine(t).type /\ x.locked = Mine(t).locked
        /\ x.keys = Mine(t).keys /\ x.size = Mine(t).size
    BY <1>2, <2>2, SetVals
  <2> HIDE DEF x
  <2>4. NodeOK(x) /\ x.size >= Mine(t).size
    BY <1>2, <2>2, <2>3 DEF NodeOK
  <2>5. \A u \in Threads \ {t} :
            pc[u] \in Lockers /\ op[u].node = op[t].node => Progress(pc[u], op[u].i, x)
    <3> SUFFICES ASSUME NEW u \in Threads, pc[u] \in Lockers, op[u].node = op[t].node
                 PROVE  Progress(pc[u], op[u].i, x)
      OBVIOUS
    <3>1. Progress(pc[u], op[u].i, Mine(t))
      BY DEF Base, Shape, ThreadOK, Mine
    <3> QED
      BY <2>2, <2>3, <3>1 DEF Progress
  <2> QED
    BY <1>1, <1>2, <1>4, <2>1, <2>3, <2>4, <2>5, NoOpType, UpdateBase
<1>6. CASE Mine(t).vals[op[t].i] # op[t].exp
  <2> DEFINE y == [op[t] EXCEPT !.i = op[t].i + 1]
             x == [y EXCEPT !.exp = 0]
  <2>1. /\ op' = [op EXCEPT ![t] = x] /\ pc' = [pc EXCEPT ![t] = "scan"]
        /\ nodes' = nodes /\ missed' = TRUE
    <3>1. /\ missed' = TRUE /\ nodes' = nodes
          /\ op' = [op EXCEPT ![t].i = @ + 1, ![t].exp = 0]
          /\ pc' = [pc EXCEPT ![t] = IF Mine(t).type < 3 THEN "scan" ELSE "version"]
      BY <1>6 DEF CasSlot, Become
    <3>2. Mine(t).type = 1
      BY <1>2 DEF NodeOK
    <3>3. op' = [op EXCEPT ![t] = [[op[t] EXCEPT !.i = op[t].i + 1] EXCEPT !.exp = 0]]
      BY <3>1
    <3>4. op' = [op EXCEPT ![t] = x]
      BY <3>3
    <3> HIDE DEF x, y
    <3>5. pc' = [pc EXCEPT ![t] = "scan"]
      BY <3>1, <3>2
    <3> QED
      BY <3>1, <3>4, <3>5
  <2>2. y \in OpType /\ y.node = op[t].node
    <3>1. op[t].i + 1 \in Nat \ {0}
      BY <1>2
    <3> QED
      BY <1>2, <3>1 DEF OpType
  <2> HIDE DEF y
  <2>3. x \in OpType /\ x.node = op[t].node
    BY <2>2 DEF OpType
  <2> HIDE DEF x
  <2> QED
    BY <1>1, <1>2, <1>4, <2>1, <2>3, LocalBase DEF Base, ATypeOK
<1> QED
  BY <1>5, <1>6

LEMMA LockBase == ASSUME Base, NEW t \in Threads, Lock(t) PROVE Base'
<1>1. /\ pc[t] = "lock" /\ Mine(t).locked = FALSE
      /\ UNCHANGED <<kvs, size, ops, clears, mixed, lost, missed>>
  <2>1. pc[t] = "lock" /\ ~ Mine(t).locked
    BY DEF Lock, Ready
  <2>2. Mine(t).locked \in BOOLEAN
    BY <2>1, MineType DEF NodePcs
  <2> QED
    BY <2>1, <2>2 DEF Lock, Counters, History
<1>2. /\ op[t].node \in 1 .. Len(nodes) /\ Mine(t) \in NodeType /\ NodeOK(Mine(t))
      /\ op[t] \in OpType /\ pc[t] \in NodePcs
  BY <1>1, MineType DEF NodePcs, Base, ATypeOK
<1>3. /\ Mine(t).type = 1 /\ Mine(t).size = 1
      /\ Len(Mine(t).keys) = 1 /\ Len(Mine(t).vals) = 1
  BY <1>1, <1>2 DEF NodeOK
<1> DEFINE x == [Mine(t) EXCEPT !.locked = TRUE]
           o == [op[t] EXCEPT !.i = 2]
<1>4. /\ nodes' = [nodes EXCEPT ![op[t].node] = x] /\ root' = root
      /\ pc' = [pc EXCEPT ![t] = "shift"] /\ op' = [op EXCEPT ![t] = o]
  <2>1. Mine(t).size < Capacity[Mine(t).type]
    BY <1>3, NodeAssumption
  <2>2. Mine(t).size + 1 = 2
    BY <1>3
  <2> QED
    BY <2>1, <2>2 DEF Lock, SetNode, Become, Mine
<1>5. /\ x \in NodeType /\ x.locked = TRUE /\ x.type = 1 /\ x.size = 1
      /\ Len(x.keys) = 1 /\ Len(x.vals) = 1
  BY <1>2, <1>3, SetLocked
<1>6. o \in OpType /\ o.node = op[t].node /\ o.i = 2
  BY <1>2, SMTT(40) DEF OpType
<1> HIDE DEF x, o
<1>7. NodeOK(x) /\ x.size >= Mine(t).size /\ Progress("shift", o.i, x)
  BY <1>3, <1>5, <1>6 DEF NodeOK, Progress
<1>8. \A u \in Threads : ~ (pc[u] \in Lockers /\ op[u].node = op[t].node)
  BY <1>1 DEF Base, Shape, ThreadOK, Progress, Mine
<1>9. "shift" \in Pcs /\ "shift" \notin {"load", "cas", "fetch"}
  BY DEF Pcs
<1> QED
  BY <1>1, <1>2, <1>4, <1>5, <1>6, <1>7, <1>8, <1>9, UpdateBase

LEMMA LockFailsBase == ASSUME Base, NEW t \in Threads, LockFails(t) PROVE Base'
<1>1. /\ pc[t] = "lock" /\ pc' = [pc EXCEPT ![t] = "version"] /\ op' = op
      /\ UNCHANGED <<root, nodes, kvs, size, ops, clears, mixed, lost, missed>>
  BY DEF LockFails, Ready, Become, Counters, History
<1>2. op[t].node \in 1 .. Len(nodes) /\ op[t] \in OpType /\ op' = [op EXCEPT ![t] = op[t]]
  BY <1>1, MineType DEF NodePcs, Base, ATypeOK
<1>3. "version" \in Pcs /\ "version" \notin Lockers
  BY DEF Pcs, Lockers
<1> QED
  BY <1>1, <1>2, <1>3, LocalBase DEF Base, ATypeOK

\* The thread that has locked a node is alone with it.
LEMMA Locker ==
  ASSUME Base, NEW t \in Threads, pc[t] \in Lockers
  PROVE  /\ pc[t] \in NodePcs /\ op[t].node \in 1 .. Len(nodes)
         /\ Mine(t) \in NodeType /\ NodeOK(Mine(t))
         /\ Progress(pc[t], op[t].i, Mine(t))
         /\ Mine(t).type = 1 /\ Mine(t).size = 1 /\ Mine(t).locked
         /\ Mine(t).keys \in Seq(Nat) /\ Mine(t).vals \in Seq(Nat)
         /\ op[t] \in OpType /\ op[t].i \in Nat \ {0} /\ op[t].kv \in Nat /\ Byte(t) \in Nat
         /\ \A u \in Threads \ {t} :
                ~ (pc[u] \in Lockers /\ op[u].node = op[t].node)
<1>1. pc[t] \in NodePcs
  BY DEF Lockers, NodePcs
<1>2. Progress(pc[t], op[t].i, Mine(t)) /\ NodeOK(Mine(t))
  BY <1>1, MineType DEF Base, Shape, ThreadOK, Mine
<1>3. \A u \in Threads \ {t} : ~ (pc[u] \in Lockers /\ op[u].node = op[t].node)
  BY DEF Base, Shape
<1> QED
  BY <1>1, <1>2, <1>3, MineType, OpTypes DEF Progress, NodeOK, Base, OpType

\* The thread that has locked a node writes it.
LEMMA LockerBase ==
  ASSUME Base, NEW t \in Threads, NEW s \in Pcs, NEW o \in OpType, NEW x \in NodeType,
         pc' = [pc EXCEPT ![t] = s], op' = [op EXCEPT ![t] = o],
         UNCHANGED <<root, kvs, size, ops, clears, lost, missed, mixed>>,
         pc[t] \in Lockers, nodes' = [nodes EXCEPT ![op[t].node] = x],
         x.type = 1, x.locked = TRUE, x.size = 1 \/ x.size = 2,
         Len(x.keys) = 1 \/ Len(x.keys) = 2, Len(x.vals) = 1 \/ Len(x.vals) = 2,
         x.size = 2 => Len(x.keys) = 2 /\ Len(x.vals) = 2,
         o.node = op[t].node,
         s \notin {"load", "cas", "fetch"},
         s \in Lockers => Progress(s, o.i, x)
  PROVE  Base'
<1>1. /\ pc[t] \in NodePcs /\ Mine(t).size = 1
      /\ \A u \in Threads \ {t} : ~ (pc[u] \in Lockers /\ op[u].node = op[t].node)
  BY Locker
<1>2. NodeOK(x)
  BY DEF NodeOK
<1>3. x.size >= Mine(t).size
  BY <1>1
<1> QED
  BY <1>1, <1>2, <1>3, UpdateBase

LEMMA PutTwo ==
  ASSUME NEW s \in Seq(Nat), NEW i, NEW x \in Nat,
         (i = 2 /\ Len(s) = 1) \/ (i = 1 /\ Len(s) = 2)
  PROVE  /\ Put(s, i, x) \in Seq(Nat) /\ Len(Put(s, i, x)) = 2
         /\ Put(s, i, x)[i] = x
         /\ i = 2 => Put(s, i, x)[1] = s[1]
         /\ i = 1 => Put(s, i, x)[2] = s[2]
<1>1. i \in 1 .. Len(s) + 1
  OBVIOUS
<1>2. /\ Put(s, i, x) \in Seq(Nat)
      /\ Len(Put(s, i, x)) = IF i > Len(s) THEN i ELSE Len(s)
      /\ \A j \in 1 .. Len(s) : Put(s, i, x)[j] = IF j = i THEN x ELSE s[j]
      /\ Put(s, i, x)[i] = x
  BY <1>1, PutSeq
<1>3. Len(Put(s, i, x)) = 2
  BY <1>2
<1>4. i = 2 => Put(s, i, x)[1] = s[1]
  <2> SUFFICES ASSUME i = 2 PROVE Put(s, i, x)[1] = s[1]
    OBVIOUS
  <2>1. Len(s) = 1 /\ 1 \in 1 .. Len(s) /\ 1 # i
    OBVIOUS
  <2> QED
    BY <1>2, <2>1
<1>5. i = 1 => Put(s, i, x)[2] = s[2]
  <2> SUFFICES ASSUME i = 1 PROVE Put(s, i, x)[2] = s[2]
    OBVIOUS
  <2>1. Len(s) = 2
    OBVIOUS
  <2>2. 2 \in 1 .. Len(s)
    BY <2>1
  <2> QED
    BY <1>2, <2>2
<1> QED
  BY <1>2, <1>3, <1>4, <1>5

LEMMA PutKeyBase == ASSUME Base, NEW t \in Threads, PutKey(t) PROVE Base'
<1> DEFINE b == IF Moves(t) THEN Mine(t).keys[op[t].i - 1] ELSE Byte(t)
           a == Put(Mine(t).keys, op[t].i, b)
           x == [Mine(t) EXCEPT !.keys = a]
           s == IF Moves(t) THEN "move" ELSE "place"
<1>1. /\ pc[t] = "shift"
      /\ nodes' = [nodes EXCEPT ![op[t].node] = x]
      /\ pc' = [pc EXCEPT ![t] = s] /\ op' = op
      /\ UNCHANGED <<root, kvs, size, ops, clears, mixed, lost, missed>>
  BY DEF PutKey, Ready, SetNode, Become, Mine, Counters, History
<1>2. pc[t] \in Lockers
  BY <1>1 DEF Lockers
<1>3. \/ op[t].i = 2 /\ Len(Mine(t).keys) = 1 /\ Len(Mine(t).vals) = 1
      \/ op[t].i = 1 /\ Len(Mine(t).keys) = 2 /\ Len(Mine(t).vals) = 2
  BY <1>1, <1>2, Locker DEF Progress
<1>4. Moves(t) => op[t].i = 2
  BY <1>3 DEF Moves
<1>5. b \in Nat
  <2>1. CASE Moves(t)
    BY <1>2, <1>3, <1>4, <2>1, Locker
  <2>2. CASE ~ Moves(t)
    BY <1>2, <2>2, Locker
  <2> QED
    BY <2>1, <2>2
<1> HIDE DEF b
<1>6. a \in Seq(Nat) /\ Len(a) = 2
  BY <1>2, <1>3, <1>5, Locker, PutTwo
<1> HIDE DEF a
<1>7. /\ x \in NodeType /\ x.keys = a /\ x.type = 1 /\ x.size = 1
      /\ x.locked /\ x.vals = Mine(t).vals
  BY <1>2, <1>6, Locker, SetKeys
<1> HIDE DEF x
<1>9. Progress(s, op[t].i, x)
  BY <1>3, <1>4, <1>6, <1>7 DEF Progress
<1>10. s \in Pcs /\ s \notin {"load", "cas", "fetch"}
  BY DEF Pcs
<1>11. op' = [op EXCEPT ![t] = op[t]]
  BY <1>1 DEF Base, ATypeOK
<1>12. op[t] \in OpType
  BY <1>2, Locker
<1> HIDE DEF s
<1> QED
  BY <1>1, <1>2, <1>3, <1>6, <1>7, <1>9, <1>10, <1>11, <1>12, LockerBase

LEMMA MoveValueBase == ASSUME Base, NEW t \in Threads, MoveValue(t) PROVE Base'
<1> DEFINE a == Put(Mine(t).vals, op[t].i, Mine(t).vals[op[t].i - 1])
           x == [Mine(t) EXCEPT !.vals = a]
           o == [op[t] EXCEPT !.i = op[t].i - 1]
<1>1. /\ pc[t] = "move"
      /\ nodes' = [nodes EXCEPT ![op[t].node] = x]
      /\ pc' = [pc EXCEPT ![t] = "shift"] /\ op' = [op EXCEPT ![t] = o]
      /\ UNCHANGED <<root, kvs, size, ops, clears, mixed, lost, missed>>
  BY DEF MoveValue, Ready, SetNode, Become, Mine, Counters, History
<1>2. pc[t] \in Lockers
  BY <1>1 DEF Lockers
<1>3. op[t].i = 2 /\ Len(Mine(t).keys) = 2 /\ Len(Mine(t).vals) = 1
  BY <1>1, <1>2, Locker DEF Progress
<1>4. a \in Seq(Nat) /\ Len(a) = 2
  <2>1. Mine(t).vals[op[t].i - 1] \in Nat
    BY <1>2, <1>3, Locker
  <2>2. Mine(t).vals \in Seq(Nat)
    BY <1>2, Locker
  <2> QED
    BY <1>3, <2>1, <2>2, PutTwo
<1> HIDE DEF a
<1>5. /\ x \in NodeType /\ x.vals = a /\ x.type = 1 /\ x.size = 1
      /\ x.locked /\ x.keys = Mine(t).keys
  BY <1>2, <1>4, Locker, SetVals
<1>6. o \in OpType /\ o.node = op[t].node /\ o.i = 1
  <2>1. op[t] \in OpType /\ op[t].i - 1 = 1
    BY <1>2, <1>3, Locker
  <2>2. o = [op[t] EXCEPT !.i = 1]
    BY <2>1
  <2> HIDE DEF o
  <2> QED
    BY <2>1, <2>2 DEF OpType
<1> HIDE DEF x, o
<1>7. Progress("shift", o.i, x)
  BY <1>3, <1>4, <1>5, <1>6 DEF Progress
<1>8. "shift" \in Pcs /\ "shift" \notin {"load", "cas", "fetch"}
  BY DEF Pcs
<1> QED
  BY <1>1, <1>2, <1>3, <1>4, <1>5, <1>6, <1>7, <1>8, LockerBase

LEMMA PlaceValueBase == ASSUME Base, NEW t \in Threads, PlaceValue(t) PROVE Base'
<1> DEFINE a == Put(Mine(t).vals, op[t].i, op[t].kv)
           x == [Mine(t) EXCEPT !.vals = a]
<1>1. /\ pc[t] = "place"
      /\ nodes' = [nodes EXCEPT ![op[t].node] = x]
      /\ pc' = [pc EXCEPT ![t] = "widen"] /\ op' = op
      /\ UNCHANGED <<root, kvs, size, ops, clears, mixed, lost, missed>>
  BY DEF PlaceValue, Ready, SetNode, Become, Mine, Counters, History
<1>2. pc[t] \in Lockers
  BY <1>1 DEF Lockers
<1>3. \/ op[t].i = 2 /\ Len(Mine(t).keys) = 2 /\ Len(Mine(t).vals) = 1
      \/ op[t].i = 1 /\ Len(Mine(t).keys) = 2 /\ Len(Mine(t).vals) = 2
  BY <1>1, <1>2, Locker DEF Progress
<1>4. a \in Seq(Nat) /\ Len(a) = 2
  <2>1. Mine(t).vals \in Seq(Nat) /\ op[t].kv \in Nat
    BY <1>2, Locker
  <2>2. CASE op[t].i = 1 /\ Len(Mine(t).vals) = 2
    BY <2>1, <2>2, PutTwo
  <2>3. CASE op[t].i = 2 /\ Len(Mine(t).vals) = 1
    BY <2>1, <2>3, PutTwo
  <2> QED
    BY <1>3, <2>2, <2>3
<1> HIDE DEF a
<1>5. /\ x \in NodeType /\ x.vals = a /\ x.type = 1 /\ x.size = 1
      /\ x.locked /\ x.keys = Mine(t).keys
  BY <1>2, <1>4, Locker, SetVals
<1> HIDE DEF x
<1>6. Len(x.keys) = 2 /\ Len(x.vals) = 2 /\ Progress("widen", op[t].i, x)
  BY <1>3, <1>4, <1>5 DEF Progress
<1>7. "widen" \in Pcs /\ "widen" \notin {"load", "cas", "fetch"}
  BY DEF Pcs
<1>8. op' = [op EXCEPT ![t] = op[t]] /\ op[t] \in OpType
  BY <1>1 DEF Base, ATypeOK
<1> QED
  BY <1>1, <1>2, <1>5, <1>6, <1>7, <1>8, LockerBase

LEMMA WidenBase == ASSUME Base, NEW t \in Threads, Widen(t) PROVE Base'
<1> DEFINE x == [Mine(t) EXCEPT !.size = Mine(t).size + 1]
<1>1. /\ pc[t] = "widen"
      /\ nodes' = [nodes EXCEPT ![op[t].node] = x]
      /\ pc' = [pc EXCEPT ![t] = "unlock"] /\ op' = op
      /\ UNCHANGED <<root, kvs, size, ops, clears, mixed, lost, missed>>
  BY DEF Widen, Ready, SetNode, Become, Mine, Counters, History
<1>2. pc[t] \in Lockers
  BY <1>1 DEF Lockers
<1>3. Len(Mine(t).keys) = 2 /\ Len(Mine(t).vals) = 2
  BY <1>1, <1>2, Locker DEF Progress
<1>4. Mine(t).size + 1 = 2
  BY <1>2, Locker
<1>5. /\ x \in NodeType /\ x.size = 2 /\ x.type = 1 /\ x.locked
      /\ x.keys = Mine(t).keys /\ x.vals = Mine(t).vals
  <2>1. Mine(t) \in NodeType /\ Mine(t).type = 1 /\ Mine(t).locked
    BY <1>2, Locker
  <2>2. x = [Mine(t) EXCEPT !.size = 2]
    BY <1>4
  <2> HIDE DEF x
  <2> QED
    BY <2>1, <2>2, SetSize
<1> HIDE DEF x
<1>6. Len(x.keys) = 2 /\ Len(x.vals) = 2 /\ x.locked = TRUE
  BY <1>3, <1>5 DEF NodeType
<1>7. "unlock" \in Pcs /\ "unlock" \notin Lockers \cup {"load", "cas", "fetch"}
  BY DEF Pcs, Lockers
<1>8. op' = [op EXCEPT ![t] = op[t]] /\ op[t] \in OpType
  BY <1>1 DEF Base, ATypeOK
<1> QED
  BY <1>1, <1>2, <1>5, <1>6, <1>7, <1>8, LockerBase

LEMMA UnlockBase == ASSUME Base, NEW t \in Threads, Unlock(t) PROVE Base'
<1> DEFINE x == Incremented(Mine(t))
<1>1. /\ pc[t] = "unlock"
      /\ nodes' = [nodes EXCEPT ![op[t].node] = x]
      /\ pc' = [pc EXCEPT ![t] = "count"] /\ op' = op
      /\ UNCHANGED <<root, kvs, size, ops, clears, mixed, lost, missed>>
  BY DEF Unlock, Ready, Become, Mine, Counters, History
<1>2. /\ pc[t] \in NodePcs /\ op[t].node \in 1 .. Len(nodes) /\ Mine(t) \in NodeType
      /\ NodeOK(Mine(t)) /\ op[t] \in OpType /\ Mine(t).size \in Nat
  BY <1>1, MineType DEF NodePcs, Base, ATypeOK
<1>3. /\ x \in NodeType /\ x.size = Mine(t).size /\ x.type = Mine(t).type
      /\ x.locked = Mine(t).locked /\ x.keys = Mine(t).keys /\ x.vals = Mine(t).vals
  BY <1>2, IncrementedFields
<1> HIDE DEF x
<1>4. NodeOK(x) /\ x.size >= Mine(t).size
  BY <1>2, <1>3 DEF NodeOK
<1>5. \A u \in Threads \ {t} :
        pc[u] \in Lockers /\ op[u].node = op[t].node => Progress(pc[u], op[u].i, x)
  <2> SUFFICES ASSUME NEW u \in Threads, pc[u] \in Lockers, op[u].node = op[t].node
               PROVE  Progress(pc[u], op[u].i, x)
    OBVIOUS
  <2>1. Progress(pc[u], op[u].i, Mine(t))
    BY DEF Base, Shape, ThreadOK, Mine
  <2> QED
    BY <1>3, <2>1 DEF Progress
<1>6. "count" \in Pcs /\ "count" \notin NodePcs \cup Lockers \cup {"load", "cas", "fetch"}
  BY DEF Pcs, NodePcs, Lockers
<1>7. op' = [op EXCEPT ![t] = op[t]]
  BY <1>1 DEF Base, ATypeOK
<1> QED
  BY <1>1, <1>2, <1>3, <1>4, <1>5, <1>6, <1>7, UpdateBase

\* Operations end: Count, Compare, ResetSize.
LEMMA ReturnBase ==
  ASSUME Base, NEW t \in Threads, Return(t), size' \in Nat,
         UNCHANGED <<root, nodes, kvs, ops, clears, mixed, lost, missed>>
  PROVE  Base'
<1>1. "idle" \in Pcs /\ "idle" \notin NodePcs \cup Lockers \cup {"load", "cas", "fetch"}
  BY DEF Pcs, Lockers, NodePcs
<1> QED
  BY <1>1, NoOpType, LocalBase DEF Base, ATypeOK, Return, Become

LEMMA StartFindBase ==
  ASSUME Base, NEW t \in Threads, NEW k \in Keys, StartFind(t, k) PROVE Base'
<1> DEFINE y == [NoOp EXCEPT !.key = k]
           x == [y EXCEPT !.node = root]
<1>1. /\ pc[t] = "idle" /\ ops' \in Nat /\ clears' \in Nat /\ mixed' \in BOOLEAN
      /\ UNCHANGED <<root, nodes, kvs, size, lost, missed>>
  BY DEF StartFind, Begun, Ready, History, Base, ATypeOK
<1>2. CASE root = 0 /\ UNCHANGED <<pc, op>>
  <2>1. "idle" \in Pcs /\ "idle" \notin NodePcs \cup Lockers \cup {"load", "cas", "fetch"}
    BY DEF Pcs, Lockers, NodePcs
  <2>2. pc' = [pc EXCEPT ![t] = "idle"] /\ op' = [op EXCEPT ![t] = op[t]] /\ op[t] \in OpType
    BY <1>1, <1>2 DEF Base, ATypeOK
  <2> QED
    BY <1>1, <2>1, <2>2, LocalBase DEF Base, ATypeOK
<1>3. CASE root # 0
  <2>1. op' = [op EXCEPT ![t] = x] /\ pc' = [pc EXCEPT ![t] = "enter"]
    BY <1>3 DEF StartFind, Become
  <2>2. y \in OpType
    BY NoOpType DEF OpType
  <2> HIDE DEF y
  <2>3. x \in OpType /\ x.node = root
    BY <2>2 DEF OpType, Base, ATypeOK
  <2> HIDE DEF x
  <2>4. root \in 1 .. Len(nodes)
    BY <1>3 DEF Base, Shape, ATypeOK
  <2>5. "enter" \in Pcs /\ "enter" \notin Lockers \cup {"load", "cas", "fetch"}
    BY DEF Pcs, Lockers
  <2> QED
    BY <1>1, <2>1, <2>3, <2>4, <2>5, LocalBase DEF Base, ATypeOK
<1> QED
  BY <1>2, <1>3 DEF StartFind

LEMMA EnterBase ==
  ASSUME Base, NEW t \in Threads, EnterOuter(t) \/ EnterInner(t) PROVE Base'
<1>1. /\ pc[t] \in {"enter", "nest"} /\ op' = op
      /\ \E s \in {"nest", "look"} : pc' = [pc EXCEPT ![t] = s]
      /\ UNCHANGED <<root, nodes, kvs, size, ops, clears, mixed, lost, missed>>
  BY DEF EnterOuter, EnterInner, Ready, Become, Counters, History
<1>2. PICK s \in {"nest", "look"} : pc' = [pc EXCEPT ![t] = s]
  BY <1>1
<1>3. op[t].node \in 1 .. Len(nodes) /\ op[t] \in OpType /\ op' = [op EXCEPT ![t] = op[t]]
  BY <1>1, MineType DEF NodePcs, Base, ATypeOK
<1>4. s \in Pcs /\ s \notin Lockers \cup {"load", "cas", "fetch"}
  BY DEF Pcs, Lockers
<1> QED
  BY <1>1, <1>2, <1>3, <1>4, LocalBase DEF Base, ATypeOK

LEMMA FetchBase == ASSUME Base, NEW t \in Threads, Fetch(t) PROVE Base'
<1> DEFINE e == IF pc[t] = "none" THEN 0 ELSE Mine(t).vals[op[t].i]
           x == [op[t] EXCEPT !.exp = e]
<1>1. /\ pc[t] \in {"fetch", "none"}
      /\ pc' = [pc EXCEPT ![t] = "compare"] /\ op' = [op EXCEPT ![t] = x]
      /\ UNCHANGED <<root, nodes, kvs, size, ops, clears, mixed, lost, missed>>
  BY DEF Fetch, Ready, Become, Counters, History
<1>2. /\ op[t].node \in 1 .. Len(nodes) /\ op[t] \in OpType
      /\ op[t].i \in Nat \ {0} /\ Mine(t).size \in Nat
      /\ pc[t] = "fetch" => op[t].i <= Mine(t).size
      /\ \A i \in 1 .. Mine(t).size : Mine(t).vals[i] \in Nat
  <2>1. pc[t] \in NodePcs /\ op[t] \in OpType
    BY <1>1 DEF NodePcs, Base, ATypeOK
  <2>2. op[t].i \in Nat \ {0}
    BY <2>1 DEF OpType
  <2> QED
    BY <2>1, <2>2, MineType DEF ThreadOK, Mine
<1>3. e \in Nat
  BY <1>1, <1>2
<1> HIDE DEF e
<1>4. x \in OpType /\ x.node = op[t].node
  BY <1>2, <1>3 DEF OpType
<1> HIDE DEF x
<1>5. "compare" \in Pcs /\ "compare" \notin Lockers \cup {"load", "cas", "fetch"}
  BY DEF Pcs, Lockers
<1> QED
  BY <1>1, <1>2, <1>4, <1>5, LocalBase DEF Base, ATypeOK

LEMMA StartClearBase == ASSUME Base, NEW t \in Threads, StartClear(t) PROVE Base'
<1> DEFINE x == [op[t] EXCEPT !.kind = "clear"]
<1>1. /\ ops' \in Nat /\ clears' \in Nat /\ mixed' \in BOOLEAN /\ root' = 0
      /\ pc' = [pc EXCEPT ![t] = "reset"] /\ op' = [op EXCEPT ![t] = x]
      /\ UNCHANGED <<nodes, kvs, size, lost, missed>>
  BY DEF StartClear, Begun, Become, History, Base, ATypeOK
<1>2. op[t] \in OpType /\ "clear" \in Kinds
  BY DEF Base, ATypeOK, Kinds
<1>3. x \in OpType
  BY <1>2 DEF OpType
<1> HIDE DEF x
<1>4. "reset" \in Pcs /\ "reset" \notin NodePcs \cup Lockers \cup {"load", "cas", "fetch"}
  BY DEF Pcs, Lockers, NodePcs
<1> QED
  BY <1>1, <1>3, <1>4, LocalBase DEF Base, ATypeOK

LEMMA NextBase == Base /\ [Next]_vars => Base'
<1> SUFFICES ASSUME Base, [Next]_vars PROVE Base'
  OBVIOUS
<1>1. CASE UNCHANGED vars
  BY <1>1, QuietBase DEF vars
<1>2. ASSUME NEW t \in Threads, Start(t) PROVE Base'
  BY <1>2, StartPutBase, StartFindBase, StartClearBase DEF Start
<1>3. ASSUME NEW t \in Threads, Step(t) PROVE Base'
  <2> USE <1>3 DEF Ready
  <2>1. CASE InsertAgain(t) \/ PlantWon(t) \/ PlantLost(t) \/ DropNode(t) \/ ReadVersion(t)
    BY <2>1, InsertAgainBase, PlantWonBase, PlantLostBase, DropNodeBase, ReadVersionBase
  <2>2. CASE Spin(t)
    BY <2>2, QuietBase DEF Spin, vars
  <2>3. CASE ScanPut(t)
    BY <2>3, ScanBase DEF ScanPut, Counters, History
  <2>4. CASE LoadSlot(t) \/ CasSlot(t) \/ Lock(t) \/ LockFails(t)
    BY <2>4, LoadSlotBase, CasSlotBase, LockBase, LockFailsBase
  <2>5. CASE PutKey(t) \/ MoveValue(t) \/ PlaceValue(t) \/ Widen(t) \/ Unlock(t)
    BY <2>5, PutKeyBase, MoveValueBase, PlaceValueBase, WidenBase, UnlockBase
  <2>6. CASE Count(t)
    BY <2>6, ReturnBase DEF Count, Counters, History, Base, ATypeOK
  <2>7. CASE EnterOuter(t) \/ EnterInner(t) \/ Fetch(t)
    BY <2>7, EnterBase, FetchBase
  <2>8. CASE ScanFind(t)
    BY <2>8, ScanBase DEF ScanFind, Counters, History
  <2>9. CASE Compare(t)
    BY <2>9, ReturnBase DEF Compare, Counters, History, Base, ATypeOK
  <2>10. CASE ResetSize(t)
    BY <2>10, ReturnBase DEF ResetSize, Counters, History
  <2>11. CASE RStep(t) /\ UNCHANGED avars
    BY <2>11, QuietBase
  <2> QED
    BY <2>1, <2>2, <2>3, <2>4, <2>5, <2>6, <2>7, <2>8, <2>9, <2>10, <2>11 DEF Step
<1> QED
  BY <1>1, <1>2, <1>3 DEF Next

LEMMA AlwaysBase == Spec => []Base
BY InitBase, NextBase, PTL DEF Spec

(* Why the model takes Grow in one step: a node is locked for ever when its
   second slot is added (concurrent_index.hpp:347, 89-91), before it is full. *)
HoldsTwo == \A n \in 1 .. Len(nodes) : nodes[n].size <= 2

LEMMA TwoSlots == Spec => []HoldsTwo
<1>1. Base => HoldsTwo
  BY DEF Base, Shape, NodeOK, HoldsTwo
<1> QED
  BY <1>1, AlwaysBase, PTL

-----------------------------------------------------------------------------
\* What has been retired, deleted or not.
Gone == freed \cup UNION {Listed(t) : t \in Threads}

Held(n) == n # 0 /\ (n = root \/ \E u \in Threads : op[u].node = n)

ListsOK == retired \in [Threads -> Seq({"kv", "node"} \X Nat)]

Dropping(u) ==
    \A e : pc[u] = "drop" /\ op[u].exp = e =>
        e \in 1 .. Len(nodes) /\ ~ Held(e) /\ Nd(e) \notin Gone

Nodes ==
    /\ ListsOK
    /\ \A n : Nd(n) \in Gone => n \in 1 .. Len(nodes) /\ ~ Held(n)
    /\ \A u \in Threads : Dropping(u) /\ op[u].node <= Len(nodes)
    /\ \A u, v \in Threads :
        pc[u] = "drop" /\ pc[v] = "drop" /\ op[u].exp = op[v].exp => u = v

\* A call of EpochReclamation retires nothing but what it is called with.
LEMMA CallGone ==
  ASSUME ListsOK, NEW t \in Threads,
         Begin(t) \/ End(t) \/ RStep(t) \/ UNCHANGED rvars
  PROVE  ListsOK' /\ Gone' \subseteq Gone
<1>1. CASE UNCHANGED <<retired, freed>>
  BY <1>1 DEF ListsOK, Gone, Listed
<1>2. CASE Free(t)
  <2>1. freed' = freed \cup Listed(t) /\ retired' = [retired EXCEPT ![t] = << >>]
    BY <1>2 DEF Free
  <2>2. \A u \in Threads : retired'[u] = IF u = t THEN << >> ELSE retired[u]
    BY <2>1 DEF ListsOK
  <2>3. \A u \in Threads : Listed(u)' \subseteq Listed(u)
    BY <2>2 DEF Listed
  <2> QED
    BY <2>1, <2>3 DEF ListsOK, Gone
<1> QED
  BY <1>1, <1>2 DEF Begin, End, RStep, Join, Leave, CheckEpoch, Advance, Bump,
                    LoadEpoch, TestReaders, Swap, rvars

LEMMA RetireGone ==
  ASSUME ListsOK, NEW t \in Threads, NEW p \in {"kv", "node"} \X Nat, Retire(t, p)
  PROVE  ListsOK' /\ Gone' \subseteq Gone \cup {p}
<1>1. freed' = freed /\ retired' = [retired EXCEPT ![t] = Append(@, p)]
  BY DEF Retire
<1>2. \A u \in Threads : retired[u] \in Seq({"kv", "node"} \X Nat)
  BY DEF ListsOK
<1>3. ListsOK'
  BY <1>1, <1>2 DEF ListsOK
<1>4. \A u \in Threads : Listed(u)' \subseteq Listed(u) \cup {p}
  <2> SUFFICES ASSUME NEW u \in Threads, NEW i \in 1 .. Len(retired'[u])
               PROVE  retired'[u][i] \in Listed(u) \cup {p}
    BY DEF Listed
  <2>1. CASE u = t
    <3>1. retired'[u] = Append(retired[u], p)
      BY <1>1, <2>1 DEF ListsOK
    <3>2. i \in 1 .. Len(retired[u]) \/ i = Len(retired[u]) + 1
      BY <1>2, <3>1
    <3> QED
      BY <1>2, <3>1, <3>2 DEF Listed
  <2>2. CASE u # t
    BY <1>1, <2>2 DEF ListsOK, Listed
  <2> QED
    BY <2>1, <2>2
<1> QED
  BY <1>1, <1>3, <1>4 DEF Gone

\* A step of t that takes no node into use but the root.
Tame(t) ==
    /\ Others(t)
    /\ op'[t].node \in {op[t].node, root, 0}
    /\ root' \in {root, 0}
    /\ Len(nodes') = Len(nodes)

LEMMA TameHeld ==
  ASSUME NEW t \in Threads, Tame(t), NEW n, Held(n)' PROVE Held(n)
BY DEF Tame, Held, Others

\* A tame step that retires no node and starts no drop.
LEMMA TameNodes ==
  ASSUME Base, Base', Nodes, NEW t \in Threads, Tame(t), ListsOK',
         \A n : Nd(n) \in Gone' => Nd(n) \in Gone,
         pc'[t] = "drop" => pc[t] = "drop" /\ op'[t] = op[t]
  PROVE  Nodes'
<1>1. Len(nodes) \in Nat /\ Len(nodes') \in Nat /\ Len(nodes) <= Len(nodes')
  BY DEF Base, ATypeOK, Tame
<1>2. \A n : Nd(n) \in Gone' => n \in 1 .. Len(nodes') /\ ~ Held(n)'
  BY <1>1, TameHeld DEF Nodes
<1>3. \A u \in Threads : pc'[u] = "drop" => pc[u] = "drop" /\ op'[u] = op[u]
  BY DEF Tame, Others
<1>4. \A u \in Threads : Dropping(u)'
  <2> SUFFICES ASSUME NEW u \in Threads, NEW e, pc'[u] = "drop", op'[u].exp = e
               PROVE  e \in 1 .. Len(nodes') /\ ~ Held(e)' /\ Nd(e) \notin Gone'
    BY DEF Dropping
  <2>1. e \in 1 .. Len(nodes) /\ ~ Held(e) /\ Nd(e) \notin Gone
    BY <1>3 DEF Nodes, Dropping
  <2> QED
    BY <1>1, <2>1, TameHeld
<1>6. \A u \in Threads : op'[u].node <= Len(nodes')
  <2> SUFFICES ASSUME NEW u \in Threads PROVE op'[u].node <= Len(nodes')
    OBVIOUS
  <2>1. op[u] \in OpType /\ root \in Nat /\ root <= Len(nodes)
    BY DEF Base, ATypeOK, Shape
  <2>2. op[u].node \in Nat
    BY <2>1 DEF OpType
  <2>3. op'[u].node \in {op[u].node, root, 0}
    BY DEF Tame, Others
  <2> QED
    BY <1>1, <2>1, <2>2, <2>3 DEF Nodes
<1>5. \A u, v \in Threads :
        pc'[u] = "drop" /\ pc'[v] = "drop" /\ op'[u].exp = op'[v].exp => u = v
  BY <1>3 DEF Nodes
<1> QED
  BY <1>2, <1>4, <1>5, <1>6 DEF Nodes

\* The node that is locked has room: it is not grown.
LEMMA LockStep ==
  ASSUME Base, NEW t \in Threads, Lock(t)
  PROVE  /\ pc[t] = "lock" /\ ~ Mine(t).locked /\ Mine(t).size = 1
         /\ nodes' = [nodes EXCEPT ![op[t].node] = [Mine(t) EXCEPT !.locked = TRUE]]
         /\ pc' = [pc EXCEPT ![t] = "shift"]
         /\ op' = [op EXCEPT ![t] = [op[t] EXCEPT !.i = 2]]
         /\ UNCHANGED <<root, rvars, kvs, lost, missed, ops>>
<1>1. pc[t] = "lock" /\ ~ Mine(t).locked
  BY DEF Lock, Ready
<1>2. NodeOK(Mine(t))
  BY <1>1, MineType DEF NodePcs
<1>3. Mine(t).type = 1 /\ Mine(t).size = 1
  BY <1>1, <1>2 DEF NodeOK
<1>4. Mine(t).size < Capacity[Mine(t).type] /\ Mine(t).size + 1 = 2
  BY <1>3, NodeAssumption
<1> QED
  BY <1>1, <1>3, <1>4 DEF Lock, SetNode, Become, Mine, Counters, History

\* The steps that take no node into use but the root.
Calm(t) ==
    \/ \E k \in Keys : StartPut(t, "insert", k) \/ StartPut(t, "upsert", k) \/ StartFind(t, k)
    \/ StartClear(t)
    \/ InsertAgain(t) \/ DropNode(t) \/ ReadVersion(t) \/ Spin(t)
    \/ ScanPut(t) \/ LoadSlot(t) \/ CasSlot(t) \/ Lock(t) \/ LockFails(t)
    \/ PutKey(t) \/ MoveValue(t) \/ PlaceValue(t) \/ Widen(t) \/ Unlock(t)
    \/ Count(t) \/ EnterOuter(t) \/ EnterInner(t) \/ ScanFind(t) \/ Fetch(t)
    \/ Compare(t) \/ ResetSize(t) \/ (RStep(t) /\ UNCHANGED avars)

LEMMA CalmTame ==
  ASSUME Base, NEW t \in Threads, Calm(t)
  PROVE  Tame(t) /\ (pc'[t] = "drop" => pc[t] = "drop" /\ op'[t] = op[t])
<1> USE DEF Base, ATypeOK
<1>1. op[t] \in OpType /\ NoOp \in OpType /\ Len(nodes) \in Nat
  BY NoOpType
<1>2. CASE UNCHANGED avars
  BY <1>1, <1>2 DEF Tame, Others, avars
<1>3. CASE \E k \in Keys : StartPut(t, "insert", k) \/ StartPut(t, "upsert", k)
  <2> PICK kind \in {"insert", "upsert"}, k \in Keys : StartPut(t, kind, k)
    BY <1>3
  <2> DEFINE x == [NoOp EXCEPT !.kind = kind, !.key = k, !.kv = Len(kvs) + 1,
                               !.old = root, !.node = root]
  <2>1. x.node = root
    BY NoOpType DEF OpType
  <2> HIDE DEF x
  <2>2. op' = [op EXCEPT ![t] = x] /\ nodes' = nodes /\ root' = root
    BY DEF StartPut, x
  <2>3. /\ pc'[t] # "drop"
        /\ \A u \in Threads \ {t} : pc'[u] = pc[u]
    BY DEF StartPut, Become
  <2> QED
    BY <1>1, <2>1, <2>2, <2>3 DEF Tame, Others
<1>4. CASE \E k \in Keys : StartFind(t, k)
  <2> PICK k \in Keys : StartFind(t, k)
    BY <1>4
  <2>1. CASE root = 0
    BY <1>1, <2>1 DEF StartFind, Tame, Others
  <2>2. CASE root # 0
    <3> DEFINE x == [NoOp EXCEPT !.key = k, !.node = root]
    <3>1. x.node = root
      BY NoOpType DEF OpType
    <3> HIDE DEF x
    <3>2. op' = [op EXCEPT ![t] = x] /\ pc' = [pc EXCEPT ![t] = "enter"]
          /\ nodes' = nodes /\ root' = root
      BY <2>2 DEF StartFind, Become, x
    <3> QED
      BY <1>1, <3>1, <3>2 DEF Tame, Others
  <2> QED
    BY <2>1, <2>2
<1>5. CASE StartClear(t)
  <2> DEFINE x == [op[t] EXCEPT !.kind = "clear"]
  <2>1. x.node = op[t].node
    BY <1>1 DEF OpType
  <2> HIDE DEF x
  <2>2. op' = [op EXCEPT ![t] = x] /\ pc' = [pc EXCEPT ![t] = "reset"]
        /\ nodes' = nodes /\ root' = 0
    BY <1>5 DEF StartClear, Become, x
  <2> QED
    BY <1>1, <2>1, <2>2 DEF Tame, Others
<1>6. CASE InsertAgain(t)
  <2> DEFINE x == [op[t] EXCEPT !.kind = "insert", !.kv = Len(kvs) + 1, !.old = root, !.node = root]
  <2>1. x.node = root
    BY <1>1 DEF OpType
  <2> HIDE DEF x
  <2>2. op' = [op EXCEPT ![t] = x] /\ nodes' = nodes /\ root' = root
    BY <1>6 DEF InsertAgain, x
  <2>3. /\ pc'[t] # "drop"
        /\ \A u \in Threads \ {t} : pc'[u] = pc[u]
    BY <1>6 DEF InsertAgain, Become
  <2> QED
    BY <1>1, <2>1, <2>2, <2>3 DEF Tame, Others
<1>7. ASSUME NEW s, NEW x, s # "drop",
             pc' = [pc EXCEPT ![t] = s], op' = [op EXCEPT ![t] = x],
             x.node \in {op[t].node, 0}, root' = root, Len(nodes') = Len(nodes)
      PROVE  Tame(t) /\ pc'[t] # "drop"
  BY <1>1, <1>7 DEF Tame, Others
<1>8. ASSUME NEW n, NEW x, nodes' = [nodes EXCEPT ![n] = x] PROVE Len(nodes') = Len(nodes)
  BY <1>8
<1>9. op = [op EXCEPT ![t] = op[t]]
  OBVIOUS
<1>10. NoOp.node = 0
  BY DEF NoOp
<1>11. CASE DropNode(t)
  <2> DEFINE x == [op[t] EXCEPT !.exp = 0]
  <2>1. x.node = op[t].node
    BY <1>1 DEF OpType
  <2> HIDE DEF x
  <2>2. op' = [op EXCEPT ![t] = x] /\ pc' = [pc EXCEPT ![t] = "version"]
        /\ nodes' = nodes /\ root' = root
    BY <1>11 DEF DropNode, Become, x
  <2> QED
    BY <1>7, <2>1, <2>2
<1>12. CASE ReadVersion(t)
  <2> DEFINE x == [op[t] EXCEPT !.ver = Mine(t).ver, !.i = 1]
  <2>1. x.node = op[t].node
    BY <1>1 DEF OpType
  <2> HIDE DEF x
  <2>2. op' = [op EXCEPT ![t] = x] /\ pc' = [pc EXCEPT ![t] = "scan"]
        /\ nodes' = nodes /\ root' = root
    BY <1>12 DEF ReadVersion, Become, x
  <2> QED
    BY <1>7, <2>1, <2>2
<1>13. CASE ScanPut(t) \/ ScanFind(t)
  <2>1. /\ pc[t] \in {"scan", "look"} /\ nodes' = nodes /\ root' = root
        /\ \E found \in {"load", "fetch"}, none \in {"lock", "none"} : Scan(t, found, none)
    BY <1>13 DEF ScanPut, ScanFind, Ready
  <2>2. op[t].node \in 1 .. Len(nodes)
    BY <2>1, MineType DEF NodePcs
  <2>3. PICK found \in {"load", "fetch"}, none \in {"lock", "none"} : Scan(t, found, none)
    BY <2>1
  <2> DEFINE x == [op[t] EXCEPT !.i = op[t].i + 1]
  <2>4. x.node = op[t].node
    BY <1>1 DEF OpType
  <2> HIDE DEF x
  <2>5. \/ op' = op /\ \E s \in {found, none} : pc' = [pc EXCEPT ![t] = s]
        \/ op' = [op EXCEPT ![t] = x] /\ pc' = [pc EXCEPT ![t] = pc[t]]
    BY <2>2, <2>3, ScanStep DEF x
  <2> QED
    BY <1>7, <1>9, <2>1, <2>4, <2>5
<1>14. CASE LoadSlot(t)
  <2> DEFINE x == [op[t] EXCEPT !.exp = Mine(t).vals[op[t].i]]
  <2>1. x.node = op[t].node
    BY <1>1 DEF OpType
  <2> HIDE DEF x
  <2>2. /\ nodes' = nodes /\ root' = root
        /\ \/ pc' = [pc EXCEPT ![t] = "idle"] /\ op' = [op EXCEPT ![t] = NoOp]
           \/ pc' = [pc EXCEPT ![t] = "cas"] /\ op' = [op EXCEPT ![t] = x]
    BY <1>14 DEF LoadSlot, Become, Return, x
  <2> QED
    BY <1>7, <1>10, <2>1, <2>2
<1>15. CASE CasSlot(t)
  <2> DEFINE y == [op[t] EXCEPT !.i = op[t].i + 1]
             x == [y EXCEPT !.exp = 0]
  <2>1. x.node = op[t].node
    BY <1>1 DEF OpType
  <2>2. \/ /\ pc' = [pc EXCEPT ![t] = "idle"] /\ op' = [op EXCEPT ![t] = NoOp]
           /\ nodes' = [nodes EXCEPT ![op[t].node] = [Mine(t) EXCEPT !.vals =
                                        [Mine(t).vals EXCEPT ![op[t].i] = op[t].kv]]]
        \/ /\ \E s \in {"scan", "version"} : pc' = [pc EXCEPT ![t] = s]
           /\ op' = [op EXCEPT ![t] = x] /\ nodes' = nodes
    <3>1. CASE Mine(t).vals[op[t].i] = op[t].exp
      BY <1>15, <3>1 DEF CasSlot, Become, Return, Mine
    <3>2. CASE Mine(t).vals[op[t].i] # op[t].exp
      <4>1. op' = [op EXCEPT ![t].i = @ + 1, ![t].exp = 0]
        BY <1>15, <3>2 DEF CasSlot
      <4>2. op' = [op EXCEPT ![t] = x]
        BY <4>1
      <4> HIDE DEF x, y
      <4> QED
        BY <1>15, <3>2, <4>2 DEF CasSlot, Become
    <3> QED
      BY <3>1, <3>2
  <2> HIDE DEF x
  <2>3. root' = root
    BY <1>15 DEF CasSlot
  <2> QED
    BY <1>7, <1>8, <1>10, <2>1, <2>2, <2>3
<1>16. CASE Lock(t)
  <2> DEFINE x == [op[t] EXCEPT !.i = 2]
  <2>1. x.node = op[t].node
    BY <1>1 DEF OpType
  <2> HIDE DEF x
  <2>2. /\ op' = [op EXCEPT ![t] = x] /\ pc' = [pc EXCEPT ![t] = "shift"]
        /\ nodes' = [nodes EXCEPT ![op[t].node] = [Mine(t) EXCEPT !.locked = TRUE]]
        /\ root' = root
    BY <1>16, LockStep DEF x
  <2> QED
    BY <1>7, <1>8, <2>1, <2>2
<1>17. CASE MoveValue(t)
  <2> DEFINE x == [op[t] EXCEPT !.i = op[t].i - 1]
  <2>1. x.node = op[t].node
    BY <1>1 DEF OpType
  <2> HIDE DEF x
  <2>2. /\ op' = [op EXCEPT ![t] = x] /\ pc' = [pc EXCEPT ![t] = "shift"]
        /\ root' = root
        /\ \E a : nodes' = [nodes EXCEPT ![op[t].node] = a]
    BY <1>17 DEF MoveValue, SetNode, Become, x
  <2> QED
    BY <1>7, <1>8, <2>1, <2>2
<1>18. CASE PutKey(t) \/ PlaceValue(t) \/ Widen(t) \/ Unlock(t)
  <2>1. /\ op' = op /\ root' = root
        /\ \E s \in {"move", "place", "widen", "unlock", "count"} : pc' = [pc EXCEPT ![t] = s]
        /\ \E a : nodes' = [nodes EXCEPT ![op[t].node] = a]
    BY <1>18 DEF PutKey, PlaceValue, Widen, Unlock, SetNode, Become
  <2> QED
    BY <1>7, <1>8, <1>9, <2>1
<1>19. CASE LockFails(t) \/ EnterOuter(t) \/ EnterInner(t)
  <2>1. /\ op' = op /\ root' = root /\ nodes' = nodes
        /\ \E s \in {"version", "nest", "look"} : pc' = [pc EXCEPT ![t] = s]
    BY <1>19 DEF LockFails, EnterOuter, EnterInner, Become
  <2> QED
    BY <1>7, <1>9, <2>1
<1>20. CASE Count(t) \/ Compare(t) \/ ResetSize(t)
  BY <1>7, <1>10, <1>20 DEF Count, Compare, ResetSize, Return, Become
<1>21. CASE Fetch(t)
  <2> DEFINE x == [op[t] EXCEPT !.exp = IF pc[t] = "none" THEN 0 ELSE Mine(t).vals[op[t].i]]
  <2>1. x.node = op[t].node
    BY <1>1 DEF OpType
  <2> HIDE DEF x
  <2>2. op' = [op EXCEPT ![t] = x] /\ pc' = [pc EXCEPT ![t] = "compare"]
        /\ nodes' = nodes /\ root' = root
    BY <1>21 DEF Fetch, Become, x
  <2> QED
    BY <1>7, <2>1, <2>2
<1>22. CASE Spin(t) \/ (RStep(t) /\ UNCHANGED avars)
  BY <1>2, <1>22 DEF Spin, vars
<1> QED
  BY <1>3, <1>4, <1>5, <1>6, <1>11, <1>12, <1>13, <1>14, <1>15, <1>16, <1>17,
     <1>18, <1>19, <1>20, <1>21, <1>22 DEF Calm

\* The call of EpochReclamation that a calm step makes.
LEMMA CalmCall ==
  ASSUME Base, NEW t \in Threads, Calm(t)
  PROVE  \/ Begin(t) \/ End(t) \/ RStep(t) \/ UNCHANGED rvars
         \/ DropNode(t)
<1>1. CASE Lock(t)
  BY <1>1, LockStep
<1>2. CASE Spin(t)
  BY <1>2 DEF Spin, vars
<1>3. CASE \/ \E k \in Keys : StartPut(t, "insert", k) \/ StartPut(t, "upsert", k) \/ StartFind(t, k)
           \/ StartClear(t) \/ InsertAgain(t) \/ ReadVersion(t)
           \/ ScanPut(t) \/ LoadSlot(t) \/ CasSlot(t) \/ LockFails(t)
  BY <1>3 DEF StartPut, StartFind, StartClear, InsertAgain, ReadVersion, ScanPut,
              LoadSlot, CasSlot, LockFails
<1>4. CASE \/ PutKey(t) \/ MoveValue(t) \/ PlaceValue(t) \/ Widen(t) \/ Unlock(t)
           \/ Count(t) \/ EnterOuter(t) \/ EnterInner(t) \/ ScanFind(t) \/ Fetch(t)
           \/ Compare(t) \/ ResetSize(t)
  BY <1>4 DEF PutKey, MoveValue, PlaceValue, Widen, Unlock, Count, EnterOuter,
              EnterInner, ScanFind, Fetch, Compare, ResetSize
<1> QED
  BY <1>1, <1>2, <1>3, <1>4 DEF Calm

LEMMA StepCases ==
  ASSUME Next
  PROVE  \E t \in Threads : Calm(t) \/ PlantWon(t) \/ PlantLost(t)
BY DEF Next, Start, Step, Calm

LEMMA DropNodeNodes ==
  ASSUME Base, Base', Nodes, NEW t \in Threads, DropNode(t) PROVE Nodes'
<1> DEFINE e == op[t].exp
<1>1. pc[t] = "drop" /\ pc' = [pc EXCEPT ![t] = "version"] /\ nodes' = nodes /\ Retire(t, Nd(e))
  BY DEF DropNode, Ready, Become
<1>2. Tame(t) /\ pc'[t] = "version"
  <2>1. Calm(t)
    BY DEF Calm
  <2> QED
    BY <1>1, <2>1, CalmTame DEF Base, ATypeOK
<1>3. e \in 1 .. Len(nodes) /\ ~ Held(e)
  BY <1>1 DEF Nodes, Dropping
<1>4. ListsOK' /\ Gone' \subseteq Gone \cup {Nd(e)}
  BY <1>1, <1>3, RetireGone DEF Nodes, Nd
<1>5. \A n : Nd(n) \in Gone' => n \in 1 .. Len(nodes') /\ ~ Held(n)'
  <2> SUFFICES ASSUME NEW n, Nd(n) \in Gone' PROVE n \in 1 .. Len(nodes) /\ ~ Held(n)
    BY <1>1, <1>2, TameHeld
  <2>1. Nd(n) \in Gone \/ n = e
    BY <1>4 DEF Nd
  <2> QED
    BY <1>3, <2>1 DEF Nodes
<1>6. \A u \in Threads : pc'[u] = "drop" => u # t /\ pc[u] = "drop" /\ op'[u] = op[u]
  BY <1>2 DEF Tame, Others
<1>7. \A u \in Threads : Dropping(u)'
  <2> SUFFICES ASSUME NEW u \in Threads, NEW f, pc'[u] = "drop", op'[u].exp = f
               PROVE  f \in 1 .. Len(nodes') /\ ~ Held(f)' /\ Nd(f) \notin Gone'
    BY DEF Dropping
  <2>1. u # t /\ pc[u] = "drop" /\ op[u].exp = f
    BY <1>6
  <2>2. f # e
    BY <1>1, <2>1 DEF Nodes
  <2>3. f \in 1 .. Len(nodes) /\ ~ Held(f) /\ Nd(f) \notin Gone
    BY <2>1 DEF Nodes, Dropping
  <2> HIDE DEF e
  <2>4. Nd(f) \notin Gone'
    BY <1>4, <2>2, <2>3 DEF Nd
  <2> QED
    BY <1>1, <1>2, <2>3, <2>4, TameHeld
<1>8. \A u, v \in Threads :
        pc'[u] = "drop" /\ pc'[v] = "drop" /\ op'[u].exp = op'[v].exp => u = v
  BY <1>6 DEF Nodes
<1>9. \A u \in Threads : op'[u].node <= Len(nodes')
  <2>1. /\ \A u \in Threads : op[u].node <= Len(nodes)
        /\ op'[t].node \in {op[t].node, root, 0} /\ root <= Len(nodes)
    BY <1>2 DEF Nodes, Tame, Base, Shape
  <2>2. \A u \in Threads \ {t} : op'[u] = op[u]
    BY <1>2 DEF Tame, Others
  <2> QED
    BY <1>1, <2>1, <2>2, SMTT(40) DEF Base, ATypeOK
<1> QED
  BY <1>4, <1>5, <1>7, <1>8, <1>9 DEF Nodes

LEMMA PlantWonNodes ==
  ASSUME Base, Nodes, NEW t \in Threads, PlantWon(t) PROVE Nodes'
<1> DEFINE m == Len(nodes) + 1
<1>1. /\ pc' = [pc EXCEPT ![t] = "count"] /\ root' = m /\ op' = op
      /\ nodes' = Append(nodes, Node(1, <<Byte(t)>>, <<op[t].kv>>))
      /\ UNCHANGED rvars
  BY DEF PlantWon, Become
<1>2. Len(nodes) \in Nat /\ Len(nodes') = m
  BY <1>1 DEF Base, ATypeOK
<1>3. ListsOK' /\ Gone' \subseteq Gone
  BY <1>1, CallGone DEF Nodes
<1>4. \A n : Held(n)' => Held(n) \/ n = m
  BY <1>1 DEF Held
<1>5. \A n : Nd(n) \in Gone' => n \in 1 .. Len(nodes') /\ ~ Held(n)'
  BY <1>2, <1>3, <1>4 DEF Nodes
<1>6. \A u \in Threads : pc'[u] = "drop" => pc[u] = "drop"
  BY <1>1 DEF Base, ATypeOK
<1>7. \A u \in Threads : Dropping(u)'
  <2> SUFFICES ASSUME NEW u \in Threads, NEW e, pc'[u] = "drop", op'[u].exp = e
               PROVE  e \in 1 .. Len(nodes') /\ ~ Held(e)' /\ Nd(e) \notin Gone'
    BY DEF Dropping
  <2>1. e \in 1 .. Len(nodes) /\ ~ Held(e) /\ Nd(e) \notin Gone
    BY <1>1, <1>6 DEF Dropping, Nodes
  <2> QED
    BY <1>2, <1>3, <1>4, <2>1
<1>8. \A u, v \in Threads :
        pc'[u] = "drop" /\ pc'[v] = "drop" /\ op'[u].exp = op'[v].exp => u = v
  BY <1>1, <1>6 DEF Nodes
<1>9. \A u \in Threads : op'[u].node <= Len(nodes')
  <2> SUFFICES ASSUME NEW u \in Threads PROVE op[u].node <= Len(nodes')
    BY <1>1
  <2>1. op[u].node <= Len(nodes) /\ op[u] \in OpType
    BY DEF Nodes, Base, ATypeOK
  <2>2. op[u].node \in Nat
    BY <2>1 DEF OpType
  <2> QED
    BY <1>2, <2>1, <2>2
<1> QED
  BY <1>3, <1>5, <1>7, <1>8, <1>9 DEF Nodes

LEMMA PlantLostNodes ==
  ASSUME Base, Nodes, NEW t \in Threads, PlantLost(t) PROVE Nodes'
<1> DEFINE m == Len(nodes) + 1
           x == [op[t] EXCEPT !.old = root, !.node = root, !.exp = m]
<1>1. /\ root # 0 /\ root' = root /\ Retire(t, Kv(op[t].kv))
      /\ nodes' = Append(nodes, Node(1, <<Byte(t)>>, <<op[t].kv>>))
  BY DEF PlantLost
<1>2. \/ pc' = [pc EXCEPT ![t] = "drop"] /\ op' = [op EXCEPT ![t] = x]
      \/ pc' = [pc EXCEPT ![t] = "again"] /\ op' = op
  BY DEF PlantLost, Become
<1>3. /\ Len(nodes) \in Nat /\ Len(nodes') = m /\ root <= Len(nodes) /\ root \in Nat
      /\ \A u \in Threads : op[u] \in OpType
  BY <1>1 DEF Base, ATypeOK, Shape
<1>4. x.node = root /\ x.exp = m
  BY <1>3 DEF OpType
<1> HIDE DEF x
<1>5. Kv(op[t].kv) \in {"kv", "node"} \X Nat
  BY <1>3 DEF Kv, OpType
<1>6. ListsOK' /\ \A n : Nd(n) \in Gone' => Nd(n) \in Gone
  <2>1. ListsOK' /\ Gone' \subseteq Gone \cup {Kv(op[t].kv)}
    BY <1>1, <1>5, RetireGone DEF Nodes
  <2>2. \A n : Nd(n) # Kv(op[t].kv)
    BY DEF Nd, Kv
  <2> QED
    BY <2>1, <2>2
<1>7. /\ \A u \in Threads \ {t} : pc'[u] = pc[u] /\ op'[u] = op[u]
      /\ pc'[t] = "drop" => op'[t].exp = m
      /\ op'[t].node \in {root, op[t].node}
  BY <1>2, <1>4 DEF Base, ATypeOK
<1>8. \A n : Held(n)' => Held(n)
  BY <1>1, <1>7 DEF Held
<1>9. \A n : Nd(n) \in Gone' => n \in 1 .. Len(nodes') /\ ~ Held(n)'
  BY <1>3, <1>6, <1>8 DEF Nodes
<1>10. ~ Held(m) /\ Nd(m) \notin Gone
  <2>1. \A u \in Threads : op[u].node # m
    <3> SUFFICES ASSUME NEW u \in Threads PROVE op[u].node # m
      OBVIOUS
    <3>1. op[u].node <= Len(nodes) /\ op[u].node \in Nat
      BY <1>3 DEF Nodes, OpType
    <3> QED
      BY <1>3, <3>1
  <2> QED
    BY <1>3, <2>1 DEF Nodes, Held
<1>11. \A u \in Threads : Dropping(u)'
  <2> SUFFICES ASSUME NEW u \in Threads, NEW e, pc'[u] = "drop", op'[u].exp = e
               PROVE  e \in 1 .. Len(nodes') /\ ~ Held(e)' /\ Nd(e) \notin Gone'
    BY DEF Dropping
  <2>1. CASE u = t
    <3>1. e = m
      BY <1>7, <2>1
    <3>2. ~ Held(e)' /\ Nd(e) \notin Gone'
      BY <1>6, <1>8, <1>10, <3>1
    <3> QED
      BY <1>3, <3>1, <3>2
  <2>2. CASE u # t
    <3>1. e \in 1 .. Len(nodes) /\ ~ Held(e) /\ Nd(e) \notin Gone
      BY <1>7, <2>2 DEF Dropping, Nodes
    <3> QED
      BY <1>3, <1>6, <1>8, <3>1
  <2> QED
    BY <2>1, <2>2
<1>12. \A u, v \in Threads :
        pc'[u] = "drop" /\ pc'[v] = "drop" /\ op'[u].exp = op'[v].exp => u = v
  <2>1. \A u \in Threads \ {t} : pc'[u] = "drop" => op'[u].exp \in 1 .. Len(nodes)
    BY <1>7 DEF Nodes, Dropping
  <2>2. \A u \in Threads \ {t} : pc'[u] = "drop" => op'[u].exp # m
    BY <1>3, <2>1
  <2> QED
    BY <1>7, <2>2 DEF Nodes
<1>13. \A u \in Threads : op'[u].node <= Len(nodes')
  <2> SUFFICES ASSUME NEW u \in Threads PROVE op'[u].node <= Len(nodes')
    OBVIOUS
  <2>1. op[u].node <= Len(nodes) /\ op[u].node \in Nat
    BY <1>3 DEF Nodes, OpType
  <2>2. op'[u].node \in {op[u].node, root}
    BY <1>7
  <2> QED
    BY <1>3, <2>1, <2>2
<1> QED
  BY <1>6, <1>9, <1>11, <1>12, <1>13 DEF Nodes

LEMMA InitNodes == Init => Nodes
<1> SUFFICES ASSUME Init PROVE Nodes
  OBVIOUS
<1>1. Gone = {}
  BY DEF Init, RInit, Gone, Listed
<1>2. \A u \in Threads : pc[u] = "idle" /\ op[u].node = 0 /\ Len(nodes) = 0
  BY DEF Init, NoOp
<1>3. ListsOK
  BY DEF Init, RInit, ListsOK
<1> QED
  BY <1>1, <1>2, <1>3 DEF Nodes, Dropping

LEMMA NextNodes == Base /\ Base' /\ Nodes /\ [Next]_vars => Nodes'
<1> SUFFICES ASSUME Base, Base', Nodes, [Next]_vars PROVE Nodes'
  OBVIOUS
<1>1. CASE UNCHANGED vars
  BY <1>1 DEF vars, avars, rvars, Nodes, ListsOK, Dropping, Held, Gone, Listed
<1>2. CASE Next
  <2> PICK t \in Threads : Calm(t) \/ PlantWon(t) \/ PlantLost(t)
    BY <1>2, StepCases
  <2>1. CASE PlantWon(t) \/ PlantLost(t) \/ DropNode(t)
    BY <2>1, PlantWonNodes, PlantLostNodes, DropNodeNodes
  <2>2. CASE Calm(t) /\ ~ DropNode(t)
    <3>1. Begin(t) \/ End(t) \/ RStep(t) \/ UNCHANGED rvars
      BY <2>2, CalmCall
    <3>2. ListsOK' /\ Gone' \subseteq Gone
      BY <3>1, CallGone DEF Nodes
    <3>3. Tame(t) /\ (pc'[t] = "drop" => pc[t] = "drop" /\ op'[t] = op[t])
      BY <2>2, CalmTame
    <3> QED
      BY <3>2, <3>3, TameNodes
  <2> QED
    BY <2>1, <2>2
<1> QED
  BY <1>1, <1>2

LEMMA AlwaysNodes == Spec => []Nodes
<1>1. Base /\ Nodes /\ [Next]_vars => Base' /\ Nodes'
  BY NextBase, NextNodes
<1> QED
  BY <1>1, InitBase, InitNodes, PTL DEF Spec

(* A node of ARTIndex that any operation can get at is neither deleted nor in
   line for it, however finds, inserts and clears of any number of threads
   overlap: find may load the root before its read section
   (concurrent_index.hpp:490) and insert have none
   (concurrent_index.hpp:288), because only nodes that lost the race for the
   root are ever retired. *)
THEOREM HeldNodesLive == Spec => []NodesInUseLive
<1>1. Nodes => NodesInUseLive
  <2> SUFFICES ASSUME Nodes, NEW n \in InUse, NEW t \in Threads
               PROVE  Nd(n) \notin freed \cup Listed(t)
    BY DEF NodesInUseLive
  <2>1. Held(n)
    BY DEF InUse, Held, Active
  <2>2. Nd(n) \notin Gone
    BY <2>1 DEF Nodes
  <2> QED
    BY <2>2 DEF Gone
<1> QED
  BY <1>1, AlwaysNodes, PTL

-----------------------------------------------------------------------------
\* The slots of the nodes in use, and the inserts that still have their KeyValue
\* to themselves.
Stored(v) ==
    \E n \in 1 .. Len(nodes) :
        Held(n) /\ \E i \in 1 .. Len(nodes[n].vals) : v = nodes[n].vals[i]

HasKv == {"plant", "drop", "version", "scan", "load", "cas", "lock", "shift",
          "move", "place"}

Gained(v) == Kv(v) \in Gone => v \in lost

Values ==
    /\ \A k : Kv(k) \in Gone => k \in 1 .. Len(kvs)
    /\ \A v : Stored(v) => v \in 1 .. Len(kvs) /\ Gained(v)
    /\ \A t \in Threads : pc[t] \in HasKv =>
        \A v : v = op[t].kv =>
            /\ v \in 1 .. Len(kvs) /\ ~ Stored(v) /\ Gained(v)
            /\ pc[t] = "plant" => Kv(v) \notin Gone
    /\ \A t, u \in Threads :
        pc[t] \in HasKv /\ pc[u] \in HasKv /\ op[t].kv = op[u].kv => t = u

\* A step of t that allocates no KeyValue and retires none, and puts one into
\* a slot only when t is done with it.
Placing(t, v) == v = op[t].kv /\ pc[t] \in HasKv /\ pc'[t] \notin HasKv

KeepsKv(t) ==
    /\ pc'[t] \in HasKv => pc[t] \in HasKv /\ op'[t].kv = op[t].kv
    /\ pc'[t] = "plant" => pc[t] = "plant"

LEMMA StepValues ==
  ASSUME Base, Values, NEW t \in Threads, Others(t), UNCHANGED <<kvs, lost>>,
         \A k : Kv(k) \in Gone' => Kv(k) \in Gone,
         \A v : Stored(v)' => Stored(v) \/ Placing(t, v),
         KeepsKv(t)
  PROVE  Values'
<1>1. \A v : Gained(v) => Gained(v)'
  BY DEF Gained
<1>2. \A k : Kv(k) \in Gone' => k \in 1 .. Len(kvs')
  BY DEF Values
<1>3. \A u \in Threads : pc'[u] \in HasKv =>
        pc[u] \in HasKv /\ op'[u].kv = op[u].kv /\ (pc'[u] = "plant" => pc[u] = "plant")
  BY DEF Others, KeepsKv
<1>4. \A v : Stored(v)' => v \in 1 .. Len(kvs') /\ Gained(v)'
  BY <1>1 DEF Values, Placing
<1>5. \A u \in Threads : pc'[u] \in HasKv =>
        \A v : v = op'[u].kv =>
            /\ v \in 1 .. Len(kvs') /\ ~ Stored(v)' /\ Gained(v)'
            /\ pc'[u] = "plant" => Kv(v) \notin Gone'
  <2> SUFFICES ASSUME NEW u \in Threads, NEW v, pc'[u] \in HasKv, v = op'[u].kv
               PROVE  /\ v \in 1 .. Len(kvs') /\ ~ Stored(v)' /\ Gained(v)'
                      /\ pc'[u] = "plant" => Kv(v) \notin Gone'
    OBVIOUS
  <2>1. pc[u] \in HasKv /\ v = op[u].kv /\ (pc'[u] = "plant" => pc[u] = "plant")
    BY <1>3
  <2>2. /\ v \in 1 .. Len(kvs) /\ ~ Stored(v) /\ Gained(v)
        /\ pc[u] = "plant" => Kv(v) \notin Gone
    BY <2>1 DEF Values
  <2>3. ~ Placing(t, v)
    BY <2>1 DEF Values, Placing
  <2> QED
    BY <1>1, <2>1, <2>2, <2>3
<1>6. \A v, u \in Threads :
        pc'[v] \in HasKv /\ pc'[u] \in HasKv /\ op'[v].kv = op'[u].kv => v = u
  BY <1>3 DEF Values
<1> QED
  BY <1>2, <1>4, <1>5, <1>6 DEF Values

LEMMA SameStored ==
  ASSUME NEW t \in Threads, Tame(t), nodes' = nodes
  PROVE  \A v : Stored(v)' => Stored(v)
BY TameHeld DEF Stored

LEMMA UpdateStored ==
  ASSUME Base, NEW t \in Threads, Tame(t), pc[t] \in NodePcs, NEW x,
         nodes' = [nodes EXCEPT ![op[t].node] = x]
  PROVE  \A v : Stored(v)' =>
            \/ Stored(v)
            \/ \E i \in 1 .. Len(x.vals) :
                v = x.vals[i] /\ \A j \in 1 .. Len(Mine(t).vals) : v # Mine(t).vals[j]
<1> SUFFICES ASSUME NEW v, Stored(v)', ~ Stored(v)
             PROVE  \E i \in 1 .. Len(x.vals) :
                v = x.vals[i] /\ \A j \in 1 .. Len(Mine(t).vals) : v # Mine(t).vals[j]
  OBVIOUS
<1>1. op[t].node \in 1 .. Len(nodes) /\ Held(op[t].node)
  BY MineType DEF Held
<1>2. /\ Len(nodes') = Len(nodes)
      /\ \A n \in 1 .. Len(nodes) : nodes'[n] = IF n = op[t].node THEN x ELSE nodes[n]
  BY <1>1 DEF Base, ATypeOK
<1>3. PICK n \in 1 .. Len(nodes) :
        Held(n)' /\ \E i \in 1 .. Len(nodes'[n].vals) : v = nodes'[n].vals[i]
  BY <1>2 DEF Stored
<1>4. Held(n)
  BY <1>3, TameHeld
<1>5. CASE n = op[t].node
  <2>1. nodes'[n] = x
    BY <1>2, <1>5
  <2>2. PICK i \in 1 .. Len(x.vals) : v = x.vals[i]
    BY <1>3, <2>1
  <2>3. CASE \E j \in 1 .. Len(Mine(t).vals) : v = Mine(t).vals[j]
    <3>1. \E j \in 1 .. Len(nodes[n].vals) : v = nodes[n].vals[j]
      BY <1>5, <2>3 DEF Mine
    <3> QED
      BY <1>4, <3>1 DEF Stored
  <2> QED
    BY <2>2, <2>3
<1>6. CASE n # op[t].node
  BY <1>2, <1>3, <1>4, <1>6 DEF Stored
<1> QED
  BY <1>5, <1>6

\* The calm steps but those that allocate.
Settled(t) ==
    \/ \E k \in Keys : StartFind(t, k)
    \/ StartClear(t)
    \/ DropNode(t) \/ ReadVersion(t) \/ Spin(t)
    \/ ScanPut(t) \/ LoadSlot(t) \/ CasSlot(t) \/ Lock(t) \/ LockFails(t)
    \/ PutKey(t) \/ MoveValue(t) \/ PlaceValue(t) \/ Widen(t) \/ Unlock(t)
    \/ Count(t) \/ EnterOuter(t) \/ EnterInner(t) \/ ScanFind(t) \/ Fetch(t)
    \/ Compare(t) \/ ResetSize(t) \/ (RStep(t) /\ UNCHANGED avars)

LEMMA SettledKeeps ==
  ASSUME Base, NEW t \in Threads, Settled(t)
  PROVE  UNCHANGED <<kvs, lost>> /\ KeepsKv(t)
<1> USE DEF Base, ATypeOK
<1>1. op[t] \in OpType /\ "idle" \notin HasKv
  BY DEF HasKv
<1>2. CASE UNCHANGED avars
  BY <1>2 DEF avars, KeepsKv
<1>3. ASSUME NEW s, s \notin HasKv, pc' = [pc EXCEPT ![t] = s] PROVE KeepsKv(t)
  BY <1>3 DEF KeepsKv, HasKv
<1>4. ASSUME NEW s, NEW x, s # "plant", pc[t] \in HasKv, x.kv = op[t].kv,
             pc' = [pc EXCEPT ![t] = s], op' = [op EXCEPT ![t] = x]
      PROVE  KeepsKv(t)
  BY <1>4 DEF KeepsKv
<1>5. op = [op EXCEPT ![t] = op[t]]
  OBVIOUS
<1>6. CASE \E k \in Keys : StartFind(t, k)
  <2>1. /\ pc[t] = "idle" /\ UNCHANGED <<kvs, lost>>
        /\ pc' = pc \/ pc' = [pc EXCEPT ![t] = "enter"]
    BY <1>6 DEF StartFind, Begun, Ready, Become, History
  <2> QED
    BY <2>1 DEF KeepsKv, HasKv
<1>7. CASE StartClear(t)
  BY <1>3, <1>7 DEF StartClear, Become, History, HasKv
<1>8. CASE DropNode(t)
  <2> DEFINE x == [op[t] EXCEPT !.exp = 0]
  <2>1. x.kv = op[t].kv
    BY <1>1 DEF OpType
  <2> HIDE DEF x
  <2>2. op' = [op EXCEPT ![t] = x] /\ pc' = [pc EXCEPT ![t] = "version"]
        /\ pc[t] = "drop" /\ UNCHANGED <<kvs, lost>>
    BY <1>8 DEF DropNode, Become, Ready, History, x
  <2> QED
    BY <1>4, <2>1, <2>2 DEF HasKv
<1>9. CASE ReadVersion(t)
  <2> DEFINE x == [op[t] EXCEPT !.ver = Mine(t).ver, !.i = 1]
  <2>1. x.kv = op[t].kv
    BY <1>1 DEF OpType
  <2> HIDE DEF x
  <2>2. op' = [op EXCEPT ![t] = x] /\ pc' = [pc EXCEPT ![t] = "scan"]
        /\ pc[t] = "version" /\ UNCHANGED <<kvs, lost>>
    BY <1>9 DEF ReadVersion, Become, Ready, History, x
  <2> QED
    BY <1>4, <2>1, <2>2 DEF HasKv
<1>10. CASE ScanPut(t)
  <2>1. pc[t] = "scan" /\ Scan(t, "load", "lock") /\ UNCHANGED <<kvs, lost>>
    BY <1>10 DEF ScanPut, Ready, History
  <2>2. op[t].node \in 1 .. Len(nodes)
    BY <2>1, MineType DEF NodePcs
  <2> DEFINE x == [op[t] EXCEPT !.i = op[t].i + 1]
  <2>3. x.kv = op[t].kv
    BY <1>1 DEF OpType
  <2> HIDE DEF x
  <2>4. \/ op' = op /\ \E s \in {"load", "lock"} : pc' = [pc EXCEPT ![t] = s]
        \/ op' = [op EXCEPT ![t] = x] /\ pc' = [pc EXCEPT ![t] = pc[t]]
    BY <2>1, <2>2, ScanStep DEF x
  <2> QED
    BY <1>4, <1>5, <2>1, <2>3, <2>4 DEF HasKv
<1>11. CASE ScanFind(t)
  <2>1. pc[t] = "look" /\ Scan(t, "fetch", "none") /\ UNCHANGED <<kvs, lost>>
    BY <1>11 DEF ScanFind, Ready, History
  <2>2. op[t].node \in 1 .. Len(nodes)
    BY <2>1, MineType DEF NodePcs
  <2>3. \E s \in {"fetch", "none", "look"} : pc' = [pc EXCEPT ![t] = s]
    BY <2>1, <2>2, ScanStep
  <2> QED
    BY <1>3, <2>1, <2>3 DEF HasKv
<1>12. CASE LoadSlot(t)
  <2> DEFINE x == [op[t] EXCEPT !.exp = Mine(t).vals[op[t].i]]
  <2>1. x.kv = op[t].kv
    BY <1>1 DEF OpType
  <2> HIDE DEF x
  <2>2. /\ pc[t] = "load" /\ UNCHANGED <<kvs, lost>>
        /\ \/ pc' = [pc EXCEPT ![t] = "idle"]
           \/ pc' = [pc EXCEPT ![t] = "cas"] /\ op' = [op EXCEPT ![t] = x]
    BY <1>12 DEF LoadSlot, Ready, Become, Return, History, x
  <2> QED
    BY <1>3, <1>4, <2>1, <2>2 DEF HasKv
<1>13. CASE CasSlot(t)
  <2> DEFINE y == [op[t] EXCEPT !.i = op[t].i + 1]
             x == [y EXCEPT !.exp = 0]
  <2>1. x.kv = op[t].kv
    BY <1>1 DEF OpType
  <2>2. pc[t] = "cas" /\ UNCHANGED <<kvs, lost>>
    BY <1>13 DEF CasSlot, Ready
  <2>3. CASE Mine(t).vals[op[t].i] = op[t].exp
    <3>1. pc' = [pc EXCEPT ![t] = "idle"]
      BY <1>13, <2>3 DEF CasSlot, Return, Become
    <3> QED
      BY <1>1, <1>3, <2>2, <3>1
  <2>4. CASE Mine(t).vals[op[t].i] # op[t].exp
    <3>1. op' = [op EXCEPT ![t].i = @ + 1, ![t].exp = 0]
      BY <1>13, <2>4 DEF CasSlot
    <3>2. op' = [op EXCEPT ![t] = x]
      BY <3>1
    <3> HIDE DEF x, y
    <3>3. \E s \in {"scan", "version"} : pc' = [pc EXCEPT ![t] = s]
      BY <1>13, <2>4 DEF CasSlot, Become
    <3> QED
      BY <1>4, <2>1, <2>2, <3>2, <3>3 DEF HasKv
  <2> QED
    BY <2>3, <2>4
<1>14. CASE Lock(t)
  <2> DEFINE x == [op[t] EXCEPT !.i = 2]
  <2>1. x.kv = op[t].kv
    BY <1>1 DEF OpType
  <2> HIDE DEF x
  <2>2. /\ op' = [op EXCEPT ![t] = x] /\ pc' = [pc EXCEPT ![t] = "shift"]
        /\ pc[t] = "lock" /\ UNCHANGED <<kvs, lost>>
    BY <1>14, LockStep DEF x
  <2> QED
    BY <1>4, <2>1, <2>2 DEF HasKv
<1>15. CASE MoveValue(t)
  <2> DEFINE x == [op[t] EXCEPT !.i = op[t].i - 1]
  <2>1. x.kv = op[t].kv
    BY <1>1 DEF OpType
  <2> HIDE DEF x
  <2>2. /\ op' = [op EXCEPT ![t] = x] /\ pc' = [pc EXCEPT ![t] = "shift"]
        /\ pc[t] = "move" /\ UNCHANGED <<kvs, lost>>
    BY <1>15 DEF MoveValue, Ready, Become, History, x
  <2> QED
    BY <1>4, <2>1, <2>2 DEF HasKv
<1>16. CASE PutKey(t) \/ LockFails(t)
  <2>1. /\ pc[t] \in {"shift", "lock"} /\ op' = op /\ UNCHANGED <<kvs, lost>>
        /\ \E s \in {"move", "place", "version"} : pc' = [pc EXCEPT ![t] = s]
    BY <1>16 DEF PutKey, LockFails, Ready, Become, History
  <2> QED
    BY <1>4, <1>5, <2>1 DEF HasKv
<1>17. CASE PlaceValue(t) \/ Widen(t) \/ Unlock(t) \/ EnterOuter(t) \/ EnterInner(t) \/ Fetch(t)
  <2>1. /\ UNCHANGED <<kvs, lost>>
        /\ \E s \in {"widen", "unlock", "count", "nest", "look", "compare"} : pc' = [pc EXCEPT ![t] = s]
    BY <1>17 DEF PlaceValue, Widen, Unlock, EnterOuter, EnterInner, Fetch, Become, History
  <2> QED
    BY <1>3, <2>1 DEF HasKv
<1>18. CASE Count(t) \/ Compare(t) \/ ResetSize(t)
  BY <1>1, <1>3, <1>18 DEF Count, Compare, ResetSize, Return, Become, History
<1>19. CASE Spin(t) \/ (RStep(t) /\ UNCHANGED avars)
  BY <1>2, <1>19 DEF Spin, vars, avars
<1> QED
  BY <1>6, <1>7, <1>8, <1>9, <1>10, <1>11, <1>12, <1>13, <1>14, <1>15, <1>16,
     <1>17, <1>18, <1>19 DEF Settled

LEMMA PutValues ==
  ASSUME NEW s \in Seq(Nat), NEW i, NEW x \in Nat,
         (i = 2 /\ Len(s) = 1) \/ (i = 1 /\ Len(s) = 2)
  PROVE  \A k \in 1 .. Len(Put(s, i, x)) :
            Put(s, i, x)[k] = x \/ \E j \in 1 .. Len(s) : Put(s, i, x)[k] = s[j]
<1> SUFFICES ASSUME NEW k \in 1 .. Len(Put(s, i, x))
             PROVE  Put(s, i, x)[k] = x \/ \E j \in 1 .. Len(s) : Put(s, i, x)[k] = s[j]
  OBVIOUS
<1>1. /\ Len(Put(s, i, x)) = 2 /\ Put(s, i, x)[i] = x
      /\ i = 2 => Put(s, i, x)[1] = s[1]
      /\ i = 1 => Put(s, i, x)[2] = s[2]
  BY PutTwo
<1>2. k = 1 \/ k = 2
  BY <1>1
<1>3. CASE k = i
  BY <1>1, <1>3
<1>4. CASE k # i /\ i = 2
  <2>1. k = 1 /\ Len(s) = 1
    BY <1>2, <1>4
  <2>2. 1 \in 1 .. Len(s)
    BY <2>1
  <2> QED
    BY <1>1, <1>4, <2>1, <2>2
<1>5. CASE k # i /\ i = 1
  <2>1. k = 2 /\ Len(s) = 2
    BY <1>2, <1>5
  <2>2. 2 \in 1 .. Len(s)
    BY <2>1
  <2> QED
    BY <1>1, <1>5, <2>1, <2>2
<1> QED
  BY <1>3, <1>4, <1>5

LEMMA SettledStored ==
  ASSUME Base, NEW t \in Threads, Settled(t)
  PROVE  \A v : Stored(v)' => Stored(v) \/ Placing(t, v)
<1>1. Tame(t)
  BY CalmTame DEF Settled, Calm
<1>2. CASE nodes' = nodes
  BY <1>1, <1>2, SameStored
<1>3. ASSUME NEW x, pc[t] \in NodePcs, x.vals = Mine(t).vals,
             nodes' = [nodes EXCEPT ![op[t].node] = x]
      PROVE  \A v : Stored(v)' => Stored(v)
  <2>1. \A i \in 1 .. Len(x.vals) :
            \E j \in 1 .. Len(Mine(t).vals) : x.vals[i] = Mine(t).vals[j]
    BY <1>3
  <2>2. \A v : Stored(v)' =>
          \/ Stored(v)
          \/ \E i \in 1 .. Len(x.vals) :
              v = x.vals[i] /\ \A j \in 1 .. Len(Mine(t).vals) : v # Mine(t).vals[j]
    BY <1>1, <1>3, UpdateStored
  <2> QED
    BY <2>1, <2>2
<1>4. CASE CasSlot(t)
  <2>1. pc[t] = "cas" /\ pc[t] \in NodePcs /\ pc[t] \in HasKv /\ "idle" \notin HasKv
    BY <1>4 DEF CasSlot, Ready, NodePcs, HasKv
  <2>2. CASE Mine(t).vals[op[t].i] # op[t].exp
    BY <1>2, <1>4, <2>2 DEF CasSlot
  <2>3. CASE Mine(t).vals[op[t].i] = op[t].exp
    <3> DEFINE a == [Mine(t).vals EXCEPT ![op[t].i] = op[t].kv]
               x == [Mine(t) EXCEPT !.vals = a]
    <3>1. nodes' = [nodes EXCEPT ![op[t].node] = x] /\ pc' = [pc EXCEPT ![t] = "idle"]
      BY <1>4, <2>3 DEF CasSlot, Return, Become, Mine
    <3>2. Mine(t) \in NodeType /\ Mine(t).vals \in Seq(Nat) /\ op[t].kv \in Nat
      BY <2>1, MineType, OpTypes DEF Base, OpType
    <3>3. /\ Len(a) = Len(Mine(t).vals)
          /\ \A i \in 1 .. Len(a) : a[i] = op[t].kv \/ a[i] = Mine(t).vals[i]
      BY <3>2
    <3> HIDE DEF a
    <3>4. x.vals = a
      BY <3>2 DEF NodeType
    <3> HIDE DEF x
    <3>5. \A i \in 1 .. Len(x.vals) :
            \/ x.vals[i] = op[t].kv
            \/ \E j \in 1 .. Len(Mine(t).vals) : x.vals[i] = Mine(t).vals[j]
      BY <3>3, <3>4
    <3>6. \A v : Stored(v)' => Stored(v) \/ v = op[t].kv
      <4>1. \A v : Stored(v)' =>
              \/ Stored(v)
              \/ \E i \in 1 .. Len(x.vals) :
                  v = x.vals[i] /\ \A j \in 1 .. Len(Mine(t).vals) : v # Mine(t).vals[j]
        BY <1>1, <2>1, <3>1, UpdateStored
      <4> QED
        BY <3>5, <4>1
    <3>7. pc'[t] \notin HasKv
      BY <2>1, <3>1 DEF Base, ATypeOK
    <3> QED
      BY <2>1, <3>6, <3>7 DEF Placing
  <2> QED
    BY <2>2, <2>3
<1>5. CASE Lock(t)
  <2> DEFINE x == [Mine(t) EXCEPT !.locked = TRUE]
  <2>1. pc[t] \in NodePcs /\ nodes' = [nodes EXCEPT ![op[t].node] = x]
    BY <1>5, LockStep DEF NodePcs
  <2>2. x.vals = Mine(t).vals
    BY <2>1, MineType, SetLocked
  <2> HIDE DEF x
  <2> QED
    BY <1>3, <2>1, <2>2
<1>6. CASE PutKey(t)
  <2>1. /\ pc[t] \in NodePcs
        /\ \E a : nodes' = [nodes EXCEPT ![op[t].node] = [Mine(t) EXCEPT !.keys = a]]
    BY <1>6 DEF PutKey, Ready, SetNode, Mine, NodePcs
  <2>2. PICK a : nodes' = [nodes EXCEPT ![op[t].node] = [Mine(t) EXCEPT !.keys = a]]
    BY <2>1
  <2> DEFINE x == [Mine(t) EXCEPT !.keys = a]
  <2>3. x.vals = Mine(t).vals
    <3>1. Mine(t) \in NodeType
      BY <2>1, MineType
    <3> QED
      BY <3>1 DEF NodeType
  <2> HIDE DEF x
  <2> QED
    BY <1>3, <2>1, <2>2, <2>3 DEF x
<1>7. CASE Widen(t)
  <2> DEFINE x == [Mine(t) EXCEPT !.size = Mine(t).size + 1]
  <2>1. pc[t] \in NodePcs /\ nodes' = [nodes EXCEPT ![op[t].node] = x]
    BY <1>7 DEF Widen, Ready, SetNode, Mine, NodePcs
  <2>2. x.vals = Mine(t).vals
    <3>1. Mine(t) \in NodeType
      BY <2>1, MineType
    <3> QED
      BY <3>1 DEF NodeType
  <2> HIDE DEF x
  <2> QED
    BY <1>3, <2>1, <2>2
<1>8. CASE Unlock(t)
  <2> DEFINE x == Incremented(Mine(t))
  <2>1. pc[t] \in NodePcs /\ nodes' = [nodes EXCEPT ![op[t].node] = x]
    BY <1>8 DEF Unlock, Ready, Mine, NodePcs
  <2>2. x.vals = Mine(t).vals
    BY <2>1, MineType, IncrementedFields
  <2> HIDE DEF x
  <2> QED
    BY <1>3, <2>1, <2>2
<1>9. CASE MoveValue(t)
  <2> DEFINE a == Put(Mine(t).vals, op[t].i, Mine(t).vals[op[t].i - 1])
             x == [Mine(t) EXCEPT !.vals = a]
  <2>1. pc[t] = "move" /\ nodes' = [nodes EXCEPT ![op[t].node] = x]
    BY <1>9 DEF MoveValue, Ready, SetNode, Mine
  <2>2. pc[t] \in Lockers
    BY <2>1 DEF Lockers
  <2>3. op[t].i = 2 /\ Len(Mine(t).vals) = 1 /\ Mine(t).vals \in Seq(Nat) /\ Mine(t) \in NodeType
    BY <2>1, <2>2, Locker DEF Progress
  <2>4. Mine(t).vals[op[t].i - 1] = Mine(t).vals[1] /\ Mine(t).vals[1] \in Nat
    BY <2>3
  <2>5. \A k \in 1 .. Len(a) : \E j \in 1 .. Len(Mine(t).vals) : a[k] = Mine(t).vals[j]
    BY <2>3, <2>4, PutValues, SMTT(40)
  <2> HIDE DEF a
  <2>6. x.vals = a
    BY <2>3 DEF NodeType
  <2> HIDE DEF x
  <2>7. \A i \in 1 .. Len(x.vals) :
            \E j \in 1 .. Len(Mine(t).vals) : x.vals[i] = Mine(t).vals[j]
    BY <2>5, <2>6
  <2> QED
    <3>1. pc[t] \in NodePcs
      BY <2>2, Locker
    <3>2. \A v : Stored(v)' => Stored(v)
      <4>1. \A v : Stored(v)' =>
              \/ Stored(v)
              \/ \E i \in 1 .. Len(x.vals) :
                  v = x.vals[i] /\ \A j \in 1 .. Len(Mine(t).vals) : v # Mine(t).vals[j]
        BY <1>1, <2>1, <3>1, UpdateStored
      <4> QED
        BY <2>7, <4>1
    <3> QED
      BY <3>2
<1>10. CASE PlaceValue(t)
  <2> DEFINE a == Put(Mine(t).vals, op[t].i, op[t].kv)
             x == [Mine(t) EXCEPT !.vals = a]
  <2>1. /\ pc[t] = "place" /\ nodes' = [nodes EXCEPT ![op[t].node] = x]
        /\ pc' = [pc EXCEPT ![t] = "widen"]
    BY <1>10 DEF PlaceValue, Ready, SetNode, Become, Mine
  <2>2. pc[t] \in Lockers /\ pc[t] \in HasKv /\ "widen" \notin HasKv
    BY <2>1 DEF Lockers, HasKv
  <2>3. /\ (op[t].i = 2 /\ Len(Mine(t).vals) = 1) \/ (op[t].i = 1 /\ Len(Mine(t).vals) = 2)
        /\ Mine(t).vals \in Seq(Nat) /\ Mine(t) \in NodeType /\ op[t].kv \in Nat
    BY <2>1, <2>2, Locker DEF Progress
  <2>4. \A k \in 1 .. Len(a) :
            a[k] = op[t].kv \/ \E j \in 1 .. Len(Mine(t).vals) : a[k] = Mine(t).vals[j]
    BY <2>3, PutValues, SMTT(40)
  <2> HIDE DEF a
  <2>5. x.vals = a
    BY <2>3 DEF NodeType
  <2> HIDE DEF x
  <2>6. \A i \in 1 .. Len(x.vals) :
            \/ x.vals[i] = op[t].kv
            \/ \E j \in 1 .. Len(Mine(t).vals) : x.vals[i] = Mine(t).vals[j]
    BY <2>4, <2>5
  <2>7. \A v : Stored(v)' => Stored(v) \/ v = op[t].kv
    <3>1. pc[t] \in NodePcs
      BY <2>2, Locker
    <3> QED
      <4>1. \A v : Stored(v)' =>
              \/ Stored(v)
              \/ \E i \in 1 .. Len(x.vals) :
                  v = x.vals[i] /\ \A j \in 1 .. Len(Mine(t).vals) : v # Mine(t).vals[j]
        BY <1>1, <2>1, <3>1, UpdateStored
      <4> QED
        BY <2>6, <4>1
  <2>8. pc'[t] \notin HasKv
    BY <2>1, <2>2 DEF Base, ATypeOK
  <2> QED
    BY <2>2, <2>7, <2>8 DEF Placing
<1>11. CASE \/ \E k \in Keys : StartFind(t, k)
            \/ StartClear(t) \/ DropNode(t) \/ ReadVersion(t) \/ Spin(t)
            \/ ScanPut(t) \/ LoadSlot(t) \/ LockFails(t)
            \/ Count(t) \/ EnterOuter(t) \/ EnterInner(t) \/ ScanFind(t) \/ Fetch(t)
            \/ Compare(t) \/ ResetSize(t) \/ (RStep(t) /\ UNCHANGED avars)
  <2>1. nodes' = nodes
    BY <1>11 DEF StartFind, StartClear, DropNode, ReadVersion, Spin, ScanPut, LoadSlot,
                 LockFails, Count, EnterOuter, EnterInner, ScanFind, Fetch, Compare,
                 ResetSize, avars, vars
  <2> QED
    BY <1>2, <2>1
<1> QED
  BY <1>4, <1>5, <1>6, <1>7, <1>8, <1>9, <1>10, <1>11 DEF Settled

\* A step of t that allocates the KeyValue t goes on with.
LEMMA AllocValues ==
  ASSUME Base, Values, NEW t \in Threads, Others(t), lost' = lost,
         NEW k \in Keys, kvs' = Append(kvs, k), op'[t].kv = Len(kvs) + 1,
         \A v : Kv(v) \in Gone' => Kv(v) \in Gone,
         \A v : Stored(v)' => Stored(v)
  PROVE  Values'
<1> DEFINE w == Len(kvs) + 1
<1>1. Len(kvs) \in Nat /\ Len(kvs') = w
  BY DEF Base, ATypeOK
<1>2. \A v : Gained(v) => Gained(v)'
  BY DEF Gained
<1>3. \A v : Kv(v) \in Gone' => v \in 1 .. Len(kvs')
  BY <1>1 DEF Values
<1>4. \A v : Stored(v)' => v \in 1 .. Len(kvs') /\ Gained(v)'
  BY <1>1, <1>2 DEF Values
<1>5. ASSUME NEW v, v = w
      PROVE  v \in 1 .. Len(kvs') /\ ~ Stored(v)' /\ Gained(v)' /\ Kv(v) \notin Gone'
  <2>1. v \notin 1 .. Len(kvs) /\ v \in 1 .. Len(kvs')
    BY <1>1, <1>5
  <2>2. ~ Stored(v)' /\ Kv(v) \notin Gone'
    BY <2>1 DEF Values
  <2> QED
    BY <2>1, <2>2 DEF Gained
<1>6. \A u \in Threads \ {t} : pc'[u] = pc[u] /\ op'[u].kv = op[u].kv
  BY DEF Others
<1>7. \A u \in Threads : pc'[u] \in HasKv =>
        \A v : v = op'[u].kv =>
            /\ v \in 1 .. Len(kvs') /\ ~ Stored(v)' /\ Gained(v)'
            /\ pc'[u] = "plant" => Kv(v) \notin Gone'
  <2> SUFFICES ASSUME NEW u \in Threads, NEW v, pc'[u] \in HasKv, v = op'[u].kv
               PROVE  /\ v \in 1 .. Len(kvs') /\ ~ Stored(v)' /\ Gained(v)'
                      /\ pc'[u] = "plant" => Kv(v) \notin Gone'
    OBVIOUS
  <2>1. CASE u = t
    <3>1. v = w
      BY <2>1
    <3> HIDE DEF w
    <3> QED
      BY <1>5, <3>1
  <2>2. CASE u # t
    <3>1. /\ v \in 1 .. Len(kvs) /\ ~ Stored(v) /\ Gained(v)
          /\ pc[u] = "plant" => Kv(v) \notin Gone
      BY <1>6, <2>2 DEF Values
    <3> QED
      BY <1>1, <1>2, <1>6, <2>2, <3>1
  <2> QED
    BY <2>1, <2>2
<1>8. \A v, u \in Threads :
        pc'[v] \in HasKv /\ pc'[u] \in HasKv /\ op'[v].kv = op'[u].kv => v = u
  <2>1. \A u \in Threads \ {t} : pc'[u] \in HasKv => op'[u].kv # w
    <3> SUFFICES ASSUME NEW u \in Threads \ {t}, pc'[u] \in HasKv PROVE op'[u].kv # w
      OBVIOUS
    <3>1. op'[u].kv = op[u].kv /\ op[u].kv \in 1 .. Len(kvs)
      BY <1>6 DEF Values
    <3> QED
      BY <1>1, <3>1
  <2> QED
    BY <1>6, <2>1 DEF Values
<1> QED
  BY <1>3, <1>4, <1>7, <1>8 DEF Values

LEMMA StartValues ==
  ASSUME Base, Values, Nodes, NEW t \in Threads,
         (\E k \in Keys : StartPut(t, "insert", k) \/ StartPut(t, "upsert", k)) \/ InsertAgain(t)
  PROVE  Values'
<1>1. Tame(t)
  BY CalmTame DEF Calm
<1>2. UNCHANGED <<rvars, nodes, lost>>
  BY DEF StartPut, InsertAgain, History
<1>3. \A v : Stored(v)' => Stored(v)
  BY <1>1, <1>2, SameStored
<1>4. Gone' \subseteq Gone
  BY <1>2, CallGone DEF Nodes
<1>5. \E k \in Keys : kvs' = Append(kvs, k) /\ op'[t].kv = Len(kvs) + 1
  <2>1. CASE \E k \in Keys : StartPut(t, "insert", k) \/ StartPut(t, "upsert", k)
    <3> PICK kind \in {"insert", "upsert"}, k \in Keys : StartPut(t, kind, k)
      BY <2>1
    <3> DEFINE x == [NoOp EXCEPT !.kind = kind, !.key = k, !.kv = Len(kvs) + 1,
                                 !.old = root, !.node = root]
    <3>1. x.kv = Len(kvs) + 1
      BY NoOpType DEF OpType
    <3> HIDE DEF x
    <3>2. op' = [op EXCEPT ![t] = x] /\ kvs' = Append(kvs, k)
      BY DEF StartPut, x
    <3> QED
      BY <3>1, <3>2 DEF Base, ATypeOK
  <2>2. CASE InsertAgain(t)
    <3> DEFINE x == [op[t] EXCEPT !.kind = "insert", !.kv = Len(kvs) + 1, !.old = root, !.node = root]
    <3>1. x.kv = Len(kvs) + 1 /\ op[t].key \in Keys
      BY OpTypes, ZenonT(60) DEF OpType, Base
    <3> HIDE DEF x
    <3>2. op' = [op EXCEPT ![t] = x] /\ kvs' = Append(kvs, op[t].key)
      BY <2>2 DEF InsertAgain, x
    <3> QED
      BY <3>1, <3>2 DEF Base, ATypeOK
  <2> QED
    BY <2>1, <2>2
<1> QED
  BY <1>1, <1>2, <1>3, <1>4, <1>5, AllocValues DEF Tame

LEMMA PlantWonValues ==
  ASSUME Base, Values, Nodes, NEW t \in Threads, PlantWon(t) PROVE Values'
<1> DEFINE m == Len(nodes) + 1
           x == Node(1, <<Byte(t)>>, <<op[t].kv>>)
<1>1. /\ pc[t] = "plant" /\ pc' = [pc EXCEPT ![t] = "count"] /\ root' = m /\ op' = op
      /\ nodes' = Append(nodes, x)
      /\ UNCHANGED <<rvars, kvs, lost>>
  BY DEF PlantWon, Become, Ready, History
<1>2. x.vals = <<op[t].kv>>
  BY DEF Node
<1> HIDE DEF x
<1>3. /\ Len(nodes) \in Nat /\ Len(nodes') = m /\ nodes'[m] = x
      /\ \A n \in 1 .. Len(nodes) : nodes'[n] = nodes[n]
  BY <1>1 DEF Base, ATypeOK
<1>4. \A n : Held(n)' => Held(n) \/ n = m
  BY <1>1 DEF Held
<1>5. pc[t] \in HasKv /\ pc'[t] \notin HasKv /\ Others(t)
  BY <1>1 DEF HasKv, Base, ATypeOK, Others
<1>6. \A v : Stored(v)' => Stored(v) \/ Placing(t, v)
  <2> SUFFICES ASSUME NEW v, Stored(v)' PROVE Stored(v) \/ v = op[t].kv
    BY <1>5 DEF Placing
  <2>1. PICK n \in 1 .. m :
          Held(n)' /\ \E i \in 1 .. Len(nodes'[n].vals) : v = nodes'[n].vals[i]
    BY <1>3 DEF Stored
  <2>2. CASE n = m
    <3>1. nodes'[n].vals = <<op[t].kv>>
      BY <1>2, <1>3, <2>2
    <3> QED
      BY <2>1, <3>1
  <2>3. CASE n # m
    <3>1. n \in 1 .. Len(nodes)
      BY <1>3, <2>3
    <3> QED
      BY <1>3, <1>4, <2>1, <2>3, <3>1 DEF Stored
  <2> QED
    BY <2>2, <2>3
<1>7. Gone' \subseteq Gone
  BY <1>1, CallGone DEF Nodes
<1>8. KeepsKv(t)
  BY <1>5 DEF KeepsKv, HasKv
<1> QED
  BY <1>1, <1>5, <1>6, <1>7, <1>8, StepValues

LEMMA PlantLostValues ==
  ASSUME Base, Values, Nodes, Nodes', NEW t \in Threads, PlantLost(t) PROVE Values'
<1> DEFINE m == Len(nodes) + 1
           w == op[t].kv
           x == [op[t] EXCEPT !.old = root, !.node = root, !.exp = m]
<1>1. /\ pc[t] = "plant" /\ root # 0 /\ root' = root /\ Retire(t, Kv(w)) /\ kvs' = kvs
      /\ nodes' = Append(nodes, Node(1, <<Byte(t)>>, <<w>>))
  BY DEF PlantLost, Ready
<1>2. \/ pc' = [pc EXCEPT ![t] = "drop"] /\ op' = [op EXCEPT ![t] = x] /\ lost' = lost \cup {w}
      \/ pc' = [pc EXCEPT ![t] = "again"] /\ op' = op /\ lost' = lost
  BY DEF PlantLost, Become
<1>3. /\ Len(nodes) \in Nat /\ Len(nodes') = m
      /\ \A n \in 1 .. Len(nodes) : nodes'[n] = nodes[n]
      /\ root <= Len(nodes) /\ root \in Nat
      /\ \A u \in Threads : op[u] \in OpType
  BY <1>1 DEF Base, ATypeOK, Shape
<1>4. x.kv = w /\ x.node = root
  BY <1>3 DEF OpType
<1> HIDE DEF x
<1>5. /\ \A u \in Threads \ {t} : pc'[u] = pc[u] /\ op'[u] = op[u]
      /\ \A u \in Threads : op'[u].kv = op[u].kv /\ op'[u].node \in {op[u].node, root}
      /\ pc'[t] \in HasKv => lost' = lost \cup {w}
      /\ pc'[t] # "plant"
      /\ lost \subseteq lost'
  BY <1>2, <1>4 DEF Base, ATypeOK, HasKv
<1>6. \A n : Held(n)' => Held(n)
  BY <1>1, <1>5 DEF Held
<1>7. ~ Held(m)
  <2>1. \A u \in Threads : op[u].node # m
    <3> SUFFICES ASSUME NEW u \in Threads PROVE op[u].node # m
      OBVIOUS
    <3>1. op[u].node <= Len(nodes) /\ op[u].node \in Nat
      BY <1>3 DEF Nodes, OpType
    <3> QED
      BY <1>3, <3>1
  <2> QED
    BY <1>3, <2>1 DEF Held
<1>8. \A v : Stored(v)' => Stored(v)
  <2> SUFFICES ASSUME NEW v, Stored(v)' PROVE Stored(v)
    OBVIOUS
  <2>1. PICK n \in 1 .. m :
          Held(n)' /\ \E i \in 1 .. Len(nodes'[n].vals) : v = nodes'[n].vals[i]
    BY <1>3 DEF Stored
  <2>2. Held(n) /\ n # m
    BY <1>6, <1>7, <2>1
  <2>3. n \in 1 .. Len(nodes)
    BY <1>3, <2>2
  <2> QED
    BY <1>3, <2>1, <2>2, <2>3 DEF Stored
<1>9. w \in 1 .. Len(kvs) /\ ~ Stored(w) /\ pc[t] \in HasKv
  <2>1. pc[t] \in HasKv
    BY <1>1 DEF HasKv
  <2> QED
    BY <2>1 DEF Values
<1>10. \A v : Kv(v) \in Gone' => Kv(v) \in Gone \/ v = w
  <2>1. Kv(w) \in {"kv", "node"} \X Nat
    BY <1>9 DEF Kv
  <2>2. Gone' \subseteq Gone \cup {Kv(w)}
    BY <1>1, <2>1, RetireGone DEF Nodes
  <2> QED
    BY <2>2 DEF Kv
<1>11. \A v : v # w /\ Gained(v) => Gained(v)'
  BY <1>5, <1>10 DEF Gained
<1> HIDE DEF w
<1>12. \A v : Kv(v) \in Gone' => v \in 1 .. Len(kvs')
  BY <1>1, <1>9, <1>10 DEF Values
<1>13. \A v : Stored(v)' => v \in 1 .. Len(kvs') /\ Gained(v)'
  BY <1>1, <1>8, <1>9, <1>11 DEF Values
<1>14. \A u \in Threads : pc'[u] \in HasKv =>
        \A v : v = op'[u].kv =>
            /\ v \in 1 .. Len(kvs') /\ ~ Stored(v)' /\ Gained(v)'
            /\ pc'[u] = "plant" => Kv(v) \notin Gone'
  <2> SUFFICES ASSUME NEW u \in Threads, NEW v, pc'[u] \in HasKv, v = op'[u].kv
               PROVE  /\ v \in 1 .. Len(kvs') /\ ~ Stored(v)' /\ Gained(v)'
                      /\ pc'[u] = "plant" => Kv(v) \notin Gone'
    OBVIOUS
  <2>1. CASE u = t
    <3>1. v = w
      BY <1>5, <2>1 DEF w
    <3>2. Gained(v)'
      BY <1>5, <2>1, <3>1 DEF Gained
    <3> QED
      BY <1>1, <1>5, <1>8, <1>9, <2>1, <3>1, <3>2
  <2>2. CASE u # t
    <3>1. pc'[u] = pc[u] /\ v = op[u].kv
      BY <1>5, <2>2
    <3>2. /\ v \in 1 .. Len(kvs) /\ ~ Stored(v) /\ Gained(v)
          /\ pc[u] = "plant" => Kv(v) \notin Gone
      BY <3>1 DEF Values
    <3>3. v # w
      BY <1>9, <2>2, <3>1 DEF Values, w
    <3> QED
      BY <1>1, <1>8, <1>10, <1>11, <3>1, <3>2, <3>3
  <2> QED
    BY <2>1, <2>2
<1>15. \A v, u \in Threads :
        pc'[v] \in HasKv /\ pc'[u] \in HasKv /\ op'[v].kv = op'[u].kv => v = u
  BY <1>5, <1>9 DEF Values
<1> QED
  BY <1>12, <1>13, <1>14, <1>15 DEF Values

LEMMA InitValues == Init => Values
<1> SUFFICES ASSUME Init PROVE Values
  OBVIOUS
<1>1. Gone = {}
  BY DEF Init, RInit, Gone, Listed
<1>2. \A v : ~ Stored(v)
  BY DEF Init, Stored
<1>3. \A u \in Threads : pc[u] \notin HasKv
  BY DEF Init, HasKv
<1> QED
  BY <1>1, <1>2, <1>3 DEF Values

LEMMA NextValues ==
  Base /\ Nodes /\ Nodes' /\ Values /\ [Next]_vars => Values'
<1> SUFFICES ASSUME Base, Nodes, Nodes', Values, [Next]_vars PROVE Values'
  OBVIOUS
<1>1. CASE UNCHANGED vars
  BY <1>1, SMTT(40) DEF vars, avars, rvars, Values, Gained, Stored, Held, Gone, Listed
<1>2. CASE Next
  <2> PICK t \in Threads : Calm(t) \/ PlantWon(t) \/ PlantLost(t)
    BY <1>2, StepCases
  <2>1. CASE PlantWon(t) \/ PlantLost(t)
    BY <2>1, PlantWonValues, PlantLostValues
  <2>2. CASE (\E k \in Keys : StartPut(t, "insert", k) \/ StartPut(t, "upsert", k)) \/ InsertAgain(t)
    BY <2>2, StartValues
  <2>3. CASE Settled(t)
    <3>1. Calm(t)
      BY <2>3 DEF Settled, Calm
    <3>2. \A k : Kv(k) \in Gone' => Kv(k) \in Gone
      <4>1. CASE DropNode(t)
        <5> DEFINE e == op[t].exp
        <5>1. pc[t] = "drop" /\ Retire(t, Nd(e))
          BY <4>1 DEF DropNode, Ready
        <5>2. e \in 1 .. Len(nodes)
          BY <5>1 DEF Nodes, Dropping
        <5>3. Gone' \subseteq Gone \cup {Nd(e)}
          BY <5>1, <5>2, RetireGone DEF Nodes, Nd
        <5> QED
          BY <5>3 DEF Nd, Kv
      <4>2. CASE ~ DropNode(t)
        BY <3>1, <4>2, CalmCall, CallGone DEF Nodes
      <4> QED
        BY <4>1, <4>2
    <3>3. Others(t)
      BY <3>1, CalmTame DEF Tame
    <3> QED
      BY <2>3, <3>2, <3>3, SettledKeeps, SettledStored, StepValues
  <2> QED
    BY <2>1, <2>2, <2>3 DEF Calm, Settled
<1> QED
  BY <1>1, <1>2

LEMMA AlwaysValues == Spec => [](Base /\ Nodes /\ Values)
<1>1. Base /\ Nodes /\ Values /\ [Next]_vars => Base' /\ Nodes' /\ Values'
  BY NextBase, NextNodes, NextValues
<1> QED
  BY <1>1, InitBase, InitNodes, InitValues, PTL DEF Spec

LEMMA UsedNode ==
  ASSUME Base, Nodes, NEW n \in InUse PROVE n \in 1 .. Len(nodes)
<1>1. /\ root \in Nat /\ root <= Len(nodes)
      /\ \A u \in Threads : op[u] \in OpType /\ op[u].node <= Len(nodes)
  BY DEF Base, ATypeOK, Shape, Nodes
<1>2. \A u \in Threads : op[u].node \in Nat
  BY <1>1 DEF OpType
<1>3. n # 0 /\ (n = root \/ \E u \in Threads : op[u].node = n)
  BY DEF InUse, Active
<1> QED
  BY <1>1, <1>2, <1>3

(* A slot that an operation can get at holds a KeyValue that is deleted, or in
   line for it, only when the insert that put it there had lost the race for
   the root (concurrent_index.hpp:302-306): swapping and moving slots, in any
   number of threads, never leaves a retired KeyValue behind. *)
THEOREM LosersDangle == Spec => []OnlyLosersDangle
<1>1. Base /\ Nodes /\ Values => OnlyLosersDangle
  <2> SUFFICES ASSUME Base, Nodes, Values, NEW n \in InUse, NEW i \in 1 .. 2, NEW t \in Threads,
                      i <= nodes[n].size, Kv(nodes[n].vals[i]) \in freed \cup Listed(t)
               PROVE  nodes[n].vals[i] \in lost
    BY DEF OnlyLosersDangle
  <2>1. Held(n)
    BY DEF InUse, Held, Active
  <2>2. n \in 1 .. Len(nodes)
    BY UsedNode
  <2>3. nodes[n] \in NodeType /\ NodeOK(nodes[n])
    BY <2>2 DEF Base, ATypeOK, Shape
  <2>4. nodes[n].size <= Len(nodes[n].vals) /\ Len(nodes[n].vals) \in {1, 2}
        /\ nodes[n].size \in {1, 2}
    BY <2>3, OneOrTwo DEF NodeOK
  <2>5. i \in 1 .. Len(nodes[n].vals)
    BY <2>4
  <2>6. Gained(nodes[n].vals[i])
    BY <2>1, <2>2, <2>5 DEF Values, Stored
  <2> QED
    BY <2>6 DEF Gained, Gone
<1> QED
  BY <1>1, AlwaysValues, PTL

-----------------------------------------------------------------------------
\* An upsert that may still fall back to insert, and what that will allocate.
Upserts == {u \in Threads : pc[u] \in {"plant", "again"} /\ op[u].kind = "upsert"}

Plants == {u \in Threads : pc[u] = "plant"}

Allocation ==
    /\ \A u \in Threads : pc[u] = "again" => op[u].kind = "upsert"
    /\ \A u \in Threads : pc[u] = "plant" => op[u].kind \in {"insert", "upsert"}
    /\ Len(kvs) + Cardinality(Upserts) <= 2 * ops
    /\ Len(nodes) + Cardinality(Plants) + Cardinality(Upserts) <= 2 * ops
    /\ ops <= MaxOps

LEMMA CardinalityStep ==
  ASSUME NEW S \in SUBSET Threads, NEW T \in SUBSET Threads, NEW t \in Threads
  PROVE  /\ Cardinality(S) \in Nat
         /\ T \subseteq S => Cardinality(T) <= Cardinality(S)
         /\ T \subseteq S \cup {t} => Cardinality(T) <= Cardinality(S) + 1
         /\ t \in S /\ T \subseteq S \ {t} => Cardinality(T) + 1 <= Cardinality(S)
<1>1. IsFiniteSet(S) /\ IsFiniteSet(T)
  BY ThreadsAssumption, FS_Subset
<1>2. Cardinality(S) \in Nat /\ Cardinality(T) \in Nat
  BY <1>1, FS_CardinalityType
<1>3. T \subseteq S => Cardinality(T) <= Cardinality(S)
  BY <1>1, FS_Subset
<1>4. T \subseteq S \cup {t} => Cardinality(T) <= Cardinality(S) + 1
  <2> SUFFICES ASSUME T \subseteq S \cup {t} PROVE Cardinality(T) <= Cardinality(S) + 1
    OBVIOUS
  <2>1. /\ IsFiniteSet(S \cup {t})
        /\ Cardinality(S \cup {t}) = IF t \in S THEN Cardinality(S) ELSE Cardinality(S) + 1
    BY <1>1, FS_AddElement
  <2>2. Cardinality(T) <= Cardinality(S \cup {t})
    BY <2>1, FS_Subset
  <2> QED
    BY <1>2, <2>1, <2>2
<1>5. t \in S /\ T \subseteq S \ {t} => Cardinality(T) + 1 <= Cardinality(S)
  <2> SUFFICES ASSUME t \in S, T \subseteq S \ {t} PROVE Cardinality(T) + 1 <= Cardinality(S)
    OBVIOUS
  <2>1. /\ IsFiniteSet(S \ {t})
        /\ Cardinality(S \ {t}) = Cardinality(S) - 1
    BY <1>1, FS_RemoveElement
  <2>2. Cardinality(T) <= Cardinality(S \ {t})
    BY <2>1, FS_Subset
  <2> QED
    BY <1>2, <2>1, <2>2
<1> QED
  BY <1>2, <1>3, <1>4, <1>5

LEMMA SettledCalm ==
  ASSUME Base, NEW t \in Threads, Settled(t)
  PROVE  /\ pc'[t] \notin {"plant", "again"} \/ UNCHANGED <<pc, op>>
         /\ ops' \in Nat /\ ops <= ops' /\ (ops' <= MaxOps \/ ops' = ops)
<1> USE DEF Base, ATypeOK
<1>1. ASSUME NEW s, s \notin {"plant", "again"}, pc' = [pc EXCEPT ![t] = s]
      PROVE  pc'[t] \notin {"plant", "again"}
  BY <1>1
<1>2. CASE \E k \in Keys : StartFind(t, k)
  <2>1. UNCHANGED <<pc, op>> \/ pc' = [pc EXCEPT ![t] = "enter"]
    BY <1>2 DEF StartFind, Become
  <2>2. ops < MaxOps /\ ops' = ops + 1
    BY <1>2 DEF StartFind, Begun
  <2> QED
    BY <1>1, <2>1, <2>2, BoundsAssumption
<1>3. CASE StartClear(t)
  <2>1. pc' = [pc EXCEPT ![t] = "reset"]
    BY <1>3 DEF StartClear, Become
  <2>2. ops < MaxOps /\ ops' = ops + 1
    BY <1>3 DEF StartClear, Begun
  <2> QED
    BY <1>1, <2>1, <2>2, BoundsAssumption
<1>4. CASE Spin(t) \/ (RStep(t) /\ UNCHANGED avars)
  BY <1>4 DEF Spin, vars, avars
<1>5. CASE ScanPut(t) \/ ScanFind(t)
  <2>1. /\ pc[t] \in {"scan", "look"} /\ ops' = ops
        /\ \E found \in {"load", "fetch"}, none \in {"lock", "none"} : Scan(t, found, none)
    BY <1>5 DEF ScanPut, ScanFind, Ready, Counters
  <2>2. op[t].node \in 1 .. Len(nodes)
    BY <2>1, MineType DEF NodePcs
  <2>3. PICK found \in {"load", "fetch"}, none \in {"lock", "none"} : Scan(t, found, none)
    BY <2>1
  <2>4. \E s \in {found, none, pc[t]} : pc' = [pc EXCEPT ![t] = s]
    BY <2>2, <2>3, ScanStep
  <2> QED
    BY <1>1, <2>1, <2>4
<1>6. CASE \/ DropNode(t) \/ ReadVersion(t) \/ LoadSlot(t) \/ CasSlot(t) \/ LockFails(t)
           \/ PutKey(t) \/ MoveValue(t) \/ PlaceValue(t) \/ Widen(t) \/ Unlock(t)
           \/ Count(t) \/ EnterOuter(t) \/ EnterInner(t) \/ Fetch(t)
           \/ Compare(t) \/ ResetSize(t)
  <2>1. ops' = ops
    BY <1>6 DEF DropNode, ReadVersion, LoadSlot, CasSlot, LockFails, PutKey, MoveValue,
                PlaceValue, Widen, Unlock, Count, EnterOuter, EnterInner, Fetch, Compare,
                ResetSize, Counters
  <2>2. \E s \in {"version", "scan", "idle", "cas", "move", "place", "shift", "widen",
                   "unlock", "count", "nest", "look", "compare"} : pc' = [pc EXCEPT ![t] = s]
    BY <1>6 DEF DropNode, ReadVersion, LoadSlot, CasSlot, LockFails, PutKey, MoveValue,
                PlaceValue, Widen, Unlock, Count, EnterOuter, EnterInner, Fetch, Compare,
                ResetSize, Return, Become
  <2> QED
    BY <1>1, <2>1, <2>2
<1>7. CASE Lock(t)
  <2>1. pc' = [pc EXCEPT ![t] = "shift"] /\ ops' = ops
    BY <1>7, LockStep
  <2> QED
    BY <1>1, <2>1
<1> QED
  BY <1>2, <1>3, <1>4, <1>5, <1>6, <1>7 DEF Settled

\* What a step of t may do to the two sets.
LEMMA SetsOfOthers ==
  ASSUME NEW t \in Threads, Others(t)
  PROVE  /\ Upserts' \subseteq Upserts \cup {t} /\ Plants' \subseteq Plants \cup {t}
         /\ t \notin Upserts' => Upserts' \subseteq Upserts \ {t}
         /\ t \notin Plants' => Plants' \subseteq Plants \ {t}
BY DEF Upserts, Plants, Others

LEMMA SettledAllocation ==
  ASSUME Base, Base', Allocation, NEW t \in Threads, Settled(t) PROVE Allocation'
<1>1. /\ Others(t) /\ Len(nodes') = Len(nodes) /\ kvs' = kvs
      /\ pc'[t] \notin {"plant", "again"} \/ UNCHANGED <<pc, op>>
      /\ ops' \in Nat /\ ops \in Nat /\ ops <= ops' /\ ops' <= MaxOps
      /\ Len(nodes) \in Nat /\ Len(kvs) \in Nat
  BY SettledCalm, CalmTame, SettledKeeps, BoundsAssumption, SMTT(40)
     DEF Settled, Calm, Tame, Allocation, Base, ATypeOK
<1>2. Upserts' \subseteq Upserts /\ Plants' \subseteq Plants
  BY <1>1 DEF Upserts, Plants, Others
<1>3. /\ Cardinality(Upserts) \in Nat /\ Cardinality(Upserts') \in Nat
      /\ Cardinality(Plants) \in Nat /\ Cardinality(Plants') \in Nat
      /\ Cardinality(Upserts') <= Cardinality(Upserts)
      /\ Cardinality(Plants') <= Cardinality(Plants)
  BY <1>2, CardinalityStep DEF Upserts, Plants
<1>4. \A u \in Threads :
        /\ pc'[u] = "again" => op'[u].kind = "upsert"
        /\ pc'[u] = "plant" => op'[u].kind \in {"insert", "upsert"}
  BY <1>1 DEF Allocation, Others
<1>5. Len(kvs') + Cardinality(Upserts') <= 2 * ops'
  BY <1>1, <1>3 DEF Allocation
<1>6. Len(nodes') + Cardinality(Plants') + Cardinality(Upserts') <= 2 * ops'
  BY <1>1, <1>3, SMTT(40) DEF Allocation
<1> QED
  BY <1>1, <1>4, <1>5, <1>6 DEF Allocation

LEMMA StartPutAllocation ==
  ASSUME Base, Allocation, NEW t \in Threads, NEW kind \in {"insert", "upsert"},
         NEW k \in Keys, StartPut(t, kind, k)
  PROVE  Allocation'
<1> DEFINE x == [NoOp EXCEPT !.kind = kind, !.key = k, !.kv = Len(kvs) + 1,
                             !.old = root, !.node = root]
<1>1. x.kind = kind
  BY NoOpType DEF OpType
<1> HIDE DEF x
<1>2. /\ op' = [op EXCEPT ![t] = x] /\ nodes' = nodes /\ kvs' = Append(kvs, k)
      /\ ops < MaxOps /\ ops' = ops + 1
      /\ pc' = [pc EXCEPT ![t] = IF root = 0 THEN "plant"
                                 ELSE IF kind = "insert" THEN "version" ELSE "again"]
  BY DEF StartPut, Begun, Become, x
<1>3. /\ Others(t) /\ op'[t].kind = kind
      /\ pc'[t] = "again" => kind = "upsert"
      /\ Len(kvs') = Len(kvs) + 1 /\ Len(kvs) \in Nat /\ Len(nodes) \in Nat /\ ops \in Nat
  BY <1>1, <1>2 DEF Base, ATypeOK, Others
<1>4. /\ Cardinality(Upserts) \in Nat /\ Cardinality(Upserts') \in Nat
      /\ Cardinality(Plants) \in Nat /\ Cardinality(Plants') \in Nat
      /\ Cardinality(Upserts') <= Cardinality(Upserts) + 1
      /\ Cardinality(Plants') <= Cardinality(Plants) + 1
  <2>1. /\ Upserts \in SUBSET Threads /\ Upserts' \in SUBSET Threads
        /\ Plants \in SUBSET Threads /\ Plants' \in SUBSET Threads
    BY DEF Upserts, Plants
  <2> QED
    BY <1>3, <2>1, SetsOfOthers, CardinalityStep
<1>5. \A u \in Threads :
        /\ pc'[u] = "again" => op'[u].kind = "upsert"
        /\ pc'[u] = "plant" => op'[u].kind \in {"insert", "upsert"}
  BY <1>3 DEF Allocation, Others
<1>6. Len(kvs') + Cardinality(Upserts') <= 2 * ops'
  BY <1>2, <1>3, <1>4 DEF Allocation
<1>7. Len(nodes') + Cardinality(Plants') + Cardinality(Upserts') <= 2 * ops'
  BY <1>2, <1>3, <1>4, SMTT(40) DEF Allocation
<1> QED
  BY <1>2, <1>3, <1>5, <1>6, <1>7, BoundsAssumption DEF Allocation

LEMMA InsertAgainAllocation ==
  ASSUME Base, Allocation, NEW t \in Threads, InsertAgain(t) PROVE Allocation'
<1> DEFINE x == [op[t] EXCEPT !.kind = "insert", !.kv = Len(kvs) + 1, !.old = root, !.node = root]
<1>1. x.kind = "insert" /\ op[t].key \in Keys
  BY OpTypes, ZenonT(60) DEF OpType, Base
<1> HIDE DEF x
<1>2. /\ pc[t] = "again" /\ op' = [op EXCEPT ![t] = x] /\ nodes' = nodes
      /\ kvs' = Append(kvs, op[t].key) /\ ops' = ops
      /\ pc' = [pc EXCEPT ![t] = IF root = 0 THEN "plant" ELSE "version"]
  BY DEF InsertAgain, Ready, Become, Counters, x
<1>3. /\ Others(t) /\ op'[t].kind = "insert" /\ pc'[t] # "again"
      /\ Len(kvs') = Len(kvs) + 1 /\ Len(kvs) \in Nat /\ Len(nodes) \in Nat /\ ops \in Nat
  BY <1>1, <1>2 DEF Base, ATypeOK, Others
<1>4. t \in Upserts /\ t \notin Upserts'
  BY <1>2, <1>3 DEF Upserts, Allocation
<1>5. /\ Cardinality(Upserts) \in Nat /\ Cardinality(Upserts') \in Nat
      /\ Cardinality(Plants) \in Nat /\ Cardinality(Plants') \in Nat
      /\ Cardinality(Upserts') + 1 <= Cardinality(Upserts)
      /\ Cardinality(Plants') <= Cardinality(Plants) + 1
  <2>1. /\ Upserts \in SUBSET Threads /\ Upserts' \in SUBSET Threads
        /\ Plants \in SUBSET Threads /\ Plants' \in SUBSET Threads
    BY DEF Upserts, Plants
  <2> QED
    BY <1>3, <1>4, <2>1, SetsOfOthers, CardinalityStep
<1>6. \A u \in Threads :
        /\ pc'[u] = "again" => op'[u].kind = "upsert"
        /\ pc'[u] = "plant" => op'[u].kind \in {"insert", "upsert"}
  BY <1>3 DEF Allocation, Others
<1>7. Len(kvs') + Cardinality(Upserts') <= 2 * ops'
  BY <1>2, <1>3, <1>5 DEF Allocation
<1>8. Len(nodes') + Cardinality(Plants') + Cardinality(Upserts') <= 2 * ops'
  BY <1>2, <1>3, <1>5, SMTT(40) DEF Allocation
<1> QED
  BY <1>2, <1>6, <1>7, <1>8 DEF Allocation

LEMMA PlantAllocation ==
  ASSUME Base, Allocation, NEW t \in Threads, PlantWon(t) \/ PlantLost(t) PROVE Allocation'
<1>1. /\ pc[t] = "plant" /\ kvs' = kvs /\ ops' = ops
      /\ \E b : nodes' = Append(nodes, b)
  BY DEF PlantWon, PlantLost, Ready, Counters
<1>2. /\ Others(t) /\ pc'[t] # "plant"
      /\ pc'[t] = "again" => op'[t] = op[t] /\ op[t].kind = "upsert"
      /\ Len(nodes') = Len(nodes) + 1 /\ Len(kvs) \in Nat /\ Len(nodes) \in Nat /\ ops \in Nat
  <2>1. Len(nodes') = Len(nodes) + 1 /\ Len(kvs) \in Nat /\ Len(nodes) \in Nat /\ ops \in Nat
    BY <1>1 DEF Base, ATypeOK
  <2>2. CASE PlantWon(t)
    <3>1. op' = op /\ pc' = [pc EXCEPT ![t] = "count"]
      BY <2>2 DEF PlantWon, Become
    <3> QED
      BY <2>1, <3>1 DEF Base, ATypeOK, Others
  <2>3. CASE PlantLost(t) /\ op[t].kind = "insert"
    <3>1. /\ pc' = [pc EXCEPT ![t] = "drop"]
          /\ \E x : op' = [op EXCEPT ![t] = x]
      BY <2>3 DEF PlantLost, Become
    <3> QED
      BY <2>1, <3>1 DEF Base, ATypeOK, Others
  <2>4. CASE PlantLost(t) /\ op[t].kind # "insert"
    <3>1. pc' = [pc EXCEPT ![t] = "again"] /\ op' = op
      BY <2>4 DEF PlantLost, Become
    <3>2. op[t].kind = "upsert"
      BY <1>1, <2>4 DEF Allocation
    <3> QED
      BY <2>1, <3>1, <3>2 DEF Base, ATypeOK, Others
  <2> QED
    BY <2>2, <2>3, <2>4
<1>3. t \in Plants /\ t \notin Plants' /\ Upserts' \subseteq Upserts
  BY <1>1, <1>2 DEF Plants, Upserts, Others
<1>4. /\ Cardinality(Upserts) \in Nat /\ Cardinality(Upserts') \in Nat
      /\ Cardinality(Plants) \in Nat /\ Cardinality(Plants') \in Nat
      /\ Cardinality(Upserts') <= Cardinality(Upserts)
      /\ Cardinality(Plants') + 1 <= Cardinality(Plants)
  <2>1. /\ Upserts \in SUBSET Threads /\ Upserts' \in SUBSET Threads
        /\ Plants \in SUBSET Threads /\ Plants' \in SUBSET Threads
    BY DEF Upserts, Plants
  <2> QED
    BY <1>2, <1>3, <2>1, SetsOfOthers, CardinalityStep
<1>5. \A u \in Threads :
        /\ pc'[u] = "again" => op'[u].kind = "upsert"
        /\ pc'[u] = "plant" => op'[u].kind \in {"insert", "upsert"}
  BY <1>2 DEF Allocation, Others
<1>6. Len(kvs') + Cardinality(Upserts') <= 2 * ops'
  BY <1>1, <1>2, <1>4 DEF Allocation
<1>7. Len(nodes') + Cardinality(Plants') + Cardinality(Upserts') <= 2 * ops'
  BY <1>1, <1>2, <1>4, SMTT(40) DEF Allocation
<1> QED
  BY <1>1, <1>5, <1>6, <1>7 DEF Allocation

LEMMA InitAllocation == Init => Allocation
<1> SUFFICES ASSUME Init PROVE Allocation
  OBVIOUS
<1>1. Upserts = {} /\ Plants = {}
  BY DEF Init, Upserts, Plants
<1>2. Cardinality(Upserts) = 0 /\ Cardinality(Plants) = 0
  BY <1>1, FS_EmptySet
<1> QED
  BY <1>2, BoundsAssumption DEF Init, Allocation

LEMMA NextAllocation ==
  Base /\ Base' /\ Allocation /\ [Next]_vars => Allocation'
<1> SUFFICES ASSUME Base, Base', Allocation, [Next]_vars PROVE Allocation'
  OBVIOUS
<1>1. CASE UNCHANGED vars
  BY <1>1 DEF vars, avars, Allocation, Upserts, Plants
<1>2. CASE Next
  <2> PICK t \in Threads : Calm(t) \/ PlantWon(t) \/ PlantLost(t)
    BY <1>2, StepCases
  <2> QED
    BY SettledAllocation, StartPutAllocation, InsertAgainAllocation, PlantAllocation
       DEF Calm, Settled
<1> QED
  BY <1>1, <1>2

-----------------------------------------------------------------------------
\* Every step of the index is a call of EpochReclamation that observes its rule,
\* that an object is retired once, or no call.
LEMMA NextCalls ==
  ASSUME Base, Nodes, Values, Allocation, [Next]_vars PROVE [RNext]_rvars
<1>1. /\ ops \in Nat /\ MaxOps \in Nat /\ ops <= MaxOps
      /\ Len(kvs) \in Nat /\ Len(nodes) \in Nat
      /\ Len(kvs) <= 2 * ops /\ Len(nodes) <= 2 * ops
  <2>1. Cardinality(Upserts) \in Nat /\ Cardinality(Plants) \in Nat
    <3>1. IsFiniteSet(Upserts) /\ IsFiniteSet(Plants)
      BY ThreadsAssumption, FS_Subset DEF Upserts, Plants
    <3> QED
      BY <3>1, FS_CardinalityType
  <2>2. ops \in Nat /\ Len(kvs) \in Nat /\ Len(nodes) \in Nat /\ MaxOps \in Nat
    BY BoundsAssumption DEF Base, ATypeOK
  <2> QED
    BY <2>1, <2>2 DEF Allocation
<1>2. Len(kvs) <= 2 * MaxOps /\ Len(nodes) <= 2 * MaxOps
  BY <1>1
<1>3. ASSUME NEW p, p \notin Gone PROVE Fresh(p)
  BY <1>3 DEF Gone, Fresh
<1>4. CASE UNCHANGED vars
  BY <1>4 DEF vars
<1>5. CASE Next
  <2> PICK t \in Threads : Calm(t) \/ PlantWon(t) \/ PlantLost(t)
    BY <1>5, StepCases
  <2>1. CASE Calm(t) /\ ~ DropNode(t)
    BY <2>1, CalmCall DEF RNext
  <2>2. CASE DropNode(t)
    <3> DEFINE e == op[t].exp
    <3>1. pc[t] = "drop" /\ Retire(t, Nd(e))
      BY <2>2 DEF DropNode, Ready
    <3>2. e \in 1 .. Len(nodes) /\ Nd(e) \notin Gone
      BY <3>1 DEF Nodes, Dropping
    <3> HIDE DEF e
    <3>3. e \in 1 .. 2 * MaxOps
      BY <1>1, <1>2, <3>2
    <3>4. Nd(e) \in Object
      BY <3>3, ObjectAssumption DEF Nd
    <3> QED
      BY <1>3, <3>1, <3>2, <3>4 DEF RNext
  <2>3. CASE PlantWon(t)
    BY <2>3 DEF PlantWon
  <2>4. CASE PlantLost(t)
    <3> DEFINE w == op[t].kv
    <3>1. pc[t] = "plant" /\ Retire(t, Kv(w))
      BY <2>4 DEF PlantLost, Ready
    <3>2. w \in 1 .. Len(kvs) /\ Kv(w) \notin Gone
      <4>1. pc[t] \in HasKv
        BY <3>1 DEF HasKv
      <4> QED
        BY <3>1, <4>1 DEF Values
    <3> HIDE DEF w
    <3>3. w \in 1 .. 2 * MaxOps
      BY <1>1, <1>2, <3>2
    <3>4. Kv(w) \in Object
      BY <3>3, ObjectAssumption DEF Kv
    <3> QED
      BY <1>3, <3>1, <3>2, <3>4 DEF RNext
  <2> QED
    BY <2>1, <2>2, <2>3, <2>4
<1> QED
  BY <1>4, <1>5

(* ARTIndex is a client that EpochReclamation is made for: whatever inserts,
   upserts, finds and clears overlap, no KeyValue and no node is retired twice
   (concurrent_index.hpp:302-307 retires both objects of a lost race, once). *)
THEOREM RetiresOnce == Spec => RSpec
<1>1. Init => RInit
  BY DEF Init
<1>2. /\ Base /\ Nodes /\ Values /\ Allocation /\ [Next]_vars
            => Base' /\ Nodes' /\ Values' /\ Allocation'
  BY NextBase, NextNodes, NextValues, NextAllocation
<1>3. Base /\ Nodes /\ Values /\ Allocation /\ [Next]_vars => [RNext]_rvars
  BY NextCalls
<1> QED
  BY <1>1, <1>2, <1>3, InitBase, InitNodes, InitValues, InitAllocation, PTL DEF Spec, RSpec

(* So the grace period holds of the index as well: nothing a find has taken in
   its read section is deleted before the section ends
   (epoch_reclamation.hpp:99-110). *)
THEOREM FindsAreSafe == Spec => []GracePeriod
BY RetiresOnce, NothingFreedUnderReaders, PTL

-----------------------------------------------------------------------------
\* What a thread in state s, at slot i and with byte b, knows of its node until
\* some compare-and-swap of a slot fails.
Knows(s, i, b, n) ==
    /\ s = "scan" /\ i >= 2 => n.locked \/ n.keys[1] # b
    /\ s = "lock" => n.locked \/ n.keys[1] # b
    /\ s = "shift" /\ i = 2 => n.keys[1] # b
    /\ s = "shift" /\ i = 1 => n.keys[2] # b
    /\ s = "move" => n.keys[1] # b /\ n.keys[2] # b
    /\ s \in {"place", "widen"} => n.keys[1] # n.keys[2]

Knowing == {"scan", "lock"} \cup Lockers

Distinct ==
    missed \/
        /\ \A n \in 1 .. Len(nodes) :
            nodes[n].size = 2 => nodes[n].keys[1] # nodes[n].keys[2]
        /\ \A t \in Threads :
            pc[t] \in Knowing => Knows(pc[t], op[t].i, Byte(t), Mine(t))

\* Bytes change only in a node the thread has locked, and locks stay.
Careful(t) ==
    /\ Len(nodes) <= Len(nodes')
    /\ \A n \in 1 .. Len(nodes) :
        /\ nodes[n].locked => nodes'[n].locked
        /\ nodes'[n].keys # nodes[n].keys => pc[t] \in Lockers /\ n = op[t].node

LEMMA StepDistinct ==
  ASSUME Base, Distinct, NEW t \in Threads, Others(t), Careful(t),
         missed' = missed,
         ~ missed => /\ \A n \in 1 .. Len(nodes') :
                        nodes'[n].size = 2 => nodes'[n].keys[1] # nodes'[n].keys[2]
                     /\ pc'[t] \in Knowing =>
                            Knows(pc'[t], op'[t].i, ByteOf[op'[t].key], nodes'[op'[t].node])
  PROVE  Distinct'
<1> SUFFICES ASSUME ~ missed PROVE Distinct'
  BY DEF Distinct
<1>1. \A u \in Threads : pc'[u] \in Knowing => Knows(pc[u], op[u].i, Byte(u), Mine(u))'
  <2> SUFFICES ASSUME NEW u \in Threads, pc'[u] \in Knowing
               PROVE  Knows(pc'[u], op'[u].i, ByteOf[op'[u].key], nodes'[op'[u].node])
    BY DEF Knows, Byte, Mine
  <2>1. CASE u = t
    BY <2>1
  <2>2. CASE u # t
    <3>1. pc'[u] = pc[u] /\ op'[u] = op[u] /\ pc[u] \in NodePcs
      BY <2>2 DEF Others, Knowing, Lockers, NodePcs
    <3>2. op[u].node \in 1 .. Len(nodes) /\ Knows(pc[u], op[u].i, Byte(u), Mine(u))
      BY <3>1, MineType DEF Distinct
    <3>3. Mine(u).locked => nodes'[op[u].node].locked
      BY <3>2 DEF Careful, Mine
    <3>4. CASE nodes'[op[u].node].keys = Mine(u).keys
      BY <3>1, <3>2, <3>3, <3>4 DEF Knows, Byte
    <3>5. CASE nodes'[op[u].node].keys # Mine(u).keys
      <4>1. pc[t] \in Lockers /\ op[u].node = op[t].node
        BY <3>2, <3>5 DEF Careful, Mine
      <4>2. Mine(t).locked /\ pc[u] \notin Lockers
        BY <2>2, <4>1, Locker
      <4>3. nodes'[op[u].node].locked
        BY <3>3, <4>1, <4>2 DEF Mine
      <4> QED
        BY <3>1, <4>2, <4>3 DEF Knows, Lockers
    <3> QED
      BY <3>4, <3>5
  <2> QED
    BY <2>1, <2>2
<1> QED
  BY <1>1 DEF Distinct

\* A node written with its bytes and the lock left as they are.
LEMMA UpdateCareful ==
  ASSUME Base, NEW t \in Threads, pc[t] \in NodePcs, NEW x \in NodeType,
         nodes' = [nodes EXCEPT ![op[t].node] = x],
         Mine(t).locked => x.locked,
         x.keys = Mine(t).keys \/ pc[t] \in Lockers
  PROVE  /\ Careful(t) /\ nodes'[op[t].node] = x /\ Len(nodes') = Len(nodes)
         /\ \A n \in 1 .. Len(nodes) : n # op[t].node => nodes'[n] = nodes[n]
<1>1. op[t].node \in 1 .. Len(nodes)
  BY MineType
<1>2. /\ Len(nodes') = Len(nodes) /\ Len(nodes) \in Nat
      /\ \A n \in 1 .. Len(nodes) : nodes'[n] = IF n = op[t].node THEN x ELSE nodes[n]
  BY <1>1 DEF Base, ATypeOK
<1> QED
  BY <1>1, <1>2 DEF Careful, Mine

\* A step that writes no node.
LEMMA LocalDistinct ==
  ASSUME Base, Distinct, NEW t \in Threads, Others(t), nodes' = nodes, missed' = missed,
         ~ missed /\ pc'[t] \in Knowing =>
            Knows(pc'[t], op'[t].i, ByteOf[op'[t].key], nodes[op'[t].node])
  PROVE  Distinct'
<1>1. Careful(t)
  BY DEF Careful, Base, ATypeOK
<1>2. ~ missed => /\ \A n \in 1 .. Len(nodes') :
                        nodes'[n].size = 2 => nodes'[n].keys[1] # nodes'[n].keys[2]
                  /\ pc'[t] \in Knowing =>
                        Knows(pc'[t], op'[t].i, ByteOf[op'[t].key], nodes'[op'[t].node])
  BY DEF Distinct
<1> QED
  BY <1>1, <1>2, StepDistinct

\* A step that writes no node, and after which t need know nothing.
LEMMA IdleDistinct ==
  ASSUME Base, Distinct, NEW t \in Threads, Others(t), nodes' = nodes, missed' = missed,
         pc'[t] \notin Knowing \/ UNCHANGED <<pc, op>>
  PROVE  Distinct'
<1>1. ~ missed /\ pc'[t] \in Knowing =>
        Knows(pc'[t], op'[t].i, ByteOf[op'[t].key], nodes[op'[t].node])
  BY DEF Distinct, Byte, Mine
<1> QED
  BY <1>1, LocalDistinct

\* A step that writes its node; the bytes only as the thread that has locked it.
LEMMA WriteDistinct ==
  ASSUME Base, Distinct, NEW t \in Threads, Others(t), missed' = missed,
         pc[t] \in NodePcs, NEW x \in NodeType,
         nodes' = [nodes EXCEPT ![op[t].node] = x],
         Mine(t).locked => x.locked, x.keys = Mine(t).keys \/ pc[t] \in Lockers,
         x.size # 2 \/ (x.size = Mine(t).size /\ x.keys = Mine(t).keys)
                    \/ (~ missed => x.keys[1] # x.keys[2]),
         op'[t].node = op[t].node \/ pc'[t] \notin Knowing,
         ~ missed /\ pc'[t] \in Knowing => Knows(pc'[t], op'[t].i, ByteOf[op'[t].key], x)
  PROVE  Distinct'
<1>1. /\ Careful(t) /\ nodes'[op[t].node] = x /\ Len(nodes') = Len(nodes)
      /\ \A n \in 1 .. Len(nodes) : n # op[t].node => nodes'[n] = nodes[n]
  BY UpdateCareful
<1>2. op[t].node \in 1 .. Len(nodes)
  BY MineType
<1>3. ~ missed => \A n \in 1 .. Len(nodes') :
        nodes'[n].size = 2 => nodes'[n].keys[1] # nodes'[n].keys[2]
  BY <1>1, <1>2 DEF Distinct, Mine
<1>4. ~ missed /\ pc'[t] \in Knowing =>
        Knows(pc'[t], op'[t].i, ByteOf[op'[t].key], nodes'[op'[t].node])
  BY <1>1
<1> QED
  BY <1>1, <1>3, <1>4, StepDistinct

\* A node with one slot is added.
LEMMA AppendDistinct ==
  ASSUME Base, Distinct, NEW t \in Threads, Others(t), missed' = missed,
         NEW b \in Nat, NEW v \in Nat,
         nodes' = Append(nodes, Node(1, <<b>>, <<v>>)), pc'[t] \notin Knowing
  PROVE  Distinct'
<1> DEFINE x == Node(1, <<b>>, <<v>>)
<1>1. x \in NodeType /\ x.size = 1
  BY DEF Node, NodeType
<1>2. nodes' = Append(nodes, x)
  OBVIOUS
<1> HIDE DEF x
<1>3. /\ Len(nodes') = Len(nodes) + 1 /\ nodes'[Len(nodes) + 1] = x
      /\ \A n \in 1 .. Len(nodes) : nodes'[n] = nodes[n]
  BY <1>1, <1>2 DEF Base, ATypeOK
<1>4. Careful(t)
  BY <1>3 DEF Careful, Base, ATypeOK
<1>5. ~ missed => \A n \in 1 .. Len(nodes') :
        nodes'[n].size = 2 => nodes'[n].keys[1] # nodes'[n].keys[2]
  <2> SUFFICES ASSUME ~ missed, NEW n \in 1 .. Len(nodes'), nodes'[n].size = 2
               PROVE  nodes'[n].keys[1] # nodes'[n].keys[2]
    OBVIOUS
  <2>1. n \in 1 .. Len(nodes) \/ n = Len(nodes) + 1
    BY <1>3
  <2> QED
    BY <1>1, <1>3, <2>1 DEF Distinct
<1> QED
  BY <1>4, <1>5, StepDistinct

\* Scanning, and locking what has been scanned.
LEMMA ScanDistinct ==
  ASSUME Base, Distinct, NEW t \in Threads, Others(t),
         ReadVersion(t) \/ ScanPut(t) \/ Lock(t)
  PROVE  Distinct'
<1>t. op \in [Threads -> OpType] /\ pc \in [Threads -> Pcs] /\ op[t] \in OpType
  BY DEF Base, ATypeOK
<1>1. CASE ReadVersion(t)
  <2> DEFINE y == [op[t] EXCEPT !.ver = Mine(t).ver]
             x == [y EXCEPT !.i = 1]
  <2>1. /\ pc' = [pc EXCEPT ![t] = "scan"] /\ op' = [op EXCEPT ![t] = x]
        /\ nodes' = nodes /\ missed' = missed
    BY <1>1 DEF ReadVersion, Become, History
  <2>2. pc[t] = "version"
    BY <1>1 DEF ReadVersion, Ready
  <2>3. Mine(t).ver \in Nat
    BY <2>2, MineType DEF NodePcs
  <2>4. y \in OpType
    BY <1>t, <2>3 DEF OpType
  <2> HIDE DEF y
  <2>5. x.i = 1
    BY <2>4 DEF OpType
  <2> HIDE DEF x
  <2>6. pc'[t] = "scan" /\ op'[t].i = 1
    BY <1>t, <2>1, <2>5
  <2>7. Knows(pc'[t], op'[t].i, ByteOf[op'[t].key], nodes[op'[t].node])
    BY <2>6 DEF Knows
  <2> QED
    BY <2>1, <2>7, LocalDistinct
<1>2. CASE ScanPut(t)
  <2>1. pc[t] = "scan" /\ nodes' = nodes /\ missed' = missed /\ Scan(t, "load", "lock")
    BY <1>2 DEF ScanPut, Ready, History
  <2>2. /\ op[t].node \in 1 .. Len(nodes) /\ op[t].i \in Nat \ {0} /\ NodeOK(Mine(t))
        /\ Mine(t).size \in Nat
    BY <1>t, <2>1, MineType DEF NodePcs, OpType
  <2>3. ~ missed /\ op[t].i >= 2 => Mine(t).locked \/ Mine(t).keys[1] # Byte(t)
    BY <2>1 DEF Distinct, Knowing, Knows
  <2>4. CASE op' = op /\ pc' = [pc EXCEPT ![t] = "load"]
    BY <1>t, <2>1, <2>4, IdleDistinct DEF Knowing, Lockers
  <2>5. CASE /\ op[t].i <= Mine(t).size /\ Mine(t).keys[op[t].i] # Byte(t)
             /\ op' = [op EXCEPT ![t].i = @ + 1] /\ pc' = pc
    <3> DEFINE x == [op[t] EXCEPT !.i = op[t].i + 1]
    <3>1. op' = [op EXCEPT ![t] = x]
      BY <2>5
    <3>2. x.key = op[t].key /\ x.node = op[t].node
      BY <1>t DEF OpType
    <3> HIDE DEF x
    <3>3. op'[t].key = op[t].key /\ op'[t].node = op[t].node /\ pc'[t] = "scan"
      BY <1>t, <2>1, <2>5, <3>1, <3>2
    <3>4. ~ missed => Mine(t).locked \/ Mine(t).keys[1] # Byte(t)
      <4>1. op[t].i = 1 \/ op[t].i >= 2
        BY <2>2
      <4> QED
        BY <2>3, <2>5, <4>1
    <3>5. ~ missed => Knows(pc'[t], op'[t].i, ByteOf[op'[t].key], nodes[op'[t].node])
      BY <3>3, <3>4 DEF Knows, Mine, Byte
    <3> QED
      BY <2>1, <3>5, LocalDistinct
  <2>6. CASE op[t].i > Mine(t).size /\ op' = op /\ pc' = [pc EXCEPT ![t] = "lock"]
    <3>1. op[t].i >= 2
      BY <2>2, <2>6 DEF NodeOK
    <3>2. pc'[t] = "lock"
      BY <1>t, <2>6
    <3>3. ~ missed => Knows(pc'[t], op'[t].i, ByteOf[op'[t].key], nodes[op'[t].node])
      BY <2>3, <2>6, <3>1, <3>2 DEF Knows, Mine, Byte
    <3> QED
      BY <2>1, <3>3, LocalDistinct
  <2> QED
    BY <2>1, <2>2, <2>4, <2>5, <2>6, ScanStep
<1>3. CASE Lock(t)
  <2>1. /\ pc[t] = "lock" /\ Mine(t).locked = FALSE /\ missed' = missed
        /\ Mine(t) \in NodeType /\ Mine(t).size = 1 /\ pc[t] \in NodePcs
        /\ Mine(t).size < Capacity[Mine(t).type]
    <3>1. pc[t] = "lock" /\ ~ Mine(t).locked /\ missed' = missed
      BY <1>3 DEF Lock, Ready, History
    <3>2. /\ Mine(t).locked \in BOOLEAN /\ Mine(t) \in NodeType /\ NodeOK(Mine(t))
          /\ pc[t] \in NodePcs
      BY <3>1, MineType DEF NodePcs
    <3>3. Mine(t).type = 1 /\ Mine(t).size = 1
      BY <3>1, <3>2 DEF NodeOK
    <3> QED
      BY <3>1, <3>2, <3>3, NodeAssumption
  <2> DEFINE x == [Mine(t) EXCEPT !.locked = TRUE]
             o == [op[t] EXCEPT !.i = 2]
  <2>2. /\ nodes' = [nodes EXCEPT ![op[t].node] = x]
        /\ pc' = [pc EXCEPT ![t] = "shift"] /\ op' = [op EXCEPT ![t] = o]
    <3>1. Mine(t).size + 1 = 2
      BY <2>1
    <3> QED
      BY <1>3, <2>1, <3>1 DEF Lock, SetNode, Become, Mine
  <2>3. /\ x \in NodeType /\ x.locked = TRUE /\ x.keys = Mine(t).keys /\ x.size = 1
    BY <2>1, SetLocked
  <2>4. o.node = op[t].node /\ o.i = 2 /\ o.key = op[t].key
    BY <1>t DEF OpType
  <2> HIDE DEF x, o
  <2>5. /\ pc'[t] = "shift" /\ op'[t].i = 2 /\ op'[t].node = op[t].node
        /\ op'[t].key = op[t].key
    BY <1>t, <2>2, <2>4
  <2>6. ~ missed => Mine(t).keys[1] # Byte(t)
    BY <2>1 DEF Distinct, Knowing, Knows
  <2>7. ~ missed => Knows(pc'[t], op'[t].i, ByteOf[op'[t].key], x)
    BY <2>3, <2>5, <2>6 DEF Knows, Byte
  <2> QED
    BY <2>1, <2>2, <2>3, <2>5, <2>7, WriteDistinct
<1> QED
  BY <1>1, <1>2, <1>3

\* Putting the byte in: it stays apart from the one that is there.
LEMMA PutKeyDistinct ==
  ASSUME Base, Distinct, NEW t \in Threads, Others(t), PutKey(t) PROVE Distinct'
<1> DEFINE b == IF Moves(t) THEN Mine(t).keys[op[t].i - 1] ELSE Byte(t)
           a == Put(Mine(t).keys, op[t].i, b)
           x == [Mine(t) EXCEPT !.keys = a]
           s == IF Moves(t) THEN "move" ELSE "place"
<1>1. /\ pc[t] = "shift" /\ nodes' = [nodes EXCEPT ![op[t].node] = x]
      /\ pc' = [pc EXCEPT ![t] = s] /\ op' = op /\ missed' = missed
  BY DEF PutKey, Ready, SetNode, Become, Mine, History
<1>2. pc[t] \in Lockers
  BY <1>1 DEF Lockers
<1>3. \/ op[t].i = 2 /\ Len(Mine(t).keys) = 1
      \/ op[t].i = 1 /\ Len(Mine(t).keys) = 2
  BY <1>1, <1>2, Locker DEF Progress
<1>4. Moves(t) => op[t].i = 2 /\ b = Mine(t).keys[1]
  <2>1. Moves(t) => op[t].i = 2 /\ b = Mine(t).keys[op[t].i - 1]
    BY <1>3 DEF Moves
  <2> QED
    BY <2>1
<1>5. ~ Moves(t) => b = Byte(t)
  OBVIOUS
<1>6. /\ Mine(t).keys \in Seq(Nat) /\ Byte(t) \in Nat /\ Mine(t) \in NodeType
      /\ Mine(t).size = 1 /\ Mine(t).locked /\ pc[t] \in NodePcs
  BY <1>2, Locker
<1> HIDE DEF b
<1>7. b \in Nat
  <2>1. CASE Moves(t)
    BY <1>3, <1>4, <1>6, <2>1
  <2>2. CASE ~ Moves(t)
    BY <1>5, <1>6, <2>2
  <2> QED
    BY <2>1, <2>2
<1>8. /\ a \in Seq(Nat) /\ a[op[t].i] = b
      /\ op[t].i = 2 => a[1] = Mine(t).keys[1]
      /\ op[t].i = 1 => a[2] = Mine(t).keys[2]
  BY <1>3, <1>6, <1>7, PutTwo
<1> HIDE DEF a
<1>9. x \in NodeType /\ x.keys = a /\ x.size = 1 /\ x.locked
  BY <1>6, <1>8, SetKeys
<1> HIDE DEF x
<1>10. ~ missed => /\ op[t].i = 2 => Mine(t).keys[1] # Byte(t)
                   /\ op[t].i = 1 => Mine(t).keys[2] # Byte(t)
  BY <1>1, <1>2 DEF Distinct, Knowing, Knows
<1>11. ~ missed => Knows(s, op[t].i, Byte(t), x)
  <2> SUFFICES ASSUME ~ missed PROVE Knows(s, op[t].i, Byte(t), x)
    OBVIOUS
  <2>1. CASE Moves(t)
    BY <1>4, <1>8, <1>9, <1>10, <2>1 DEF Knows
  <2>2. CASE ~ Moves(t)
    <3>1. a[1] # a[2]
      BY <1>3, <1>5, <1>8, <1>10, <2>2
    <3> QED
      BY <1>9, <2>2, <3>1 DEF Knows
  <2> QED
    BY <2>1, <2>2
<1> HIDE DEF s
<1>12. pc'[t] = s /\ op'[t] = op[t]
  BY <1>1 DEF Base, ATypeOK
<1>13. ~ missed => Knows(pc'[t], op'[t].i, ByteOf[op'[t].key], x)
  BY <1>11, <1>12 DEF Byte
<1>14. op'[t].node = op[t].node /\ x.size # 2 /\ x.locked
  BY <1>9, <1>12
<1> QED
  <2>1. nodes' = [nodes EXCEPT ![op[t].node] = x] /\ missed' = missed /\ x \in NodeType
    BY <1>1, <1>9
  <2> QED
    BY <1>2, <1>6, <1>13, <1>14, <2>1, WriteDistinct

\* The steps that write the values, the size and the version.
LEMMA FillDistinct ==
  ASSUME Base, Distinct, NEW t \in Threads, Others(t),
         MoveValue(t) \/ PlaceValue(t) \/ Widen(t) \/ Unlock(t)
  PROVE  Distinct'
<1>t. op \in [Threads -> OpType] /\ pc \in [Threads -> Pcs] /\ op[t] \in OpType
  BY DEF Base, ATypeOK
<1>1. CASE MoveValue(t)
  <2> DEFINE a == Put(Mine(t).vals, op[t].i, Mine(t).vals[op[t].i - 1])
             x == [Mine(t) EXCEPT !.vals = a]
             o == [op[t] EXCEPT !.i = op[t].i - 1]
  <2>1. /\ pc[t] = "move" /\ nodes' = [nodes EXCEPT ![op[t].node] = x]
        /\ pc' = [pc EXCEPT ![t] = "shift"] /\ op' = [op EXCEPT ![t] = o]
        /\ missed' = missed
    BY <1>1 DEF MoveValue, Ready, SetNode, Become, Mine, History
  <2>2. pc[t] \in Lockers
    BY <2>1 DEF Lockers
  <2>3. op[t].i = 2 /\ Len(Mine(t).keys) = 2 /\ Len(Mine(t).vals) = 1
    BY <2>1, <2>2, Locker DEF Progress
  <2>4. /\ Mine(t).vals \in Seq(Nat) /\ Mine(t) \in NodeType /\ Mine(t).locked
        /\ Mine(t).size = 1 /\ pc[t] \in NodePcs
    BY <2>2, Locker
  <2>5. a \in Seq(Nat)
    <3>1. Mine(t).vals[op[t].i - 1] \in Nat
      BY <2>3, <2>4
    <3> QED
      BY <2>3, <2>4, <3>1, PutTwo
  <2> HIDE DEF a
  <2>6. x \in NodeType /\ x.keys = Mine(t).keys /\ x.size = 1 /\ x.locked
    BY <2>4, <2>5, SetVals
  <2>7. o.node = op[t].node /\ o.i = 1 /\ o.key = op[t].key
    <3>1. o = [op[t] EXCEPT !.i = 1]
      BY <2>3
    <3> HIDE DEF o
    <3> QED
      BY <1>t, <3>1 DEF OpType
  <2> HIDE DEF x, o
  <2>8. /\ pc'[t] = "shift" /\ op'[t].i = 1 /\ op'[t].node = op[t].node
        /\ op'[t].key = op[t].key
    BY <1>t, <2>1, <2>7
  <2>9. ~ missed => Mine(t).keys[2] # Byte(t)
    BY <2>1, <2>2 DEF Distinct, Knowing, Knows
  <2>10. ~ missed => Knows(pc'[t], op'[t].i, ByteOf[op'[t].key], x)
    BY <2>6, <2>8, <2>9 DEF Knows, Byte
  <2> QED
    BY <2>1, <2>4, <2>6, <2>8, <2>10, WriteDistinct
<1>2. CASE PlaceValue(t)
  <2> DEFINE a == Put(Mine(t).vals, op[t].i, op[t].kv)
             x == [Mine(t) EXCEPT !.vals = a]
  <2>1. /\ pc[t] = "place" /\ nodes' = [nodes EXCEPT ![op[t].node] = x]
        /\ pc' = [pc EXCEPT ![t] = "widen"] /\ op' = op /\ missed' = missed
    BY <1>2 DEF PlaceValue, Ready, SetNode, Become, Mine, History
  <2>2. pc[t] \in Lockers
    BY <2>1 DEF Lockers
  <2>3. \/ op[t].i = 2 /\ Len(Mine(t).vals) = 1
        \/ op[t].i = 1 /\ Len(Mine(t).vals) = 2
    BY <2>1, <2>2, Locker DEF Progress
  <2>4. /\ Mine(t).vals \in Seq(Nat) /\ op[t].kv \in Nat /\ Mine(t) \in NodeType
        /\ Mine(t).locked /\ Mine(t).size = 1 /\ pc[t] \in NodePcs
    BY <2>2, Locker
  <2>5. a \in Seq(Nat)
    <3>1. CASE op[t].i = 2 /\ Len(Mine(t).vals) = 1
      BY <2>4, <3>1, PutTwo
    <3>2. CASE op[t].i = 1 /\ Len(Mine(t).vals) = 2
      BY <2>4, <3>2, PutTwo
    <3> QED
      BY <2>3, <3>1, <3>2
  <2> HIDE DEF a
  <2>6. x \in NodeType /\ x.keys = Mine(t).keys /\ x.size = 1 /\ x.locked
    BY <2>4, <2>5, SetVals
  <2> HIDE DEF x
  <2>7. pc'[t] = "widen" /\ op'[t] = op[t]
    BY <1>t, <2>1
  <2>8. ~ missed => Mine(t).keys[1] # Mine(t).keys[2]
    BY <2>1, <2>2 DEF Distinct, Knowing, Knows
  <2>9. ~ missed => Knows(pc'[t], op'[t].i, ByteOf[op'[t].key], x)
    BY <2>6, <2>7, <2>8 DEF Knows
  <2> QED
    BY <2>1, <2>4, <2>6, <2>7, <2>9, WriteDistinct
<1>3. CASE Widen(t)
  <2> DEFINE x == [Mine(t) EXCEPT !.size = Mine(t).size + 1]
  <2>1. /\ pc[t] = "widen" /\ nodes' = [nodes EXCEPT ![op[t].node] = x]
        /\ pc' = [pc EXCEPT ![t] = "unlock"] /\ op' = op /\ missed' = missed
    BY <1>3 DEF Widen, Ready, SetNode, Become, Mine, History
  <2>2. pc[t] \in Lockers
    BY <2>1 DEF Lockers
  <2>3. Mine(t) \in NodeType /\ Mine(t).locked /\ Mine(t).size = 1 /\ pc[t] \in NodePcs
    BY <2>2, Locker
  <2>4. x \in NodeType /\ x.keys = Mine(t).keys /\ x.locked
    <3>1. x = [Mine(t) EXCEPT !.size = 2]
      BY <2>3
    <3> HIDE DEF x
    <3> QED
      BY <2>3, <3>1, SetSize
  <2> HIDE DEF x
  <2>5. pc'[t] \notin Knowing
    BY <1>t, <2>1 DEF Knowing, Lockers
  <2>6. ~ missed => x.keys[1] # x.keys[2]
    BY <2>1, <2>2, <2>4 DEF Distinct, Knowing, Knows
  <2> QED
    BY <2>1, <2>3, <2>4, <2>5, <2>6, WriteDistinct
<1>4. CASE Unlock(t)
  <2> DEFINE x == Incremented(Mine(t))
  <2>1. /\ pc[t] = "unlock" /\ nodes' = [nodes EXCEPT ![op[t].node] = x]
        /\ pc' = [pc EXCEPT ![t] = "count"] /\ op' = op /\ missed' = missed
    BY <1>4 DEF Unlock, Ready, Become, Mine, History
  <2>2. Mine(t) \in NodeType /\ pc[t] \in NodePcs
    BY <2>1, MineType DEF NodePcs
  <2>3. /\ x \in NodeType /\ x.keys = Mine(t).keys /\ x.size = Mine(t).size
        /\ x.locked = Mine(t).locked
    BY <2>2, IncrementedFields
  <2> HIDE DEF x
  <2>4. pc'[t] \notin Knowing
    BY <1>t, <2>1 DEF Knowing, Lockers
  <2> QED
    BY <2>1, <2>2, <2>3, <2>4, WriteDistinct
<1> QED
  BY <1>1, <1>2, <1>3, <1>4

\* A compare-and-swap of a slot leaves the bytes alone, and a failure is noted.
LEMMA CasSlotDistinct ==
  ASSUME Base, Distinct, NEW t \in Threads, Others(t), CasSlot(t) PROVE Distinct'
<1>1. pc[t] = "cas"
  BY DEF CasSlot, Ready
<1>2. /\ Mine(t) \in NodeType /\ NodeOK(Mine(t)) /\ pc[t] \in NodePcs
      /\ Mine(t).vals \in Seq(Nat) /\ Mine(t).size \in Nat /\ ThreadOK(t)
      /\ op[t].i \in Nat \ {0} /\ op[t].kv \in Nat
  BY <1>1, MineType DEF NodePcs, Base, ATypeOK, OpType
<1>3. CASE Mine(t).vals[op[t].i] = op[t].exp
  <2> DEFINE a == [Mine(t).vals EXCEPT ![op[t].i] = op[t].kv]
             x == [Mine(t) EXCEPT !.vals = a]
  <2>1. /\ nodes' = [nodes EXCEPT ![op[t].node] = x]
        /\ pc' = [pc EXCEPT ![t] = "idle"] /\ missed' = missed
    BY <1>3 DEF CasSlot, Return, Become, Mine
  <2>2. a \in Seq(Nat)
    <3>1. op[t].i <= Mine(t).size
      BY <1>1, <1>2 DEF ThreadOK, Mine
    <3>2. Mine(t).size <= Len(Mine(t).vals)
      BY <1>2, OneOrTwo DEF NodeOK
    <3>3. op[t].i \in 1 .. Len(Mine(t).vals)
      BY <1>2, <3>1, <3>2
    <3> QED
      BY <1>2, <3>3
  <2> HIDE DEF a
  <2>3. /\ x \in NodeType /\ x.keys = Mine(t).keys /\ x.size = Mine(t).size
        /\ x.locked = Mine(t).locked
    BY <1>2, <2>2, SetVals
  <2> HIDE DEF x
  <2>4. pc'[t] \notin Knowing
    BY <2>1 DEF Base, ATypeOK, Knowing, Lockers
  <2> QED
    BY <1>2, <2>1, <2>3, <2>4, WriteDistinct
<1>4. CASE Mine(t).vals[op[t].i] # op[t].exp
  <2>1. missed' = TRUE
    BY <1>4 DEF CasSlot
  <2> QED
    BY <2>1 DEF Distinct
<1> QED
  BY <1>3, <1>4

\* Every step keeps the bytes of a node apart until some swap fails.
LEMMA NextDistinct ==
  Base /\ Nodes /\ Distinct /\ [Next]_vars => Distinct'
<1> SUFFICES ASSUME Base, Nodes, Distinct, [Next]_vars PROVE Distinct'
  OBVIOUS
<1>1. CASE UNCHANGED vars
  BY <1>1 DEF vars, avars, Distinct, Byte, Mine
<1>2. CASE Next
  <2> PICK t \in Threads : Calm(t) \/ PlantWon(t) \/ PlantLost(t)
    BY <1>2, StepCases
  <2>t. pc \in [Threads -> Pcs] /\ op \in [Threads -> OpType] /\ op[t] \in OpType
    BY DEF Base, ATypeOK
  <2>1. CASE PlantWon(t) \/ PlantLost(t)
    <3>1. Byte(t) \in Nat /\ op[t].kv \in Nat
      BY <2>t, OpTypes DEF Base, OpType
    <3>2. /\ nodes' = Append(nodes, Node(1, <<Byte(t)>>, <<op[t].kv>>)) /\ missed' = missed
          /\ \E s \in {"count", "drop", "again"} : pc' = [pc EXCEPT ![t] = s]
          /\ op' = op \/ \E o : op' = [op EXCEPT ![t] = o]
      <4>1. CASE PlantWon(t)
        BY <4>1 DEF PlantWon, Become, History
      <4>2. CASE PlantLost(t)
        BY <4>2 DEF PlantLost, Become
      <4> QED
        BY <2>1, <4>1, <4>2
    <3>3. pc'[t] \notin Knowing /\ Others(t)
      BY <2>t, <3>2 DEF Knowing, Lockers, Others
    <3> QED
      BY <3>1, <3>2, <3>3, AppendDistinct
  <2>2. CASE Calm(t)
    <3>1. Others(t)
      BY <2>2, CalmTame DEF Tame
    <3>2. CASE ReadVersion(t) \/ ScanPut(t) \/ Lock(t)
      BY <3>1, <3>2, ScanDistinct
    <3>3. CASE MoveValue(t) \/ PlaceValue(t) \/ Widen(t) \/ Unlock(t)
      BY <3>1, <3>3, FillDistinct
    <3>4. CASE PutKey(t) \/ CasSlot(t)
      BY <3>1, <3>4, PutKeyDistinct, CasSlotDistinct
    <3>5. CASE Spin(t) \/ (RStep(t) /\ UNCHANGED avars)
      BY <3>1, <3>5, IdleDistinct DEF Spin, vars, avars
    <3>6. CASE ScanFind(t)
      <4>1. pc[t] = "look" /\ Scan(t, "fetch", "none") /\ nodes' = nodes /\ missed' = missed
        BY <3>6 DEF ScanFind, Ready, History
      <4>2. op[t].node \in 1 .. Len(nodes)
        BY <4>1, MineType DEF NodePcs
      <4>3. \E s \in {"look", "fetch", "none"} : pc' = [pc EXCEPT ![t] = s]
        BY <2>t, <4>1, <4>2, ScanStep
      <4>4. pc'[t] \notin Knowing
        BY <2>t, <4>3 DEF Knowing, Lockers
      <4> QED
        BY <3>1, <4>1, <4>4, IdleDistinct
    <3>7. CASE \/ \E k \in Keys : \/ StartPut(t, "insert", k) \/ StartPut(t, "upsert", k)
                                  \/ StartFind(t, k)
               \/ StartClear(t) \/ InsertAgain(t) \/ DropNode(t) \/ LoadSlot(t)
               \/ LockFails(t) \/ Count(t) \/ EnterOuter(t) \/ EnterInner(t)
               \/ Fetch(t) \/ Compare(t) \/ ResetSize(t)
      <4>1. /\ nodes' = nodes /\ missed' = missed
            /\ UNCHANGED <<pc, op>> \/
               \E s \in {"plant", "version", "again", "idle", "cas", "enter", "nest", "look",
                         "compare", "reset"} : pc' = [pc EXCEPT ![t] = s]
        BY <3>7 DEF StartPut, StartFind, StartClear, InsertAgain, DropNode, LoadSlot,
                    LockFails, Count, EnterOuter, EnterInner, Fetch, Compare, ResetSize,
                    Return, Become, History
      <4>2. pc'[t] \notin Knowing \/ UNCHANGED <<pc, op>>
        BY <2>t, <4>1 DEF Knowing, Lockers
      <4> QED
        BY <3>1, <4>1, <4>2, IdleDistinct
    <3> QED
      BY <2>2, <3>2, <3>3, <3>4, <3>5, <3>6, <3>7 DEF Calm
  <2> QED
    BY <2>1, <2>2
<1> QED
  BY <1>1, <1>2

LEMMA InitDistinct == Init => Distinct
BY DEF Init, Distinct, Knowing, Lockers

(* A byte takes up two slots of a node, the second one where no find gets to,
   only after a compare-and-swap of a slot has failed
   (concurrent_index.hpp:332-339): the version that is compared when the node
   is locked does stop two inserts of one new byte. *)
THEOREM DuplicatesNeedMiss == Spec => []DuplicateAfterMiss
<1>1. Base /\ Nodes /\ Distinct => DuplicateAfterMiss
  <2> SUFFICES ASSUME Base, Nodes, Distinct, NEW n \in InUse, ~ missed
               PROVE  ~ (Cardinality({nodes[n].keys[i] : i \in 1 .. nodes[n].size})
                            < nodes[n].size)
    BY DEF DuplicateAfterMiss
  <2> DEFINE k  == nodes[n].keys
             KS == {k[i] : i \in 1 .. nodes[n].size}
  <2>1. n \in 1 .. Len(nodes)
    BY UsedNode
  <2>2. nodes[n].size = 1 \/ nodes[n].size = 2
    BY <2>1 DEF Base, Shape, NodeOK
  <2>3. CASE nodes[n].size = 1
    <3>1. KS = {k[1]}
      BY <2>3
    <3>2. Cardinality(KS) = 1
      BY <3>1, FS_Singleton
    <3> QED
      BY <2>3, <3>2
  <2>4. CASE nodes[n].size = 2
    <3>1. KS = {k[1]} \cup {k[2]}
      BY <2>4
    <3>2. k[1] # k[2]
      BY <2>1, <2>4 DEF Distinct
    <3> HIDE DEF k
    <3>3. IsFiniteSet({k[1]}) /\ Cardinality({k[1]}) = 1 /\ k[2] \notin {k[1]}
      BY <3>2, FS_Singleton
    <3>4. Cardinality({k[1]} \cup {k[2]}) = 2
      BY <3>3, FS_AddElement
    <3> QED
      BY <2>4, <3>1, <3>4 DEF k
  <2> QED
    BY <2>2, <2>3, <2>4
<1>2. Base /\ Nodes /\ Distinct /\ [Next]_vars => Base' /\ Nodes' /\ Distinct'
  BY NextBase, NextNodes, NextDistinct
<1> QED
  BY <1>1, <1>2, InitBase, InitNodes, InitDistinct, PTL DEF Spec

-----------------------------------------------------------------------------
\* The inserts that have widened the root, or planted it, and not counted yet.
Uncounted == {t \in Threads : pc[t] \in {"unlock", "count"}}

Slots == IF root = 0 THEN 0 ELSE nodes[root].size

\* As long as no clear() overlaps an operation, every operation works on the
\* root, and size_ lacks just the inserts that have not counted yet.
Counted ==
    /\ \A t \in Threads : pc[t] = "idle" => op[t].node = 0
    /\ \A t \in Threads : pc[t] = "reset" => op[t].kind = "clear"
    /\ ~ mixed =>
        /\ \A t \in Threads : op[t].node \in {0, root}
        /\ \A t, u \in Threads : pc[t] = "reset" /\ u # t => pc[u] = "idle"
        /\ \A t \in Threads : pc[t] = "reset" => root = 0
        /\ (\A t \in Threads : pc[t] # "reset") =>
                size + Cardinality(Uncounted) = Slots

LEMMA UncountedStep ==
  ASSUME NEW t \in Threads, Others(t)
  PROVE  /\ Cardinality(Uncounted) \in Nat /\ Cardinality(Uncounted') \in Nat
         /\ pc[t] \in {"unlock", "count"} /\ pc'[t] \in {"unlock", "count"} =>
                Cardinality(Uncounted') = Cardinality(Uncounted)
         /\ pc[t] \notin {"unlock", "count"} /\ pc'[t] \notin {"unlock", "count"} =>
                Cardinality(Uncounted') = Cardinality(Uncounted)
         /\ pc[t] \notin {"unlock", "count"} /\ pc'[t] \in {"unlock", "count"} =>
                Cardinality(Uncounted') = Cardinality(Uncounted) + 1
         /\ pc[t] \in {"unlock", "count"} /\ pc'[t] \notin {"unlock", "count"} =>
                Cardinality(Uncounted') = Cardinality(Uncounted) - 1
<1>1. IsFiniteSet(Uncounted) /\ IsFiniteSet(Uncounted')
  <2>1. Uncounted \subseteq Threads /\ Uncounted' \subseteq Threads
    BY DEF Uncounted
  <2> QED
    BY <2>1, ThreadsAssumption, FS_Subset
<1>2. Cardinality(Uncounted) \in Nat /\ Cardinality(Uncounted') \in Nat
  BY <1>1, FS_CardinalityType
<1>3. \A u \in Threads \ {t} : u \in Uncounted' <=> u \in Uncounted
  BY DEF Others, Uncounted
<1>4. CASE t \in Uncounted <=> t \in Uncounted'
  <2>1. Uncounted' = Uncounted
    BY <1>3, <1>4 DEF Uncounted
  <2> QED
    BY <1>2, <1>4, <2>1 DEF Uncounted
<1>5. CASE t \notin Uncounted /\ t \in Uncounted'
  <2>1. Uncounted' = Uncounted \cup {t}
    BY <1>3, <1>5 DEF Uncounted
  <2>2. Cardinality(Uncounted \cup {t}) = Cardinality(Uncounted) + 1
    BY <1>1, <1>5, FS_AddElement
  <2> QED
    BY <1>2, <1>5, <2>1, <2>2 DEF Uncounted
<1>6. CASE t \in Uncounted /\ t \notin Uncounted'
  <2>1. Uncounted' = Uncounted \ {t}
    BY <1>3, <1>6 DEF Uncounted
  <2>2. Cardinality(Uncounted \ {t}) = Cardinality(Uncounted) - 1
    BY <1>1, <1>6, FS_RemoveElement
  <2> QED
    BY <1>2, <1>6, <2>1, <2>2 DEF Uncounted
<1> QED
  BY <1>4, <1>5, <1>6

\* A step of an operation other than clear().
LEMMA StepCounted ==
  ASSUME Base, Base', Counted, NEW t \in Threads, Others(t),
         op'[t].node \in {op[t].node, root, 0}, root' = root \/ root = 0,
         pc'[t] = "idle" => op'[t].node = 0,
         pc[t] # "reset", pc'[t] # "reset",
         mixed => mixed',
         pc[t] = "idle" /\ pc'[t] # "idle" /\ ~ mixed' =>
            \A u \in Threads : pc[u] # "reset",
         ~ mixed' /\ (\A u \in Threads : pc[u] # "reset") =>
            size' + Cardinality(Uncounted') = Slots',
         root' # root => \A u \in Threads : pc[u] # "reset"
  PROVE  Counted'
<1>1. \A u \in Threads : pc'[u] = "reset" <=> pc[u] = "reset"
  BY DEF Others
<1>2. \A u \in Threads : /\ pc'[u] = "idle" => op'[u].node = 0
                         /\ pc'[u] = "reset" => op'[u].kind = "clear"
  BY DEF Others, Counted
<1>3. ASSUME ~ mixed' PROVE \A u \in Threads : op'[u].node \in {0, root'}
  BY <1>3 DEF Others, Counted
<1>4. ASSUME ~ mixed', NEW v \in Threads, NEW u \in Threads, pc'[v] = "reset", u # v
      PROVE  pc'[u] = "idle"
  <2>1. pc[v] = "reset" /\ pc[u] = "idle"
    BY <1>1, <1>4 DEF Counted
  <2> QED
    BY <1>4, <2>1 DEF Others
<1>5. ASSUME ~ mixed', NEW u \in Threads, pc'[u] = "reset" PROVE root' = 0
  BY <1>1, <1>5 DEF Counted
<1>6. ASSUME ~ mixed', \A u \in Threads : pc'[u] # "reset"
      PROVE  size' + Cardinality(Uncounted') = Slots'
  BY <1>1, <1>6
<1> QED
  BY <1>2, <1>3, <1>4, <1>5, <1>6 DEF Counted

SameSizes ==
    /\ root' = root /\ size' = size /\ mixed' = mixed
    /\ \A n \in 1 .. Len(nodes) : nodes'[n].size = nodes[n].size

LEMMA QuietCounted ==
  ASSUME Base, Base', Counted, NEW t \in Threads, Tame(t), SameSizes,
         pc[t] \notin {"idle", "reset", "unlock", "count"},
         pc'[t] \notin {"reset", "unlock", "count"},
         pc'[t] = "idle" => op'[t].node = 0
  PROVE  Counted'
<1>1. Others(t) /\ op'[t].node \in {op[t].node, root, 0}
  BY DEF Tame
<1>2. Cardinality(Uncounted') = Cardinality(Uncounted)
  BY <1>1, UncountedStep
<1>3. Slots' = Slots
  BY DEF Slots, SameSizes, Base, ATypeOK, Shape
<1>4. ~ mixed' /\ (\A u \in Threads : pc[u] # "reset") =>
            size' + Cardinality(Uncounted') = Slots'
  BY <1>2, <1>3 DEF SameSizes, Counted
<1> QED
  BY <1>1, <1>4, StepCounted DEF SameSizes

\* The steps that neither start, count, widen nor end with a reset.
Quiet(t) ==
    \/ InsertAgain(t) \/ DropNode(t) \/ ReadVersion(t)
    \/ ScanPut(t) \/ LoadSlot(t) \/ CasSlot(t) \/ Lock(t) \/ LockFails(t)
    \/ PutKey(t) \/ MoveValue(t) \/ PlaceValue(t)
    \/ EnterOuter(t) \/ EnterInner(t) \/ ScanFind(t) \/ Fetch(t) \/ Compare(t)

LEMMA QuietSizes ==
  ASSUME Base, NEW t \in Threads, Quiet(t) PROVE SameSizes
<1> USE DEF Base, ATypeOK
<1>1. ASSUME nodes' = nodes, UNCHANGED <<root, size, mixed>> PROVE SameSizes
  BY <1>1 DEF SameSizes
<1>2. ASSUME NEW x, pc[t] \in NodePcs, nodes' = [nodes EXCEPT ![op[t].node] = x],
             x.size = Mine(t).size, UNCHANGED <<root, size, mixed>>
      PROVE SameSizes
  BY <1>2, MineType DEF SameSizes, Mine
<1>3. CASE \/ InsertAgain(t) \/ DropNode(t) \/ ReadVersion(t) \/ ScanPut(t) \/ LoadSlot(t)
           \/ LockFails(t) \/ EnterOuter(t) \/ EnterInner(t) \/ ScanFind(t) \/ Fetch(t)
           \/ Compare(t)
  BY <1>1, <1>3 DEF InsertAgain, DropNode, ReadVersion, ScanPut, LoadSlot, LockFails,
                    EnterOuter, EnterInner, ScanFind, Fetch, Compare, Counters
<1>4. CASE CasSlot(t)
  <2>1. CASE Mine(t).vals[op[t].i] = op[t].exp
    <3> DEFINE x == [Mine(t) EXCEPT !.vals = [Mine(t).vals EXCEPT ![op[t].i] = op[t].kv]]
    <3>1. pc[t] \in NodePcs
      BY <1>4 DEF CasSlot, Ready, NodePcs
    <3>2. x.size = Mine(t).size
      <4>1. Mine(t) \in NodeType
        BY <3>1, MineType
      <4> QED
        BY <4>1 DEF NodeType
    <3>3. nodes' = [nodes EXCEPT ![op[t].node] = x] /\ UNCHANGED <<root, size, mixed>>
      BY <1>4, <2>1 DEF CasSlot, Counters, Mine
    <3> HIDE DEF x
    <3> QED
      BY <1>2, <3>1, <3>2, <3>3
  <2>2. CASE Mine(t).vals[op[t].i] # op[t].exp
    BY <1>1, <1>4, <2>2 DEF CasSlot, Counters
  <2> QED
    BY <2>1, <2>2
<1>5. CASE Lock(t)
  <2> DEFINE x == [Mine(t) EXCEPT !.locked = TRUE]
  <2>1. pc[t] \in NodePcs /\ UNCHANGED <<size, mixed>>
    BY <1>5 DEF Lock, Ready, NodePcs, Counters
  <2>2. x.size = Mine(t).size
    <3>1. Mine(t) \in NodeType
      BY <2>1, MineType
    <3> QED
      BY <3>1 DEF NodeType
  <2>3. nodes' = [nodes EXCEPT ![op[t].node] = x] /\ root' = root
    BY <1>5, LockStep
  <2> HIDE DEF x
  <2> QED
    BY <1>2, <2>1, <2>2, <2>3
<1>6. CASE PutKey(t)
  <2> DEFINE k == Put(Mine(t).keys, op[t].i,
                      IF Moves(t) THEN Mine(t).keys[op[t].i - 1] ELSE Byte(t))
             x == [Mine(t) EXCEPT !.keys = k]
  <2>1. pc[t] \in NodePcs /\ UNCHANGED <<root, size, mixed>>
    BY <1>6 DEF PutKey, Ready, NodePcs, Counters
  <2>2. nodes' = [nodes EXCEPT ![op[t].node] = x]
    BY <1>6 DEF PutKey, SetNode, Mine
  <2>3. x.size = Mine(t).size
    <3>1. Mine(t) \in NodeType
      BY <2>1, MineType
    <3> QED
      BY <3>1 DEF NodeType
  <2> HIDE DEF x
  <2> QED
    BY <1>2, <2>1, <2>2, <2>3
<1>7. CASE MoveValue(t)
  <2> DEFINE v == Put(Mine(t).vals, op[t].i, Mine(t).vals[op[t].i - 1])
             x == [Mine(t) EXCEPT !.vals = v]
  <2>1. pc[t] \in NodePcs /\ UNCHANGED <<root, size, mixed>>
    BY <1>7 DEF MoveValue, Ready, NodePcs, Counters
  <2>2. nodes' = [nodes EXCEPT ![op[t].node] = x]
    BY <1>7 DEF MoveValue, SetNode, Mine
  <2>3. x.size = Mine(t).size
    <3>1. Mine(t) \in NodeType
      BY <2>1, MineType
    <3> QED
      BY <3>1 DEF NodeType
  <2> HIDE DEF x
  <2> QED
    BY <1>2, <2>1, <2>2, <2>3
<1>8. CASE PlaceValue(t)
  <2> DEFINE v == Put(Mine(t).vals, op[t].i, op[t].kv)
             x == [Mine(t) EXCEPT !.vals = v]
  <2>1. pc[t] \in NodePcs /\ UNCHANGED <<root, size, mixed>>
    BY <1>8 DEF PlaceValue, Ready, NodePcs, Counters
  <2>2. nodes' = [nodes EXCEPT ![op[t].node] = x]
    BY <1>8 DEF PlaceValue, SetNode, Mine
  <2>3. x.size = Mine(t).size
    <3>1. Mine(t) \in NodeType
      BY <2>1, MineType
    <3> QED
      BY <3>1 DEF NodeType
  <2> HIDE DEF x
  <2> QED
    BY <1>2, <2>1, <2>2, <2>3
<1> QED
  BY <1>3, <1>4, <1>5, <1>6, <1>7, <1>8 DEF Quiet

LEMMA QuietPlaces ==
  ASSUME Base, NEW t \in Threads, Quiet(t)
  PROVE  /\ pc[t] \notin {"idle", "reset", "unlock", "count"}
         /\ pc'[t] \notin {"reset", "unlock", "count"}
         /\ pc'[t] = "idle" => op'[t].node = 0
<1> USE DEF Base, ATypeOK
<1>1. pc[t] \notin {"idle", "reset", "unlock", "count"}
  BY DEF Quiet, InsertAgain, DropNode, ReadVersion, ScanPut, LoadSlot, CasSlot, Lock, LockFails,
         PutKey, MoveValue, PlaceValue, EnterOuter, EnterInner, ScanFind, Fetch, Compare, Ready
<1>2. CASE ScanPut(t) \/ ScanFind(t)
  <2>1. /\ pc[t] \in {"scan", "look"}
        /\ \E found \in {"load", "fetch"}, none \in {"lock", "none"} : Scan(t, found, none)
    BY <1>2 DEF ScanPut, ScanFind, Ready
  <2>2. op[t].node \in 1 .. Len(nodes)
    BY <2>1, MineType DEF NodePcs
  <2>3. PICK found \in {"load", "fetch"}, none \in {"lock", "none"} : Scan(t, found, none)
    BY <2>1
  <2>4. \E s \in {found, none, pc[t]} : pc' = [pc EXCEPT ![t] = s]
    BY <2>2, <2>3, ScanStep
  <2> QED
    BY <1>1, <2>1, <2>4
<1>3. CASE Lock(t)
  BY <1>1, <1>3, LockStep
<1>4. CASE \/ InsertAgain(t) \/ DropNode(t) \/ ReadVersion(t) \/ LockFails(t)
           \/ PutKey(t) \/ MoveValue(t) \/ PlaceValue(t)
           \/ EnterOuter(t) \/ EnterInner(t) \/ Fetch(t)
  <2>1. \E s \in {"plant", "version", "scan", "move", "place", "shift", "widen", "nest",
                  "look", "compare"} : pc' = [pc EXCEPT ![t] = s]
    BY <1>4 DEF InsertAgain, DropNode, ReadVersion, LockFails, PutKey, MoveValue, PlaceValue,
                EnterOuter, EnterInner, Fetch, Become
  <2> QED
    BY <1>1, <2>1
<1>5. CASE LoadSlot(t) \/ CasSlot(t) \/ Compare(t)
  <2>1. \/ pc' = [pc EXCEPT ![t] = "idle"] /\ op' = [op EXCEPT ![t] = NoOp]
        \/ \E s \in {"cas", "scan", "version"} : pc' = [pc EXCEPT ![t] = s]
    BY <1>5 DEF LoadSlot, CasSlot, Compare, Return, Become
  <2>2. NoOp.node = 0
    BY DEF NoOp
  <2> QED
    BY <1>1, <2>1, <2>2
<1> QED
  BY <1>2, <1>3, <1>4, <1>5 DEF Quiet

\* An insert, upsert or find begins while no clear() is running, or mixes.
LEMMA StartCounted ==
  ASSUME Base, Base', Counted, NEW t \in Threads, NEW k \in Keys,
         StartPut(t, "insert", k) \/ StartPut(t, "upsert", k) \/ StartFind(t, k)
  PROVE  Counted'
<1>1. Tame(t)
  BY CalmTame DEF Calm
<1>2. \E kind \in {"insert", "upsert", "find"} : Begun(t, kind)
  BY DEF StartPut, StartFind
<1>3. pc[t] = "idle" /\ UNCHANGED <<root, nodes, size>>
  BY DEF StartPut, StartFind, Begun, Ready
<1>4. pc[t] = "idle" => op[t].node = 0
  BY DEF Counted
<1>5. /\ \/ UNCHANGED <<pc, op>>
         \/ \E s \in {"plant", "version", "again", "enter"} : pc' = [pc EXCEPT ![t] = s]
  BY DEF StartPut, StartFind, Become
<1>6. pc'[t] \notin {"unlock", "count", "reset"} /\ (pc'[t] = "idle" => op'[t].node = 0)
  BY <1>3, <1>4, <1>5 DEF Base, ATypeOK
<1>7. mixed => mixed'
  BY <1>2 DEF Begun
<1>8. ASSUME ~ mixed' PROVE \A u \in Threads : pc[u] # "reset"
  <2>1. \A u \in Active : op[u].kind # "clear"
    BY <1>2, <1>8 DEF Begun
  <2> QED
    BY <2>1 DEF Active, Counted
<1>9. Cardinality(Uncounted') = Cardinality(Uncounted)
  BY <1>1, <1>3, <1>6, UncountedStep DEF Tame
<1>10. ~ mixed' /\ (\A u \in Threads : pc[u] # "reset") =>
            size' + Cardinality(Uncounted') = Slots'
  BY <1>3, <1>7, <1>9 DEF Counted, Slots
<1>11. Others(t) /\ op'[t].node \in {op[t].node, root, 0}
  BY <1>1 DEF Tame
<1> QED
  BY <1>3, <1>6, <1>7, <1>8, <1>10, <1>11, StepCounted

\* clear() begins: it is alone, or it mixes.
LEMMA StartClearCounted ==
  ASSUME Base, Base', Counted, NEW t \in Threads, StartClear(t) PROVE Counted'
<1> DEFINE x == [op[t] EXCEPT !.kind = "clear"]
<1>1. op[t] \in OpType
  BY DEF Base, ATypeOK
<1>2. x.node = op[t].node /\ x.kind = "clear"
  BY <1>1 DEF OpType
<1> HIDE DEF x
<1>3. /\ pc[t] = "idle" /\ root' = 0 /\ pc' = [pc EXCEPT ![t] = "reset"]
      /\ op' = [op EXCEPT ![t] = x] /\ Begun(t, "clear")
  BY DEF StartClear, Begun, Ready, Become, x
<1>4. pc'[t] = "reset" /\ op'[t] = x /\ Others(t)
  BY <1>3 DEF Others, Base, ATypeOK
<1>5. op'[t].node = 0
  BY <1>2, <1>3, <1>4 DEF Counted
<1>6. ASSUME ~ mixed' PROVE \A u \in Threads : pc[u] = "idle"
  BY <1>3, <1>6 DEF Begun, Active
<1>7. \A u \in Threads : /\ pc'[u] = "idle" => op'[u].node = 0
                         /\ pc'[u] = "reset" => op'[u].kind = "clear"
  BY <1>2, <1>4 DEF Others, Counted
<1>8. ASSUME ~ mixed' PROVE \A u \in Threads : op'[u].node \in {0, root'}
  BY <1>4, <1>5, <1>6, <1>8 DEF Others, Counted
<1>9. ASSUME ~ mixed', NEW v \in Threads, NEW u \in Threads, pc'[v] = "reset", u # v
      PROVE  pc'[u] = "idle"
  BY <1>4, <1>6, <1>9 DEF Others
<1> QED
  BY <1>3, <1>4, <1>7, <1>8, <1>9 DEF Counted

\* The last step of clear(): nothing else has begun since it emptied the root.
LEMMA ResetCounted ==
  ASSUME Base, Base', Counted, NEW t \in Threads, ResetSize(t) PROVE Counted'
<1>1. /\ pc[t] = "reset" /\ size' = 0 /\ pc' = [pc EXCEPT ![t] = "idle"]
      /\ op' = [op EXCEPT ![t] = NoOp] /\ UNCHANGED <<root, nodes, mixed>>
  BY DEF ResetSize, Return, Become, Ready, Counters
<1>2. NoOp.node = 0
  BY DEF NoOp
<1>3. pc'[t] = "idle" /\ op'[t].node = 0 /\ Others(t)
  BY <1>1, <1>2 DEF Others, Base, ATypeOK
<1>4. \A u \in Threads : /\ pc'[u] = "idle" => op'[u].node = 0
                         /\ pc'[u] = "reset" => op'[u].kind = "clear"
  BY <1>3 DEF Others, Counted
<1>5. ASSUME ~ mixed'
      PROVE  /\ \A u \in Threads : pc'[u] = "idle"
             /\ root' = 0 /\ Uncounted' = {}
  <2>1. \A u \in Threads : pc'[u] = "idle"
    BY <1>1, <1>3, <1>5 DEF Others, Counted
  <2> QED
    BY <1>1, <1>5, <2>1 DEF Counted, Uncounted
<1>6. \A u \in Threads : ~ mixed' => op'[u].node \in {0, root'}
  BY <1>1, <1>3 DEF Others, Counted
<1>7. ~ mixed' => size' + Cardinality(Uncounted') = Slots'
  BY <1>1, <1>5, FS_EmptySet DEF Slots
<1> QED
  BY <1>4, <1>5, <1>6, <1>7 DEF Counted

\* The node that is planted has the one slot that is to be counted.
LEMMA PlantWonCounted ==
  ASSUME Base, Base', Counted, NEW t \in Threads, PlantWon(t) PROVE Counted'
<1> DEFINE x == Node(1, <<Byte(t)>>, <<op[t].kv>>)
<1>1. /\ pc[t] = "plant" /\ root = 0 /\ root' = Len(nodes) + 1
      /\ nodes' = Append(nodes, x) /\ pc' = [pc EXCEPT ![t] = "count"]
      /\ UNCHANGED <<op, size, mixed>>
  BY DEF PlantWon, Ready, Become, Counters
<1>2. x.size = 1
  BY DEF Node
<1> HIDE DEF x
<1>3. pc'[t] = "count" /\ Others(t)
  BY <1>1 DEF Others, Base, ATypeOK
<1>4. Slots' = 1 /\ Slots = 0
  BY <1>1, <1>2 DEF Slots, Base, ATypeOK
<1>5. Cardinality(Uncounted') = Cardinality(Uncounted) + 1 /\ Cardinality(Uncounted) \in Nat
  BY <1>1, <1>3, UncountedStep
<1>6. \A u \in Threads : ~ mixed => pc[u] # "reset"
  BY <1>1 DEF Counted
<1>7. ~ mixed' => size' + Cardinality(Uncounted') = Slots'
  BY <1>1, <1>4, <1>5, <1>6 DEF Counted, Base, ATypeOK
<1>8. \A u \in Threads : /\ pc'[u] = "idle" => op'[u].node = 0
                         /\ pc'[u] = "reset" => op'[u].kind = "clear" /\ pc[u] = "reset"
                         /\ op'[u] = op[u]
  BY <1>1, <1>3 DEF Others, Counted
<1>9. ~ mixed' => \A u \in Threads : op'[u].node \in {0, root'} /\ pc'[u] # "reset"
  BY <1>1, <1>6, <1>8 DEF Counted
<1> QED
  BY <1>7, <1>8, <1>9 DEF Counted

\* The plant that lost goes on with the root.
LEMMA PlantLostCounted ==
  ASSUME Base, Base', Counted, NEW t \in Threads, PlantLost(t) PROVE Counted'
<1> DEFINE x == [op[t] EXCEPT !.old = root, !.node = root, !.exp = Len(nodes) + 1]
           y == Node(1, <<Byte(t)>>, <<op[t].kv>>)
<1>1. op[t] \in OpType
  BY DEF Base, ATypeOK
<1>2. x.node = root
  BY <1>1 DEF OpType
<1> HIDE DEF x, y
<1>3. /\ pc[t] = "plant" /\ nodes' = Append(nodes, y)
      /\ UNCHANGED <<root, size, mixed>>
      /\ \/ op' = op \/ op' = [op EXCEPT ![t] = x]
      /\ \E s \in {"drop", "again"} : pc' = [pc EXCEPT ![t] = s]
  BY DEF PlantLost, Ready, Become, Counters, x, y
<1>4. /\ Others(t) /\ pc'[t] \notin {"idle", "reset", "unlock", "count"}
      /\ op'[t].node \in {op[t].node, root}
  BY <1>2, <1>3 DEF Others, Base, ATypeOK
<1>5. Slots' = Slots
  BY <1>3 DEF Slots, Base, ATypeOK, Shape
<1>6. Cardinality(Uncounted') = Cardinality(Uncounted)
  BY <1>3, <1>4, UncountedStep
<1>7. ~ mixed' /\ (\A u \in Threads : pc[u] # "reset") =>
            size' + Cardinality(Uncounted') = Slots'
  BY <1>3, <1>5, <1>6 DEF Counted
<1> QED
  BY <1>3, <1>4, <1>7, StepCounted

\* The second slot of the root and the insert that is to count it come together.
LEMMA WidenCounted ==
  ASSUME Base, Base', Counted, NEW t \in Threads, Widen(t) PROVE Counted'
<1> DEFINE x == [Mine(t) EXCEPT !.size = Mine(t).size + 1]
<1>1. /\ pc[t] = "widen" /\ nodes' = [nodes EXCEPT ![op[t].node] = x]
      /\ pc' = [pc EXCEPT ![t] = "unlock"] /\ UNCHANGED <<root, op, size, mixed>>
  BY DEF Widen, Ready, Become, SetNode, Mine, Counters
<1>2. op[t].node \in 1 .. Len(nodes) /\ Mine(t) \in NodeType /\ Mine(t).size \in Nat
  BY <1>1, MineType DEF NodePcs
<1>3. x.size = Mine(t).size + 1
  BY <1>2 DEF NodeType
<1> HIDE DEF x
<1>4. /\ Others(t) /\ pc'[t] = "unlock" /\ op'[t] = op[t]
  BY <1>1 DEF Others, Base, ATypeOK
<1>5. Cardinality(Uncounted') = Cardinality(Uncounted) + 1 /\ Cardinality(Uncounted) \in Nat
  BY <1>1, <1>4, UncountedStep
<1>6. ASSUME ~ mixed PROVE Slots' = Slots + 1 /\ Slots \in Nat
  <2>1. root = op[t].node
    BY <1>2, <1>6 DEF Counted
  <2>2. root # 0 /\ nodes'[root] = x
    BY <1>1, <1>2, <2>1
  <2> QED
    BY <1>1, <1>2, <1>3, <2>1, <2>2 DEF Slots, Mine
<1>7. ~ mixed' /\ (\A u \in Threads : pc[u] # "reset") =>
            size' + Cardinality(Uncounted') = Slots'
  BY <1>1, <1>5, <1>6 DEF Counted, Base, ATypeOK
<1> QED
  BY <1>1, <1>4, <1>7, StepCounted

LEMMA UnlockCounted ==
  ASSUME Base, Base', Counted, NEW t \in Threads, Unlock(t) PROVE Counted'
<1> DEFINE x == Incremented(Mine(t))
<1>1. /\ pc[t] = "unlock" /\ nodes' = [nodes EXCEPT ![op[t].node] = x]
      /\ pc' = [pc EXCEPT ![t] = "count"] /\ UNCHANGED <<root, op, size, mixed>>
  BY DEF Unlock, Ready, Become, Mine, Counters
<1>2. op[t].node = root \/ op[t].node = 0 \/ mixed
  BY DEF Counted
<1>3. /\ Others(t) /\ pc'[t] = "count" /\ op'[t] = op[t]
  BY <1>1 DEF Others, Base, ATypeOK
<1>4. Cardinality(Uncounted') = Cardinality(Uncounted)
  BY <1>1, <1>3, UncountedStep
<1>5. ASSUME ~ mixed PROVE Slots' = Slots
  <2>1. CASE root = 0 \/ op[t].node # root
    BY <1>1, <2>1 DEF Slots, Base, ATypeOK, Shape
  <2>2. CASE root # 0 /\ op[t].node = root
    <3>1. root \in 1 .. Len(nodes)
      BY <2>2 DEF Base, ATypeOK, Shape
    <3>2. Mine(t) \in NodeType /\ Mine(t) = nodes[root]
      BY <2>2, <3>1 DEF Mine, Base, ATypeOK
    <3>3. x.size = nodes[root].size
      BY <3>2, IncrementedFields
    <3> HIDE DEF x
    <3> QED
      BY <1>1, <2>2, <3>1, <3>3 DEF Slots, Base, ATypeOK
  <2> QED
    BY <2>1, <2>2
<1>6. ~ mixed' /\ (\A u \in Threads : pc[u] # "reset") =>
            size' + Cardinality(Uncounted') = Slots'
  BY <1>1, <1>4, <1>5 DEF Counted
<1> QED
  BY <1>1, <1>3, <1>6, StepCounted

\* Counting leaves the set of those that have not.
LEMMA CountCounted ==
  ASSUME Base, Base', Counted, NEW t \in Threads, Count(t) PROVE Counted'
<1>1. /\ pc[t] = "count" /\ pc' = [pc EXCEPT ![t] = "idle"]
      /\ op' = [op EXCEPT ![t] = NoOp] /\ size' = size + 1
      /\ UNCHANGED <<root, nodes, mixed>>
  BY DEF Count, Return, Become, Ready, Counters
<1>2. NoOp.node = 0
  BY DEF NoOp
<1>3. pc'[t] = "idle" /\ op'[t].node = 0 /\ Others(t)
  BY <1>1, <1>2 DEF Others, Base, ATypeOK
<1>4. /\ Cardinality(Uncounted') = Cardinality(Uncounted) - 1
      /\ Cardinality(Uncounted) \in Nat /\ Cardinality(Uncounted') \in Nat
  BY <1>1, <1>3, UncountedStep
<1>5. ~ mixed' /\ (\A u \in Threads : pc[u] # "reset") =>
            size' + Cardinality(Uncounted') = Slots'
  BY <1>1, <1>4 DEF Counted, Slots, Base, ATypeOK
<1> QED
  BY <1>1, <1>3, <1>5, StepCounted

LEMMA InitCounted == Init => Counted
<1> SUFFICES ASSUME Init PROVE Counted
  OBVIOUS
<1>1. Uncounted = {}
  BY DEF Init, Uncounted
<1>2. Cardinality(Uncounted) = 0
  BY <1>1, FS_EmptySet
<1>3. NoOp.node = 0
  BY DEF NoOp
<1>4. \A t \in Threads : op[t] = NoOp /\ pc[t] = "idle"
  BY DEF Init
<1>5. size = 0 /\ root = 0
  BY DEF Init
<1> QED
  BY <1>2, <1>3, <1>4, <1>5 DEF Counted, Slots

LEMMA NextCounted == Base /\ Base' /\ Counted /\ [Next]_vars => Counted'
<1> SUFFICES ASSUME Base, Base', Counted, [Next]_vars PROVE Counted'
  OBVIOUS
<1>1. ASSUME UNCHANGED avars PROVE Counted'
  BY <1>1 DEF avars, Counted, Uncounted, Slots
<1>2. CASE UNCHANGED vars
  BY <1>1, <1>2 DEF vars
<1>3. CASE Next
  <2> PICK t \in Threads : Calm(t) \/ PlantWon(t) \/ PlantLost(t)
    BY <1>3, StepCases
  <2>1. CASE Spin(t) \/ (RStep(t) /\ UNCHANGED avars)
    BY <1>1, <2>1 DEF Spin, vars
  <2>2. CASE Quiet(t)
    <3>1. Tame(t)
      BY <2>2, CalmTame DEF Quiet, Calm
    <3> QED
      BY <2>2, <3>1, QuietSizes, QuietPlaces, QuietCounted
  <2> QED
    BY <2>1, <2>2, StartCounted, StartClearCounted, ResetCounted, PlantWonCounted,
       PlantLostCounted, WidenCounted, UnlockCounted, CountCounted DEF Calm, Quiet
<1> QED
  BY <1>2, <1>3

(* size_ is not incremented together with the slot it counts, and two inserts
   may be between the two at once (concurrent_index.hpp:298, 349): still it is
   never off by more than those inserts, and right when none is under way.  A
   clear() that meets an insert breaks that for good. *)
THEOREM SizeIsSlots == Spec => []SizeCountsSlots
<1>1. Base /\ Counted => SizeCountsSlots
  <2> SUFFICES ASSUME Base, Counted, ~ mixed, \A t \in Active : op[t].kind # "clear"
               PROVE  size + Cardinality(Uncounted) = Slots
    BY DEF SizeCountsSlots, Uncounted, Slots
  <2>1. \A t \in Threads : pc[t] # "reset"
    BY DEF Active, Counted
  <2> QED
    BY <2>1 DEF Counted
<1>2. Base /\ Counted /\ [Next]_vars => Base' /\ Counted'
  BY NextBase, NextCounted
<1> QED
  BY <1>1, <1>2, InitBase, InitCounted, PTL DEF Spec
=============================================================================
