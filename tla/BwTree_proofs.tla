----------------------------- MODULE BwTree_proofs -----------------------------
(***************************************************************************)
(* Three results about BwTree, for any threads, keys, thresholds, bounds.  *)
(* The root page is never deleted: a thread is registered as a reader as   *)
(* long as it is in an operation, so its own test for readers, the only    *)
(* way to delete, always finds one.  And the tree implements Dictionary:   *)
(* the entry of a key is the newest delta of the chain, which a push moves *)
(* to the new delta and everything else leaves alone.  Last, what one      *)
(* delta does to a page keeps it in order (ApplyOK), so all pages of the   *)
(* walk of consolidateNode are (WalkOK), by the first that would not be.   *)
(***************************************************************************)
EXTENDS BwTree, FiniteSetTheorems, WellFoundedInduction, TLAPS

Inside == {"head", "push", "count", "consolidate", "map", "retire"}

\* How far the call of Reclamation may be, with which share of
\* active_readers_, given where the operation is.
Registered(t) ==
    \/ pc[t] \in {"idle", "reset"} /\ depth[t] = 0
       /\ rpc[t] \in {"idle", "check", "advance", "bump"}
    \/ pc[t] = "idle" /\ depth[t] = 1 /\ rpc[t] = "leave"
    \/ pc[t] = "leaf" /\ depth[t] = 0 /\ rpc[t] = "join"
    \/ pc[t] \in {"leaf"} \cup Inside /\ depth[t] = 1 /\ rpc[t] = "idle"
    \/ pc[t] = "done" /\ depth[t] = 1 /\ rpc[t] \in {"idle", "reclaim", "test"}

Guarded ==
    /\ depth \in [Threads -> Nat]
    /\ DOMAIN pc = Threads /\ DOMAIN rpc = Threads
    /\ \A t \in Threads : Registered(t)
    /\ freed = {}

Deltas == [type : {"INSERT", "UPDATE"}, key : Keys]

\* An operation is a record with the fields of NoOp.
IsOp(o) ==
    o = [kind |-> o.kind, key |-> o.key, head |-> o.head, page |-> o.page,
         res |-> o.res, late |-> o.late]

\* A call that was made before the root was null may pass findLeaf, a later
\* one does not.
CallOK(t) ==
    /\ IsOp(op[t])
    /\ op[t].late \in BOOLEAN
    /\ op[t].late => ~ rootSet
    /\ pc[t] \in {"leaf", "head", "push"} =>
        op[t].kind \in {"insert", "upsert", "find"} /\ op[t].key \in Keys
    /\ pc[t] \in {"head", "push"} => ~ op[t].late
    /\ pc[t] = "push" => op[t].kind # "find"

Calls ==
    /\ rootSet \in BOOLEAN
    /\ chain \in Seq(Deltas)
    /\ DOMAIN op = Threads /\ DOMAIN pc = Threads
    /\ \A t \in Threads : CallOK(t)

-----------------------------------------------------------------------------
\* The steps of one thread.
Thread(t) ==
    \/ \E kind \in Kinds \ {"clear"}, k \in Keys : Start(t, kind, k)
    \/ StartClear(t)
    \/ Step(t)

LEMMA InitGuarded == Init => Guarded
BY DEF Init, RInit, Guarded, Registered

\* A step of Reclamation that an operation waits for.
LEMMA ReclamationGuarded ==
  ASSUME Guarded, NEW t \in Threads, RStep(t), UNCHANGED pc
  PROVE  Guarded'
<1> USE DEF Guarded, At, GoTo, Inside
<1> DEFINE Others == \A u \in Threads \ {t} : depth'[u] = depth[u] /\ rpc'[u] = rpc[u]
<1>1. ASSUME Others, Registered(t)', depth' \in [Threads -> Nat],
             DOMAIN rpc' = Threads, freed' = {}
      PROVE  Guarded'
  BY <1>1 DEF Registered
<1>2. Registered(t) /\ depth[t] \in Nat
  OBVIOUS
<1>3. CASE Join(t)
  BY <1>1, <1>2, <1>3 DEF Join, Registered
<1>4. CASE Leave(t)
  BY <1>1, <1>2, <1>4 DEF Leave, Registered
<1>5. CASE CheckEpoch(t)
  BY <1>1, <1>2, <1>5 DEF CheckEpoch, Registered
<1>6. CASE Advance(t)
  BY <1>1, <1>2, <1>6 DEF Advance, Registered
<1>7. CASE Bump(t)
  BY <1>1, <1>2, <1>7 DEF Bump, Registered
<1>8. CASE LoadEpoch(t)
  BY <1>1, <1>2, <1>8 DEF LoadEpoch, Registered
<1>9. CASE TestReaders(t)
  <2>1. depth[t] = 1
    BY <1>2, <1>9 DEF TestReaders, Registered
  <2>2. ~ NoReaders
    BY <2>1 DEF NoReaders
  <2>3. rpc' = [rpc EXCEPT ![t] = "idle"]
    BY <1>9, <2>2, Zenon DEF TestReaders
  <2> QED
    BY <1>1, <1>2, <1>9, <2>3 DEF TestReaders, Registered
<1>10. CASE Swap(t) \/ Free(t)
  BY <1>2, <1>10 DEF Swap, Free, Registered
<1> QED
  BY <1>3, <1>4, <1>5, <1>6, <1>7, <1>8, <1>9, <1>10 DEF RStep

LEMMA StepGuarded ==
  ASSUME Guarded, NEW t \in Threads, Thread(t)
  PROVE  Guarded'
<1> USE DEF Guarded, At, GoTo, Ready, Idle, Become, Inside, rvars, bvars, Tree
<1>1. ASSUME \A u \in Threads \ {t} :
                 depth'[u] = depth[u] /\ rpc'[u] = rpc[u] /\ pc'[u] = pc[u],
             Registered(t)', depth' \in [Threads -> Nat],
             DOMAIN rpc' = Threads, DOMAIN pc' = Threads, freed' = {}
      PROVE  Guarded'
  BY <1>1 DEF Registered
<1>2. Registered(t) /\ depth[t] \in Nat
  OBVIOUS
<1>3. ASSUME NEW kind \in Kinds \ {"clear"}, NEW k \in Keys, Start(t, kind, k)
      PROVE  Guarded'
  BY <1>1, <1>2, <1>3 DEF Start, Begun, Begin, Registered
<1>4. CASE StartClear(t)
  BY <1>1, <1>2, <1>4 DEF StartClear, Begun, Registered
<1>5. CASE FindLeaf(t)
  BY <1>1, <1>2, <1>5 DEF FindLeaf, Registered
<1>6. CASE LoadHead(t)
  BY <1>1, <1>2, <1>6 DEF LoadHead, Registered
<1>7. CASE Push(t) \/ PushFails(t)
  BY <1>1, <1>2, <1>7 DEF Push, PushFails, Registered
<1>8. CASE CountChain(t) \/ Consolidate(t) \/ MapPage(t)
  BY <1>1, <1>2, <1>8 DEF CountChain, Consolidate, MapPage, Registered
<1>9. CASE RetireRoot(t)
  BY <1>1, <1>2, <1>9 DEF RetireRoot, Retire, Registered
<1>10. CASE Finish(t)
  BY <1>1, <1>2, <1>10 DEF Finish, End, Registered
<1>11. CASE ResetSize(t)
  BY <1>1, <1>2, <1>11 DEF ResetSize, Registered
<1>12. CASE RStep(t) /\ UNCHANGED bvars
  BY <1>12, ReclamationGuarded
<1> QED
  BY <1>3, <1>4, <1>5, <1>6, <1>7, <1>8, <1>9, <1>10, <1>11, <1>12 DEF Thread, Step

LEMMA NextGuarded == Guarded /\ [Next]_vars => Guarded'
<1> SUFFICES ASSUME Guarded, [Next]_vars PROVE Guarded'
  OBVIOUS
<1>1. CASE Next
  BY <1>1, StepGuarded DEF Next, Thread
<1>2. CASE UNCHANGED vars
  BY <1>2 DEF vars, bvars, rvars, Guarded, Registered
<1> QED
  BY <1>1, <1>2

\* The root page is not deleted, although it goes into the lists again and
\* again while it is in use (bw_tree.hpp:246-251).
THEOREM RootKept == Spec => []RootNeverFreed
<1>1. Guarded => RootNeverFreed
  BY DEF Guarded, RootNeverFreed
<1> QED
  BY <1>1, InitGuarded, NextGuarded, PTL DEF Spec

-----------------------------------------------------------------------------
\* The newest delta of a key after a push: the new one, if it is of the key.
LEMMA NewestAppend ==
  ASSUME chain \in Seq(Deltas), NEW d \in Deltas, chain' = Append(chain, d),
         NEW k \in Keys
  PROVE  Newest(Len(chain), k)'
             = IF d.key = k THEN Len(chain) + 1 ELSE Newest(Len(chain), k)
<1> DEFINE n == Len(chain)
           S == {0} \cup {i \in 1 .. n : chain[i].key = k}
           T == {0} \cup {i \in 1 .. n + 1 : chain'[i].key = k}
<1>1. n \in Nat /\ Len(chain') = n + 1
  OBVIOUS
<1>2. \A i \in 1 .. n : chain'[i] = chain[i]
  OBVIOUS
<1>3. chain'[n + 1] = d
  OBVIOUS
<1>4. Newest(Len(chain), k) = Max(S) /\ Newest(Len(chain), k)' = Max(T)
  BY <1>1 DEF Newest
<1>5. CASE d.key = k
  <2>1. n + 1 \in T /\ \A j \in T : j \in Nat /\ n + 1 >= j
    BY <1>1, <1>3, <1>5
  <2>2. \A x \in T : (\A y \in T : x >= y) => x = n + 1
    BY <1>1, <2>1
  <2> HIDE DEF T
  <2>3. Max(T) = n + 1
    BY <2>1, <2>2 DEF Max
  <2> QED
    BY <1>4, <1>5, <2>3
<1>6. CASE d.key # k
  <2>1. T = S
    BY <1>1, <1>2, <1>3, <1>6
  <2> QED
    BY <1>4, <1>6, <2>1
<1> QED
  BY <1>5, <1>6

LEMMA InitCalls == Init => Calls
<1>1. IsOp(NoOp) /\ NoOp.late = FALSE
  BY DEF IsOp, NoOp
<1>2. << >> \in Seq(Deltas)
  OBVIOUS
<1>3. ASSUME Init, NEW t \in Threads PROVE op[t] = NoOp /\ pc[t] = "idle"
  BY <1>3 DEF Init
<1> QED
  BY <1>1, <1>2, <1>3 DEF Init, Calls, CallOK

\* The operation is the same but for what it has found out.
SameCall(o, n) ==
    IsOp(n) /\ n.kind = o.kind /\ n.key = o.key /\ n.late = o.late

LEMMA OpFields ==
  ASSUME NEW o, IsOp(o), NEW n, NEW x,
         \/ n = [o EXCEPT !.head = x]
         \/ n = [o EXCEPT !.page = x]
         \/ n = [o EXCEPT !.res = x]
  PROVE  SameCall(o, n)
BY DEF IsOp, SameCall

LEMMA StepCalls ==
  ASSUME Calls, NEW t \in Threads, Thread(t)
  PROVE  Calls'
<1> USE DEF Calls, Ready, Become, bvars, Tree
<1>1. ASSUME \A u \in Threads \ {t} : op'[u] = op[u] /\ pc'[u] = pc[u],
             CallOK(t)', rootSet' \in {rootSet, FALSE}, chain' \in Seq(Deltas),
             DOMAIN op' = Threads, DOMAIN pc' = Threads
      PROVE  Calls'
  BY <1>1 DEF CallOK
<1>2. CallOK(t)
  OBVIOUS
<1>op. IsOp(op[t])
  BY <1>2 DEF CallOK
<1>3. ASSUME NEW kind \in Kinds \ {"clear"}, NEW k \in Keys, Start(t, kind, k)
      PROVE  Calls'
  <2>1. op'[t] = [NoOp EXCEPT !.kind = kind, !.key = k, !.late = ~ rootSet]
    BY <1>3 DEF Start
  <2>2. /\ IsOp(op'[t]) /\ op'[t].kind = kind /\ op'[t].key = k
        /\ op'[t].late = ~ rootSet
    BY <2>1 DEF NoOp, IsOp
  <2>3. kind \in {"insert", "upsert", "find"}
    BY DEF Kinds
  <2>4. pc'[t] = "leaf" /\ rootSet' = rootSet /\ chain' = chain
    BY <1>3 DEF Start
  <2>5. CallOK(t)'
    BY <2>2, <2>3, <2>4 DEF CallOK
  <2> QED
    BY <1>1, <1>3, <2>4, <2>5 DEF Start
<1>4. CASE StartClear(t)
  BY <1>1, <1>2, <1>4 DEF StartClear, CallOK
<1>5. CASE FindLeaf(t)
  <2>1. CASE rootSet
    BY <1>1, <1>2, <1>5, <2>1 DEF FindLeaf, CallOK
  <2>2. CASE ~ rootSet
    <3>1. PICK r : op' = [op EXCEPT ![t].res = r]
      BY <1>5, <2>2 DEF FindLeaf
    <3>2. op'[t] = [op[t] EXCEPT !.res = r]
      BY <3>1
    <3>3. pc'[t] = "done"
      BY <1>5, <2>2 DEF FindLeaf
    <3>same. SameCall(op[t], op'[t])
      BY <1>op, <3>2, OpFields
    <3>4. CallOK(t)'
      BY <1>2, <1>5, <3>2, <3>3, <3>same DEF FindLeaf, CallOK, SameCall
    <3> QED
      BY <1>1, <1>5, <2>2, <3>1, <3>4 DEF FindLeaf
  <2> QED
    BY <2>1, <2>2
<1>6. CASE LoadHead(t)
  <2>1. CASE op[t].kind = "find"
    <3>1. PICK r : op' = [op EXCEPT ![t].res = r]
      BY <1>6, <2>1 DEF LoadHead
    <3>2. op'[t] = [op[t] EXCEPT !.res = r]
      BY <3>1
    <3>same. SameCall(op[t], op'[t])
      BY <1>op, <3>2, OpFields
    <3>3. CallOK(t)'
      BY <1>2, <1>6, <2>1, <3>2, <3>same DEF LoadHead, CallOK, SameCall
    <3> QED
      BY <1>1, <1>6, <2>1, <3>1, <3>3 DEF LoadHead
  <2>2. CASE op[t].kind # "find"
    <3>1. op'[t] = [op[t] EXCEPT !.head = Len(chain)]
      BY <1>6, <2>2 DEF LoadHead
    <3>same. SameCall(op[t], op'[t])
      BY <1>op, <3>1, OpFields
    <3>2. CallOK(t)'
      BY <1>2, <1>6, <2>2, <3>1, <3>same DEF LoadHead, CallOK, SameCall
    <3> QED
      BY <1>1, <1>6, <2>2, <3>2 DEF LoadHead
  <2> QED
    BY <2>1, <2>2
<1>7. CASE Push(t)
  <2>1. Delta(t) \in Deltas
    BY <1>2, <1>7 DEF Push, Delta, Deltas, CallOK
  <2>2. chain' \in Seq(Deltas)
    BY <1>7, <2>1 DEF Push
  <2>3. op'[t] = [op[t] EXCEPT !.res = Success]
    BY <1>7 DEF Push
  <2>same. SameCall(op[t], op'[t])
    BY <1>op, <2>3, OpFields
  <2>4. CallOK(t)'
    BY <1>2, <1>7, <2>3, <2>same DEF Push, CallOK, SameCall
  <2> QED
    BY <1>1, <1>7, <2>2, <2>4 DEF Push
<1>8. CASE PushFails(t)
  <2>1. op'[t] = [op[t] EXCEPT !.head = Len(chain)]
    BY <1>8 DEF PushFails
  <2>same. SameCall(op[t], op'[t])
    BY <1>op, <2>1, OpFields
  <2>2. CallOK(t)'
    BY <1>2, <1>8, <2>1, <2>same DEF PushFails, CallOK, SameCall
  <2> QED
    BY <1>1, <1>8, <2>2 DEF PushFails
<1>9. CASE CountChain(t) \/ RetireRoot(t)
  BY <1>1, <1>2, <1>9 DEF CountChain, RetireRoot, CallOK
<1>10. CASE Consolidate(t) \/ MapPage(t)
  <2>1. PICK x : op' = [op EXCEPT ![t].page = x]
    BY <1>10 DEF Consolidate, MapPage
  <2>2. op'[t] = [op[t] EXCEPT !.page = x]
    BY <2>1
  <2>same. SameCall(op[t], op'[t])
    BY <1>op, <2>2, OpFields
  <2>3. CallOK(t)'
    BY <1>2, <1>10, <2>2, <2>same DEF Consolidate, MapPage, CallOK, SameCall
  <2> QED
    BY <1>1, <1>10, <2>1, <2>3 DEF Consolidate, MapPage
<1>11. CASE Finish(t)
  <2>1. op'[t] = NoOp /\ pc'[t] = "idle"
    BY <1>11 DEF Finish
  <2>2. IsOp(NoOp) /\ NoOp.late = FALSE
    BY DEF IsOp, NoOp
  <2>3. CallOK(t)'
    BY <2>1, <2>2 DEF CallOK
  <2> QED
    BY <1>1, <1>11, <2>3 DEF Finish
<1>12. CASE ResetSize(t)
  BY <1>1, <1>2, <1>12 DEF ResetSize, CallOK
<1>13. CASE RStep(t) /\ UNCHANGED bvars
  BY <1>1, <1>2, <1>13 DEF CallOK
<1> QED
  BY <1>3, <1>4, <1>5, <1>6, <1>7, <1>8, <1>9, <1>10, <1>11, <1>12, <1>13
  DEF Thread, Step

LEMMA NextCalls == Calls /\ [Next]_vars => Calls'
<1> SUFFICES ASSUME Calls, [Next]_vars PROVE Calls'
  OBVIOUS
<1>1. CASE Next
  BY <1>1, StepCalls DEF Next, Thread
<1>2. CASE UNCHANGED vars
  BY <1>2 DEF vars, bvars, Calls, CallOK
<1> QED
  BY <1>1, <1>2

-----------------------------------------------------------------------------
\* The abstract calls, as far as one thread's step changes them.
LEMMA CallsChange ==
  ASSUME NEW t \in Threads, NEW r, CallOf(t)' = r,
         \A u \in Threads \ {t} : op'[u] = op[u] /\ pc'[u] = pc[u]
  PROVE  [u \in Threads |-> CallOf(u)]' = [[u \in Threads |-> CallOf(u)] EXCEPT ![t] = r]
<1>1. \A u \in Threads \ {t} : CallOf(u)' = CallOf(u)
  BY DEF CallOf
<1> QED
  BY <1>1

LEMMA CallsStay ==
  ASSUME NEW t \in Threads, CallOf(t)' = CallOf(t),
         \A u \in Threads \ {t} : op'[u] = op[u] /\ pc'[u] = pc[u]
  PROVE  [u \in Threads |-> CallOf(u)]' = [u \in Threads |-> CallOf(u)]
<1>1. \A u \in Threads : CallOf(u)' = CallOf(u)
  BY DEF CallOf
<1> QED
  BY <1>1

LEMMA StepAbs ==
  ASSUME Calls, NEW t \in Threads, Thread(t)
  PROVE  [Abs!Next]_(Abs!vars)
<1> USE DEF Calls, Ready, Become, bvars, Tree
<1>1. CallOK(t)
  OBVIOUS
<1>op. IsOp(op[t])
  BY <1>1 DEF CallOK
<1>2. \A u \in Threads \ {t} : op'[u] = op[u] /\ pc'[u] = pc[u]
  <2>1. CASE \E kind \in Kinds \ {"clear"}, k \in Keys : Start(t, kind, k)
    BY <2>1 DEF Start
  <2>2. CASE StartClear(t) \/ ResetSize(t)
    BY <2>2 DEF StartClear, ResetSize
  <2>3. CASE FindLeaf(t)
    BY <2>3 DEF FindLeaf
  <2>4. CASE LoadHead(t)
    BY <2>4 DEF LoadHead
  <2>5. CASE Push(t) \/ PushFails(t)
    BY <2>5 DEF Push, PushFails
  <2>6. CASE CountChain(t) \/ RetireRoot(t) \/ Finish(t)
    BY <2>6 DEF CountChain, RetireRoot, Finish
  <2>7. CASE Consolidate(t) \/ MapPage(t)
    BY <2>7 DEF Consolidate, MapPage
  <2>8. CASE RStep(t) /\ UNCHANGED bvars
    BY <2>8
  <2> QED
    BY <2>1, <2>2, <2>3, <2>4, <2>5, <2>6, <2>7, <2>8 DEF Thread, Step
<1>3. ASSUME UNCHANGED <<rootSet, chain>>, CallOf(t)' = CallOf(t)
      PROVE  UNCHANGED Abs!vars
  <2>1. [k \in Keys |-> Newest(Len(chain), k)]' = [k \in Keys |-> Newest(Len(chain), k)]
    BY <1>3 DEF Newest
  <2> QED
    BY <1>2, <1>3, <2>1, CallsStay DEF Abs!vars
<1>4. ASSUME NEW kind \in Kinds \ {"clear"}, NEW k \in Keys, Start(t, kind, k)
      PROVE  Abs!Invoke(t)
  <2>1. op'[t] = [NoOp EXCEPT !.kind = kind, !.key = k, !.late = ~ rootSet]
    BY <1>4 DEF Start
  <2>2. op'[t].kind = kind /\ op'[t].key = k /\ op'[t].late = ~ rootSet
    BY <2>1 DEF NoOp
  <2>3. CallOf(t) = [kind |-> "none"]
    BY <1>4 DEF Start, Begun, CallOf
  <2>4. CallOf(t)' = [kind |-> kind, key |-> k, late |-> ~ rootSet]
    BY <1>4, <2>2 DEF Start, CallOf, Answered
  <2>5. [u \in Threads |-> CallOf(u)]'
          = [[u \in Threads |-> CallOf(u)] EXCEPT
                ![t] = [kind |-> kind, key |-> k, late |-> ~ rootSet]]
    BY <1>2, <2>4, CallsChange
  <2>6. [j \in Keys |-> Newest(Len(chain), j)]' = [j \in Keys |-> Newest(Len(chain), j)]
        /\ UNCHANGED <<chain, rootSet>>
    BY <1>4 DEF Start, Newest
  <2>7. kind \in Abs!Kinds
    BY DEF Kinds, Abs!Kinds
  <2> QED
    BY <2>3, <2>5, <2>6, <2>7 DEF Abs!Invoke, Abs!NoCall
<1>5. CASE StartClear(t)
  <2>1. CallOf(t)' = CallOf(t)
    BY <1>5 DEF StartClear, Begun, CallOf
  <2>2. [u \in Threads |-> CallOf(u)]' = [u \in Threads |-> CallOf(u)]
    BY <1>2, <2>1, CallsStay
  <2>3. [j \in Keys |-> Newest(Len(chain), j)]' = [j \in Keys |-> Newest(Len(chain), j)]
        /\ chain' = chain /\ rootSet' = FALSE
    BY <1>5 DEF StartClear, Newest
  <2> QED
    BY <2>2, <2>3 DEF Abs!Next, Abs!Close
\* A refused call: the root is null.
<1>6. CASE FindLeaf(t) /\ rootSet
  <2>1. CallOf(t)' = CallOf(t)
    BY <1>6 DEF FindLeaf, CallOf, Answered
  <2> QED
    BY <1>3, <1>6, <2>1 DEF FindLeaf
<1>7. ASSUME FindLeaf(t), ~ rootSet PROVE Abs!Refuse(t)
  <2> DEFINE r == IF op[t].kind = "find" THEN Found(0) ELSE Retry
  <2>1. op'[t] = [op[t] EXCEPT !.res = r] /\ pc'[t] = "done"
    BY <1>7 DEF FindLeaf
  <2>2. op'[t].res = r
    BY <1>1, <2>1 DEF CallOK, IsOp
  <2>3. CallOf(t)' = [kind |-> "answered", result |-> r]
    BY <2>1, <2>2 DEF CallOf, Answered
  <2>4. [u \in Threads |-> CallOf(u)]'
          = [[u \in Threads |-> CallOf(u)] EXCEPT
                ![t] = [kind |-> "answered", result |-> r]]
    BY <1>2, <2>3, CallsChange
  <2>5. CallOf(t).kind = op[t].kind /\ op[t].kind \in Abs!Kinds
    BY <1>1, <1>7 DEF FindLeaf, CallOf, CallOK, Answered, Abs!Kinds
  <2>6. [j \in Keys |-> Newest(Len(chain), j)]' = [j \in Keys |-> Newest(Len(chain), j)]
        /\ UNCHANGED <<chain, rootSet>>
    BY <1>7 DEF FindLeaf, Newest
  <2>7. r = IF CallOf(t).kind = "find" THEN Abs!Found(0) ELSE Abs!Retry
    BY <2>5 DEF Found, Abs!Found, Retry, Abs!Retry
  <2> QED
    BY <1>7, <2>4, <2>5, <2>6, <2>7 DEF Abs!Refuse, Abs!Answer
<1>8. ASSUME LoadHead(t), op[t].kind = "find" PROVE Abs!Get(t)
  <2> DEFINE r == Found(Newest(Len(chain), op[t].key))
  <2>1. op'[t] = [op[t] EXCEPT !.res = r] /\ pc'[t] = "done"
    BY <1>8 DEF LoadHead
  <2>2. op'[t].res = r
    BY <1>1, <2>1 DEF CallOK, IsOp
  <2>3. CallOf(t)' = [kind |-> "answered", result |-> r]
    BY <2>1, <2>2 DEF CallOf, Answered
  <2>4. [u \in Threads |-> CallOf(u)]'
          = [[u \in Threads |-> CallOf(u)] EXCEPT
                ![t] = [kind |-> "answered", result |-> r]]
    BY <1>2, <2>3, CallsChange
  <2>5. /\ CallOf(t).kind = "find" /\ CallOf(t).key = op[t].key
        /\ ~ CallOf(t).late /\ op[t].key \in Keys
    BY <1>1, <1>8 DEF LoadHead, CallOf, CallOK, Answered
  <2>6. [j \in Keys |-> Newest(Len(chain), j)]' = [j \in Keys |-> Newest(Len(chain), j)]
        /\ UNCHANGED <<chain, rootSet>>
    BY <1>8 DEF LoadHead, Newest
  <2>7. r = Abs!Found([j \in Keys |-> Newest(Len(chain), j)][op[t].key])
    BY <2>5 DEF Found, Abs!Found
  <2> QED
    BY <2>4, <2>5, <2>6, <2>7 DEF Abs!Get, Abs!Answer
<1>9. CASE LoadHead(t) /\ op[t].kind # "find"
  <2>1. op'[t] = [op[t] EXCEPT !.head = Len(chain)] /\ pc[t] = "head" /\ pc'[t] = "push"
    BY <1>9 DEF LoadHead
  <2>2. SameCall(op[t], op'[t])
    BY <1>op, <2>1, OpFields
  <2>3. CallOf(t)' = CallOf(t)
    BY <2>1, <2>2 DEF CallOf, SameCall, Answered
  <2> QED
    BY <1>3, <1>9, <2>3 DEF LoadHead
\* A put takes effect when its delta is pushed.
<1>10. ASSUME Push(t) PROVE Abs!Put(t)
  <2>1. op'[t] = [op[t] EXCEPT !.res = Success] /\ pc'[t] = "count"
    BY <1>10 DEF Push
  <2>2. op'[t].res = Success
    BY <1>1, <2>1 DEF CallOK, IsOp
  <2>3. CallOf(t)' = [kind |-> "answered", result |-> Success]
    BY <2>1, <2>2 DEF CallOf, Answered
  <2>4. [u \in Threads |-> CallOf(u)]'
          = [[u \in Threads |-> CallOf(u)] EXCEPT
                ![t] = [kind |-> "answered", result |-> Success]]
    BY <1>2, <2>3, CallsChange
  <2>5. /\ CallOf(t).kind \in {"insert", "upsert"} /\ CallOf(t).key = op[t].key
        /\ ~ CallOf(t).late /\ op[t].key \in Keys
    BY <1>1, <1>10 DEF Push, CallOf, CallOK, Answered
  <2>6. Delta(t) \in Deltas /\ Delta(t).key = op[t].key
    BY <1>1, <1>10 DEF Push, Delta, Deltas, CallOK
  <2>7. chain' = Append(chain, Delta(t)) /\ rootSet' = rootSet
    BY <1>10 DEF Push
  <2>8. \A j \in Keys : Newest(Len(chain), j)'
            = IF op[t].key = j THEN Len(chain) + 1 ELSE Newest(Len(chain), j)
    BY <2>6, <2>7, NewestAppend
  <2>9. [j \in Keys |-> Newest(Len(chain), j)]'
          = [[j \in Keys |-> Newest(Len(chain), j)] EXCEPT ![op[t].key] = Len(chain) + 1]
    BY <2>8
  <2>10. Len(chain') = Len(chain) + 1
    BY <2>7
  <2>11. Success = Abs!Success
    BY DEF Success, Abs!Success
  <2> QED
    BY <2>4, <2>5, <2>7, <2>9, <2>10, <2>11 DEF Abs!Put, Abs!Answer
<1>11. CASE PushFails(t)
  <2>1. op'[t] = [op[t] EXCEPT !.head = Len(chain)] /\ pc'[t] = pc[t]
    BY <1>11 DEF PushFails
  <2>2. SameCall(op[t], op'[t])
    BY <1>op, <2>1, OpFields
  <2>3. CallOf(t)' = CallOf(t)
    BY <1>11, <2>1, <2>2 DEF PushFails, CallOf, SameCall, Answered
  <2> QED
    BY <1>3, <1>11, <2>3 DEF PushFails
\* What follows an answer changes nothing that Dictionary has.
<1>12. CASE CountChain(t) \/ RetireRoot(t)
  <2>1. CallOf(t)' = CallOf(t)
    BY <1>12 DEF CountChain, RetireRoot, CallOf, Answered
  <2> QED
    BY <1>3, <1>12, <2>1 DEF CountChain, RetireRoot
<1>13. CASE Consolidate(t) \/ MapPage(t)
  <2>1. PICK x : op'[t] = [op[t] EXCEPT !.page = x]
    BY <1>13 DEF Consolidate, MapPage
  <2>2. op'[t].res = op[t].res
    BY <1>1, <2>1 DEF CallOK, IsOp
  <2>3. pc[t] \in Answered /\ pc'[t] \in Answered
    BY <1>13 DEF Consolidate, MapPage, Answered
  <2>4. CallOf(t)' = CallOf(t)
    BY <2>2, <2>3 DEF CallOf, Answered
  <2> QED
    BY <1>3, <1>13, <2>4 DEF Consolidate, MapPage
<1>14. ASSUME Finish(t) PROVE Abs!Return(t)
  <2>1. CallOf(t).kind = "answered"
    BY <1>14 DEF Finish, CallOf, Answered
  <2>2. CallOf(t)' = [kind |-> "none"]
    BY <1>14 DEF Finish, CallOf
  <2>3. [u \in Threads |-> CallOf(u)]'
          = [[u \in Threads |-> CallOf(u)] EXCEPT ![t] = [kind |-> "none"]]
    BY <1>2, <2>2, CallsChange
  <2>4. [j \in Keys |-> Newest(Len(chain), j)]' = [j \in Keys |-> Newest(Len(chain), j)]
        /\ UNCHANGED <<chain, rootSet>>
    BY <1>14 DEF Finish, Newest
  <2> QED
    BY <2>1, <2>3, <2>4 DEF Abs!Return, Abs!NoCall
<1>15. CASE ResetSize(t)
  <2>1. CallOf(t)' = CallOf(t)
    BY <1>15 DEF ResetSize, CallOf
  <2> QED
    BY <1>3, <1>15, <2>1 DEF ResetSize
<1>16. CASE RStep(t) /\ UNCHANGED bvars
  BY <1>3, <1>16 DEF CallOf
<1> QED
  BY <1>4, <1>5, <1>6, <1>7, <1>8, <1>9, <1>10, <1>11, <1>12, <1>13, <1>14,
     <1>15, <1>16 DEF Thread, Step, Abs!Next

LEMMA NextAbs == Calls /\ [Next]_vars => [Abs!Next]_(Abs!vars)
<1> SUFFICES ASSUME Calls, [Next]_vars PROVE [Abs!Next]_(Abs!vars)
  OBVIOUS
<1>1. CASE Next
  BY <1>1, StepAbs DEF Next, Thread
<1>2. CASE UNCHANGED vars
  <2>1. UNCHANGED <<rootSet, chain, pc, op>>
    BY <1>2 DEF vars, bvars
  <2> QED
    BY <2>1 DEF Abs!vars, Newest, CallOf
<1> QED
  BY <1>1, <1>2

\* Seen from its callers the tree is a dictionary in which each call takes
\* effect at one instant, whatever pushes and consolidations overlap
\* (bw_tree.hpp:254-267, 338-368).
THEOREM Linearizable == Spec => IsDictionary
<1>1. Init => Abs!Init
  <2> SUFFICES ASSUME Init PROVE Abs!Init
    OBVIOUS
  <2>1. \A j \in Keys : Newest(Len(chain), j) = 0
    <3>1. Len(chain) = 0 /\ 1 .. 0 = {}
      BY DEF Init
    <3>2. \A j \in Keys : Newest(Len(chain), j) = Max({0})
      BY <3>1 DEF Newest
    <3>3. Max({0}) = 0
      BY DEF Max
    <3> QED
      BY <3>2, <3>3
  <2>2. \A t \in Threads : CallOf(t) = [kind |-> "none"]
    BY DEF Init, CallOf
  <2> QED
    BY <2>1, <2>2 DEF Init, Abs!Init, Abs!NoCall
<1> QED
  BY <1>1, InitCalls, NextCalls, NextAbs, PTL DEF Spec, IsDictionary, Abs!Spec
-----------------------------------------------------------------------------
\* The consolidated page.

\* A set of natural numbers has a smallest one, which is its Min.
LEMMA Smallest ==
  ASSUME NEW T \in SUBSET Nat, T # {}
  PROVE  Min(T) \in T /\ \A y \in T : Min(T) <= y
<1>1. PICK x \in T : \A y \in T : ~ (<<y, x>> \in OpToRel(<, Nat))
  BY NatLessThanWellFounded, WFMin
<1>2. ASSUME NEW y \in T PROVE x <= y
  <2>1. ~ (y < x)
    BY <1>1 DEF OpToRel
  <2> QED
    BY <2>1
<1> QED
  BY <1>2 DEF Min

Entries == [key : Keys, value : Nat]

\* Every entry of the page is a delta of its key in the chain c.
OfChain(c, page) ==
    \A i \in 1 .. Len(page) : page[i].value \in 1 .. Len(c) /\ c[page[i].value].key = page[i].key

\* A page to which the deltas of c after m have been applied, the newest first:
\* keys in order, no delta twice, all of them after m.
PageOK(c, page, m) ==
    /\ page \in Seq(Entries)
    /\ OfChain(c, page)
    /\ \A i \in 1 .. Len(page) : page[i].value > m
    /\ \A i, j \in 1 .. Len(page) : i < j =>
        /\ page[i].key <= page[j].key
        /\ page[i].key = page[j].key => page[i].value < page[j].value

\* A longer chain still has the deltas of the page.
LEMMA PageStays ==
  ASSUME NEW c \in Seq(Deltas), NEW d \in Deltas, NEW page, NEW m, PageOK(c, page, m)
  PROVE  PageOK(Append(c, d), page, m)
<1> DEFINE e == Append(c, d)
<1>1. Len(e) = Len(c) + 1 /\ \A i \in 1 .. Len(c) : e[i] = c[i]
  OBVIOUS
<1>2. OfChain(c, page) /\ Len(c) \in Nat
  BY DEF PageOK
<1> HIDE DEF e
<1>3. OfChain(e, page)
  BY <1>1, <1>2 DEF OfChain
<1>4. PageOK(e, page, m)
  BY <1>3 DEF PageOK
<1> QED
  BY <1>4 DEF e

LEMMA PageFields ==
  ASSUME NEW m \in Nat, NEW page, PageOK(chain, page, m)
  PROVE  /\ Len(page) \in Nat
         /\ \A j \in 1 .. Len(page) :
                /\ page[j].key \in Nat /\ page[j].value \in Nat /\ page[j].value > m
                /\ page[j] = [key |-> page[j].key, value |-> page[j].value]
                /\ page[j].key \in Keys
<1>1. page \in Seq(Entries) /\ \A j \in 1 .. Len(page) : page[j].value > m
  BY DEF PageOK
<1>2. \A j \in 1 .. Len(page) : page[j] \in Entries
  BY <1>1
<1>3. \A e \in Entries : /\ e.key \in Keys /\ e.value \in Nat
                         /\ e = [key |-> e.key, value |-> e.value]
  BY DEF Entries
<1> QED
  BY <1>1, <1>2, <1>3, KeysAssumption

\* In a page in order the keys below k come first, and addKey puts k behind them.
LEMMA SmallerKeys ==
  ASSUME NEW m \in Nat, NEW page, PageOK(chain, page, m), NEW k \in Keys
  PROVE  LET n == Cardinality({j \in 1 .. Len(page) : page[j].key < k})
         IN  /\ n \in 0 .. Len(page)
             /\ \A j \in 1 .. n : page[j].key < k
             /\ \A j \in n + 1 .. Len(page) : k <= page[j].key
<1> DEFINE B == {j \in 1 .. Len(page) : page[j].key < k}
           T == {j \in 1 .. Len(page) + 1 : j \notin B}
           q == Min(T)
<1>1. /\ Len(page) \in Nat /\ k \in Nat
      /\ \A j \in 1 .. Len(page) : page[j].key \in Nat
  BY KeysAssumption, PageFields
<1>2. T \in SUBSET Nat /\ Len(page) + 1 \in T
  BY <1>1
<1>3. q \in T /\ \A y \in T : q <= y
  <2> HIDE DEF T
  <2> QED
    BY <1>2, Smallest
<1>4. q \in 1 .. Len(page) + 1 /\ q \notin B
  BY <1>3
<1>5. ASSUME NEW j \in 1 .. q - 1 PROVE j \in B
  <2>1. j \in 1 .. Len(page) + 1 /\ ~ (q <= j)
    BY <1>1, <1>4
  <2> QED
    BY <1>3, <2>1
<1>6. ASSUME NEW j \in q .. Len(page) PROVE k <= page[j].key
  <2>1. q \in 1 .. Len(page) /\ j \in 1 .. Len(page) /\ q <= j
    BY <1>1, <1>4
  <2>2. k <= page[q].key
    <3>1. ~ (page[q].key < k)
      BY <1>4, <2>1
    <3> HIDE DEF q
    <3>2. page[q].key \in Nat /\ k \in Nat
      BY <1>1, <2>1
    <3> QED
      BY <3>1, <3>2
  <2>3. page[q].key <= page[j].key
    BY <1>1, <2>1 DEF PageOK
  <2> QED
    BY <1>1, <2>1, <2>2, <2>3
<1>7. B = 1 .. q - 1
  <2>1. ASSUME NEW j \in B PROVE j \in 1 .. q - 1
    <3>1. j \in 1 .. Len(page) /\ page[j].key < k
      OBVIOUS
    <3>2. ~ (k <= page[j].key)
      BY <1>1, <3>1
    <3>3. ~ (j \in q .. Len(page))
      BY <1>6, <3>2
    <3> QED
      BY <1>1, <1>4, <3>1, <3>3
  <2> QED
    BY <1>5, <2>1
<1>8. Cardinality(B) = q - 1
  <2>1. 1 \in Int /\ q - 1 \in Int /\ q - 1 >= 0
    BY <1>1, <1>4
  <2>2. Cardinality(1 .. q - 1) = q - 1
    BY <2>1, FS_Interval
  <2> QED
    BY <1>7, <2>2
<1>9. ASSUME NEW j \in 1 .. q - 1 PROVE page[j].key < k
  BY <1>5
<1> HIDE DEF B, T, q
<1>10. q - 1 \in 0 .. Len(page) /\ (q - 1) + 1 = q
  BY <1>1, <1>4
<1> QED
  BY <1>6, <1>8, <1>9, <1>10 DEF B

LEMMA Joined ==
  ASSUME NEW s \in Seq(Entries), NEW u \in Seq(Entries)
  PROVE  /\ s \o u \in Seq(Entries) /\ Len(s \o u) = Len(s) + Len(u)
         /\ \A j \in 1 .. Len(s) + Len(u) :
                (s \o u)[j] = IF j <= Len(s) THEN s[j] ELSE u[j - Len(s)]
OBVIOUS

\* What addKey makes of a page that is not full.
LEMMA Inserted ==
  ASSUME NEW page \in Seq(Entries), NEW n \in 0 .. Len(page), NEW e \in Entries
  PROVE  /\ InsertAt(page, n + 1, e) \in Seq(Entries)
         /\ Len(InsertAt(page, n + 1, e)) = Len(page) + 1
         /\ \A j \in 1 .. Len(page) + 1 :
                InsertAt(page, n + 1, e)[j] =
                    IF j <= n THEN page[j] ELSE IF j = n + 1 THEN e ELSE page[j - 1]
<1> DEFINE a == SubSeq(page, 1, n)
           b == SubSeq(page, n + 1, Len(page))
<1>0. n \in Nat /\ Len(page) \in Nat
  OBVIOUS
<1>1. /\ a \in Seq(Entries) /\ Len(a) = n
      /\ \A j \in 1 .. n : a[j] = page[j]
  OBVIOUS
<1>2. /\ b \in Seq(Entries) /\ Len(b) = Len(page) - n
      /\ \A j \in 1 .. Len(page) - n : b[j] = page[n + j]
  OBVIOUS
<1>3. InsertAt(page, n + 1, e) = a \o <<e>> \o b
  <2>1. (n + 1) - 1 = n
    OBVIOUS
  <2> QED
    BY <2>1 DEF InsertAt
<1> HIDE DEF a, b
<1> DEFINE c == a \o <<e>>
<1>4. /\ c \in Seq(Entries) /\ Len(c) = n + 1
      /\ \A j \in 1 .. n : c[j] = page[j]
      /\ c[n + 1] = e
  BY <1>1
<1> HIDE DEF c
<1>5. /\ c \o b \in Seq(Entries) /\ Len(c \o b) = Len(page) + 1
      /\ \A j \in 1 .. n + 1 : (c \o b)[j] = c[j]
      /\ \A j \in n + 2 .. Len(page) + 1 : (c \o b)[j] = b[j - (n + 1)]
  <2>1. c \in Seq(Entries) /\ b \in Seq(Entries) /\ Len(c) = n + 1 /\ Len(b) = Len(page) - n
    BY <1>2, <1>4
  <2>2. c \o b \in Seq(Entries) /\ Len(c \o b) = Len(page) + 1
    <3>1. c \o b \in Seq(Entries) /\ Len(c \o b) = Len(c) + Len(b)
      BY <2>1, Joined
    <3> QED
      BY <1>0, <2>1, <3>1
  <2>3. \A j \in 1 .. Len(c) + Len(b) :
            (c \o b)[j] = IF j <= Len(c) THEN c[j] ELSE b[j - Len(c)]
    BY <2>1, Joined
  <2>4. \A j \in 1 .. n + 1 : (c \o b)[j] = c[j]
    BY <1>0, <1>2, <1>4, <2>3
  <2>5. \A j \in n + 2 .. Len(page) + 1 : (c \o b)[j] = b[j - (n + 1)]
    BY <1>0, <1>2, <1>4, <2>3
  <2> QED
    BY <2>2, <2>4, <2>5
<1>6. ASSUME NEW j \in 1 .. Len(page) + 1
      PROVE  (c \o b)[j] = IF j <= n THEN page[j] ELSE IF j = n + 1 THEN e ELSE page[j - 1]
  <2>1. CASE j <= n
    BY <1>4, <1>5, <2>1
  <2>2. CASE j = n + 1
    BY <1>4, <1>5, <2>2
  <2>3. CASE j > n + 1
    <3>1. (c \o b)[j] = b[j - (n + 1)] /\ j - (n + 1) \in 1 .. Len(page) - n
      BY <1>5, <2>3
    <3>2. n + (j - (n + 1)) = j - 1
      OBVIOUS
    <3> QED
      BY <1>2, <2>3, <3>1, <3>2
  <2>4. j <= n \/ j = n + 1 \/ j > n + 1
    BY <1>0
  <2> QED
    BY <2>1, <2>2, <2>3, <2>4
<1> DEFINE d == c \o b
<1>7. InsertAt(page, n + 1, e) = d
  BY <1>3 DEF c
<1>8. d \in Seq(Entries) /\ Len(d) = Len(page) + 1
  BY <1>5
<1>9. \A j \in 1 .. Len(page) + 1 :
        d[j] = IF j <= n THEN page[j] ELSE IF j = n + 1 THEN e ELSE page[j - 1]
  BY <1>6
<1> HIDE DEF d
<1> QED
  BY <1>7, <1>8, <1>9

LEMMA AddKeyOK ==
  ASSUME NEW v \in Nat \ {0}, NEW page, PageOK(chain, page, v), NEW k \in Keys,
         v \in 1 .. Len(chain), chain[v].key = k
  PROVE  PageOK(chain, AddKey(page, k, v), v - 1)
<1> DEFINE n == Cardinality({j \in 1 .. Len(page) : page[j].key < k})
           e == [key |-> k, value |-> v]
           new == InsertAt(page, n + 1, e)
<1>1. /\ Len(page) \in Nat /\ k \in Nat
      /\ \A j \in 1 .. Len(page) : page[j].key \in Nat /\ page[j].value \in Nat
  BY KeysAssumption, PageFields
<1>2. CASE Len(page) >= MaxKeys
  <2>1. AddKey(page, k, v) = page
    BY <1>2 DEF AddKey
  <2>2. \A i \in 1 .. Len(page) : page[i].value > v - 1
    BY <1>1 DEF PageOK
  <2> QED
    BY <2>1, <2>2 DEF PageOK
<1>3. CASE ~ (Len(page) >= MaxKeys)
  <2>1. AddKey(page, k, v) = new
    BY <1>3 DEF AddKey
  <2>2. /\ n \in 0 .. Len(page)
        /\ \A j \in 1 .. n : page[j].key < k
        /\ \A j \in n + 1 .. Len(page) : k <= page[j].key
    BY SmallerKeys
  <2>3. page \in Seq(Entries) /\ e \in Entries /\ e.key = k /\ e.value = v
    BY DEF PageOK, Entries
  <2> HIDE DEF n, e
  <2>4. /\ new \in Seq(Entries) /\ Len(new) = Len(page) + 1
        /\ \A j \in 1 .. Len(page) + 1 : new[j] =
                IF j <= n THEN page[j] ELSE IF j = n + 1 THEN e ELSE page[j - 1]
    <3>1. page \in Seq(Entries) /\ n \in 0 .. Len(page) /\ e \in Entries
      BY <2>2, <2>3
    <3>2. /\ InsertAt(page, n + 1, e) \in Seq(Entries)
          /\ Len(InsertAt(page, n + 1, e)) = Len(page) + 1
          /\ \A j \in 1 .. Len(page) + 1 :
                InsertAt(page, n + 1, e)[j] =
                    IF j <= n THEN page[j] ELSE IF j = n + 1 THEN e ELSE page[j - 1]
      BY <3>1, Inserted
    <3> QED
      BY <3>2
  <2> HIDE DEF new
  <2>5. ASSUME NEW i \in 1 .. Len(new) PROVE new[i].value > v - 1
    <3>1. CASE i = n + 1
      <4>1. new[i] = e
        BY <2>2, <2>4, <3>1
      <4> QED
        BY <2>3, <4>1
    <3>2. CASE i <= n
      <4>1. new[i] = page[i] /\ i \in 1 .. Len(page)
        BY <2>2, <2>4, <3>2
      <4> QED
        BY <1>1, <4>1 DEF PageOK
    <3>3. CASE i > n + 1
      <4>1. new[i] = page[i - 1] /\ i - 1 \in 1 .. Len(page)
        BY <1>1, <2>2, <2>4, <3>3
      <4> QED
        BY <1>1, <4>1 DEF PageOK
    <3> QED
      BY <2>2, <3>1, <3>2, <3>3
  <2>6. ASSUME NEW i \in 1 .. Len(new), NEW j \in 1 .. Len(new), i < j
        PROVE  /\ new[i].key <= new[j].key
               /\ new[i].key = new[j].key => new[i].value < new[j].value
    <3>1. n \in Nat /\ i \in Nat /\ j \in Nat
      BY <2>2
    <3>2. CASE j <= n
      <4>1. new[i] = page[i] /\ new[j] = page[j] /\ i \in 1 .. Len(page) /\ j \in 1 .. Len(page)
        BY <1>1, <2>2, <2>4, <2>6, <3>2
      <4> QED
        BY <2>6, <4>1 DEF PageOK
    <3>3. CASE j = n + 1
      <4>1. new[i] = page[i] /\ new[j] = e /\ i \in 1 .. n
        BY <1>1, <2>2, <2>4, <2>6, <3>3
      <4>2. page[i].key < k /\ page[i].key \in Nat
        BY <1>1, <2>2, <4>1
      <4> QED
        BY <1>1, <2>3, <4>1, <4>2
    <3>4. CASE i <= n /\ j > n + 1
      <4>1. new[i] = page[i] /\ new[j] = page[j - 1] /\ i \in 1 .. Len(page)
            /\ j - 1 \in 1 .. Len(page) /\ i < j - 1
        BY <1>1, <2>2, <2>4, <3>1, <3>4
      <4> QED
        BY <4>1 DEF PageOK
    <3>5. CASE i = n + 1
      <4>1. new[i] = e /\ new[j] = page[j - 1] /\ j - 1 \in n + 1 .. Len(page) /\ j - 1 \in 1 .. Len(page)
        BY <1>1, <2>2, <2>4, <2>6, <3>5
      <4>2. k <= page[j - 1].key
        BY <2>2, <4>1
      <4>3. v < page[j - 1].value
        BY <1>1, <4>1 DEF PageOK
      <4> QED
        BY <2>3, <4>1, <4>2, <4>3
    <3>6. CASE i > n + 1
      <4>1. new[i] = page[i - 1] /\ new[j] = page[j - 1] /\ i - 1 \in 1 .. Len(page)
            /\ j - 1 \in 1 .. Len(page) /\ i - 1 < j - 1
        BY <1>1, <2>2, <2>4, <2>6, <3>6
      <4> QED
        BY <4>1 DEF PageOK
    <3> QED
      BY <2>6, <3>1, <3>2, <3>3, <3>4, <3>5, <3>6
  <2>7. ASSUME NEW i \in 1 .. Len(new)
        PROVE  new[i].value \in 1 .. Len(chain) /\ chain[new[i].value].key = new[i].key
    <3>1. new[i] = e \/ \E j \in 1 .. Len(page) : new[i] = page[j]
      <4>1. CASE i <= n
        BY <1>1, <2>2, <2>4, <4>1
      <4>2. CASE i > n + 1
        <5>1. new[i] = page[i - 1] /\ i - 1 \in 1 .. Len(page)
          BY <1>1, <2>2, <2>4, <4>2
        <5> QED
          BY <5>1
      <4>3. CASE i = n + 1
        BY <2>2, <2>4, <4>3
      <4> QED
        BY <2>2, <4>1, <4>2, <4>3
    <3>2. OfChain(chain, page)
      BY DEF PageOK
    <3> QED
      BY <2>3, <3>1, <3>2 DEF OfChain
  <2>8. OfChain(chain, new)
    BY <2>7 DEF OfChain
  <2> QED
    BY <2>1, <2>4, <2>5, <2>6, <2>8 DEF PageOK
<1> QED
  BY <1>2, <1>3

\* An update gives the first entry of the key an older value.
LEMMA UpdateOK ==
  ASSUME NEW v \in Nat \ {0}, NEW page, PageOK(chain, page, v), NEW delta \in Deltas,
         delta.type # "INSERT", v \in 1 .. Len(chain), chain[v] = delta
  PROVE  PageOK(chain, Apply(page, delta, v), v - 1)
<1> DEFINE B == {j \in 1 .. Len(page) : page[j].key = delta.key}
           q == Entry(page, delta.key)
<1>0. /\ page \in Seq(Entries)
      /\ \A j \in 1 .. Len(page) :
            /\ page[j] = [key |-> page[j].key, value |-> page[j].value]
            /\ page[j].key \in Keys
  <2>1. page \in Seq(Entries)
    BY DEF PageOK
  <2> QED
    BY <2>1, PageFields
<1>1. /\ Len(page) \in Nat
      /\ \A j \in 1 .. Len(page) :
            page[j].key \in Nat /\ page[j].value \in Nat /\ page[j].value > v
  BY PageFields
<1>2. Apply(page, delta, v) = IF q = 0 THEN page ELSE [page EXCEPT ![q].value = v]
  BY DEF Apply
<1>3. q = IF B # {} THEN Min(B) ELSE 0
  BY DEF Entry, SelectInSeq
<1>4. CASE B = {}
  <2>1. Apply(page, delta, v) = page
    BY <1>2, <1>3, <1>4
  <2>2. \A i \in 1 .. Len(page) : page[i].value > v - 1
    BY <1>1
  <2> QED
    BY <2>1, <2>2 DEF PageOK
<1>5. CASE B # {}
  <2>1. B \in SUBSET Nat
    BY <1>1
  <2>2. Min(B) \in B /\ \A y \in B : Min(B) <= y
    <3> HIDE DEF B
    <3> QED
      BY <1>5, <2>1, Smallest
  <2>3. q \in B /\ \A y \in B : q <= y
    BY <1>3, <1>5, <2>2
  <2> HIDE DEF q
  <2>4. q \in 1 .. Len(page) /\ q # 0 /\ page[q].key = delta.key
        /\ \A j \in 1 .. Len(page) : page[j].key = delta.key => q <= j
    BY <1>1, <2>3
  <2> DEFINE new == [page EXCEPT ![q].value = v]
  <2>5. Apply(page, delta, v) = new
    BY <1>2, <2>4
  <2>6. /\ Len(new) = Len(page) /\ DOMAIN new = 1 .. Len(page)
        /\ new[q].key = delta.key /\ new[q].value = v
        /\ \A j \in 1 .. Len(page) : j # q => new[j] = page[j]
    <3>1. page[q] = [key |-> page[q].key, value |-> page[q].value]
      BY <1>0, <2>4
    <3>2. DOMAIN page = 1 .. Len(page) /\ page = [j \in 1 .. Len(page) |-> page[j]]
      BY <1>0
    <3>3. new = [j \in 1 .. Len(page) |-> IF j = q THEN [page[q] EXCEPT !.value = v] ELSE page[j]]
      BY <2>4, <3>2
    <3> QED
      BY <1>1, <2>4, <3>1, <3>3
  <2>7. new \in Seq(Entries)
    <3>1. page[q] = [key |-> page[q].key, value |-> page[q].value] /\ page[q].key \in Keys
      BY <1>0, <2>4
    <3>2. [page[q] EXCEPT !.value = v] = [key |-> page[q].key, value |-> v]
      BY <3>1
    <3>3. [page[q] EXCEPT !.value = v] \in Entries
      BY <3>1, <3>2 DEF Entries
    <3> QED
      BY <1>0, <2>4, <3>3
  <2> HIDE DEF new, B
  <2>8. \A i \in 1 .. Len(new) : new[i].value > v - 1
    BY <1>1, <2>6
  <2>9. ASSUME NEW i \in 1 .. Len(new), NEW j \in 1 .. Len(new), i < j
        PROVE  /\ new[i].key <= new[j].key
               /\ new[i].key = new[j].key => new[i].value < new[j].value
    <3>1. /\ page[i].key <= page[j].key
          /\ page[i].key = page[j].key => page[i].value < page[j].value
      BY <2>6, <2>9 DEF PageOK
    <3>2. new[i].key = page[i].key /\ new[j].key = page[j].key
      BY <2>4, <2>6
    <3>3. CASE i = q
      <4>1. new[i].value = v /\ new[j].value = page[j].value /\ v < page[j].value
        BY <1>1, <2>6, <2>9, <3>3
      <4> QED
        BY <3>1, <3>2, <4>1
    <3>4. CASE j = q
      <4>1. page[i].key # page[j].key
        BY <2>4, <2>6, <2>9, <3>4
      <4> QED
        BY <3>1, <3>2, <4>1
    <3>5. CASE i # q /\ j # q
      BY <2>6, <3>1, <3>5
    <3> QED
      BY <3>3, <3>4, <3>5
  <2>10. OfChain(chain, new)
    <3>1. OfChain(chain, page)
      BY DEF PageOK
    <3>2. ASSUME NEW i \in 1 .. Len(new)
          PROVE  new[i].value \in 1 .. Len(chain) /\ chain[new[i].value].key = new[i].key
      <4>1. CASE i = q
        BY <2>6, <4>1
      <4>2. CASE i # q
        BY <2>6, <3>1, <4>2 DEF OfChain
      <4> QED
        BY <4>1, <4>2
    <3> QED
      BY <3>2 DEF OfChain
  <2> QED
    BY <2>5, <2>7, <2>8, <2>9, <2>10 DEF PageOK
<1> QED
  BY <1>4, <1>5

LEMMA ApplyOK ==
  ASSUME NEW v \in Nat \ {0}, NEW page, PageOK(chain, page, v), NEW delta \in Deltas,
         v \in 1 .. Len(chain), chain[v] = delta
  PROVE  PageOK(chain, Apply(page, delta, v), v - 1)
<1>1. CASE delta.type = "INSERT"
  <2>1. delta.key \in Keys /\ Apply(page, delta, v) = AddKey(page, delta.key, v)
    BY <1>1 DEF Apply, Deltas
  <2> QED
    BY <2>1, AddKeyOK
<1>2. CASE delta.type # "INSERT"
  BY <1>2, UpdateOK
<1> QED
  BY <1>1, <1>2

\* The pages of the walk from the delta h, after 0 .. n deltas.
Walk(p, h, n) ==
    p = [i \in 0 .. n |-> IF i = 0 THEN << >>
                          ELSE Apply(p[i - 1], chain[h + 1 - i], h + 1 - i)]

LEMMA ConsolidatedIsWalk ==
  ASSUME NEW h
  PROVE  Consolidated(h) = (CHOOSE p : Walk(p, h, h))[h]
BY DEF Consolidated, Walk

LEMMA WalkExists ==
  ASSUME NEW h \in Nat, NEW n \in Nat
  PROVE  \E p : Walk(p, h, n)
<1> DEFINE B == {m \in Nat : ~ \E p : Walk(p, h, m)}
<1> SUFFICES ASSUME B # {} PROVE FALSE
  OBVIOUS
<1> DEFINE m == Min(B)
<1>1. m \in B /\ \A y \in B : m <= y
  <2>1. B \in SUBSET Nat
    OBVIOUS
  <2> HIDE DEF B
  <2> QED
    BY <2>1, Smallest
<1>2. m \in Nat /\ ~ \E p : Walk(p, h, m)
  BY <1>1
<1>3. \A y \in Nat : y < m => \E p : Walk(p, h, y)
  BY <1>1
<1> HIDE DEF m, B
<1>4. CASE m = 0
  <2> DEFINE p == [i \in 0 .. 0 |-> << >>]
  <2>1. p = [i \in 0 .. 0 |-> IF i = 0 THEN << >>
                              ELSE Apply(p[i - 1], chain[h + 1 - i], h + 1 - i)]
    OBVIOUS
  <2> HIDE DEF p
  <2>2. Walk(p, h, 0)
    BY <2>1 DEF Walk
  <2> QED
    BY <1>2, <1>4, <2>2
<1>5. CASE m # 0
  <2>1. m - 1 \in Nat /\ m - 1 < m
    BY <1>2, <1>5
  <2>2. PICK q : Walk(q, h, m - 1)
    BY <1>3, <2>1
  <2> DEFINE D(f, i) == Apply(f[i - 1], chain[h + 1 - i], h + 1 - i)
             p == [i \in 0 .. m |-> IF i = m THEN D(q, m) ELSE q[i]]
             r == [i \in 0 .. m |-> IF i = 0 THEN << >> ELSE D(p, i)]
  <2>3. ASSUME NEW i \in 0 .. m PROVE p[i] = r[i]
    <3>1. i \in Nat
      BY <1>2
    <3>2. CASE i = 0
      <4>1. p[i] = q[0] /\ 0 \in 0 .. m - 1
        BY <1>2, <1>5, <2>1, <3>2
      <4>2. q[0] = << >>
        BY <2>2, <4>1 DEF Walk
      <4> QED
        BY <3>2, <4>1, <4>2
    <3>3. CASE i = m
      <4>1. p[m - 1] = q[m - 1]
        BY <1>2, <2>1
      <4>2. D(p, m) = D(q, m)
        BY <4>1
      <4>3. p[i] = D(q, m) /\ r[i] = D(p, m)
        BY <1>2, <1>5, <3>3
      <4> QED
        BY <4>2, <4>3
    <3>4. CASE i # 0 /\ i # m
      <4>1. i \in 0 .. m - 1 /\ i - 1 \in 0 .. m /\ i - 1 # m
        BY <1>2, <3>1, <3>4
      <4>2. p[i] = q[i] /\ p[i - 1] = q[i - 1]
        BY <3>4, <4>1
      <4>3. q[i] = D(q, i)
        BY <2>2, <3>4, <4>1 DEF Walk
      <4>4. D(p, i) = D(q, i)
        BY <4>2
      <4>5. r[i] = D(p, i)
        BY <3>4
      <4> QED
        BY <4>2, <4>3, <4>4, <4>5
    <3> QED
      BY <3>2, <3>3, <3>4
  <2>4. p = r
    <3>1. p = [i \in 0 .. m |-> p[i]] /\ r = [i \in 0 .. m |-> r[i]]
      OBVIOUS
    <3> HIDE DEF p, r
    <3> QED
      BY <2>3, <3>1
  <2>5. p = [i \in 0 .. m |-> IF i = 0 THEN << >>
                              ELSE Apply(p[i - 1], chain[h + 1 - i], h + 1 - i)]
    BY <2>4
  <2> HIDE DEF p, r
  <2>6. Walk(p, h, m)
    BY <2>5 DEF Walk
  <2> QED
    BY <1>2, <2>6
<1> QED
  BY <1>4, <1>5

LEMMA WalkOK ==
  ASSUME chain \in Seq(Deltas), NEW h \in 0 .. Len(chain), NEW p, Walk(p, h, h)
  PROVE  PageOK(chain, p[h], 0)
<1> DEFINE B == {i \in 0 .. h : ~ PageOK(chain, p[i], h - i)}
<1> SUFFICES ASSUME B # {} PROVE FALSE
  <2>1. B = {}
    OBVIOUS
  <2>2. h \in 0 .. h /\ h - h = 0
    OBVIOUS
  <2> QED
    BY <2>1, <2>2
<1> DEFINE m == Min(B)
<1>1. m \in B /\ \A y \in B : m <= y
  <2>1. B \in SUBSET Nat
    OBVIOUS
  <2> HIDE DEF B
  <2> QED
    BY <2>1, Smallest
<1>2. m \in 0 .. h /\ ~ PageOK(chain, p[m], h - m)
  BY <1>1
<1>3. \A y \in 0 .. h : y < m => PageOK(chain, p[y], h - y)
  BY <1>1, <1>2
<1> HIDE DEF m, B
<1>4. m # 0
  <2>1. p[0] = << >>
    BY DEF Walk
  <2>2. PageOK(chain, << >>, h)
    BY DEF PageOK, OfChain
  <2> QED
    BY <1>2, <2>1, <2>2
<1> DEFINE v == h + 1 - m
<1>5. /\ m - 1 \in 0 .. h /\ m - 1 < m /\ h - (m - 1) = v /\ v \in Nat \ {0}
      /\ v \in 1 .. Len(chain) /\ v - 1 = h - m
  BY <1>2, <1>4
<1>6. PageOK(chain, p[m - 1], v)
  BY <1>3, <1>5
<1>7. p[m] = Apply(p[m - 1], chain[v], v)
  BY <1>2, <1>4 DEF Walk
<1>8. chain[v] \in Deltas
  BY <1>5
<1> HIDE DEF v
<1>9. PageOK(chain, Apply(p[m - 1], chain[v], v), v - 1)
  BY <1>5, <1>6, <1>8, ApplyOK
<1> QED
  BY <1>2, <1>5, <1>7, <1>9

LEMMA ConsolidatedOK ==
  ASSUME chain \in Seq(Deltas), NEW h \in 0 .. Len(chain)
  PROVE  PageOK(chain, Consolidated(h), 0)
<1> DEFINE p == CHOOSE p : Walk(p, h, h)
<1>1. h \in Nat
  OBVIOUS
<1>2. Walk(p, h, h)
  BY <1>1, WalkExists
<1> HIDE DEF p
<1>3. PageOK(chain, p[h], 0)
  BY <1>2, WalkOK
<1> QED
  BY <1>3, ConsolidatedIsWalk DEF p

\* Every page is in order, also one that is about to be mapped.
Pages ==
    /\ PageOK(chain, mapped, 0)
    /\ \A t \in Threads : PageOK(chain, op[t].page, 0)

LEMMA EmptyPage == PageOK(chain, << >>, 0)
BY DEF PageOK, OfChain

LEMMA StepPages ==
  ASSUME Calls, Pages, NEW t \in Threads, Thread(t)
  PROVE  Pages'
<1> USE DEF Calls, Pages, Ready, Become, Tree, bvars
<1>0. chain' = chain \/ \E d \in Deltas : chain' = Append(chain, d)
  <2>1. CASE Push(t)
    BY <2>1 DEF Push, Delta, Deltas, CallOK
  <2>2. CASE ~ Push(t)
    BY <2>2 DEF Thread, Start, StartClear, Step, FindLeaf, LoadHead, PushFails, CountChain,
                Consolidate, MapPage, RetireRoot, Finish, ResetSize
  <2> QED
    BY <2>1, <2>2
<1>K. ASSUME NEW g, PageOK(chain, g, 0) PROVE PageOK(chain', g, 0)
  BY <1>0, <1>K, PageStays
<1>1. ASSUME NEW r, op' = [op EXCEPT ![t] = r], PageOK(chain, r.page, 0), UNCHANGED mapped
      PROVE  Pages'
  <2>1. \A u \in Threads : op'[u] = IF u = t THEN r ELSE op[u]
    BY <1>1
  <2> QED
    BY <1>K, <1>1, <2>1
<1>2. IsOp(op[t]) /\ PageOK(chain, op[t].page, 0)
  BY DEF CallOK
<1>3. ASSUME NEW kind \in Kinds \ {"clear"}, NEW k \in Keys, Start(t, kind, k)
      PROVE  Pages'
  <2> DEFINE r == [NoOp EXCEPT !.kind = kind, !.key = k, !.late = ~ rootSet]
  <2>1. r.page = << >>
    BY DEF NoOp
  <2>2. op' = [op EXCEPT ![t] = r] /\ UNCHANGED mapped
    BY <1>3 DEF Start
  <2> HIDE DEF r
  <2> QED
    BY <1>1, <2>1, <2>2, EmptyPage
<1>4. CASE Consolidate(t)
  <2> DEFINE g == Consolidated(Len(chain))
             r == [op[t] EXCEPT !.page = g]
  <2>1. PageOK(chain, g, 0)
    <3>1. Len(chain) \in 0 .. Len(chain)
      OBVIOUS
    <3> QED
      BY <3>1, ConsolidatedOK
  <2>2. op' = [op EXCEPT ![t] = r] /\ UNCHANGED mapped
    BY <1>4 DEF Consolidate
  <2> HIDE DEF g
  <2>3. r.page = g
    BY <1>2 DEF IsOp
  <2> HIDE DEF r
  <2> QED
    BY <1>1, <2>1, <2>2, <2>3
<1>5. CASE MapPage(t)
  <2> DEFINE r == [op[t] EXCEPT !.page = << >>]
  <2>1. op' = [op EXCEPT ![t] = r] /\ mapped' = op[t].page
    BY <1>5 DEF MapPage
  <2>2. r.page = << >>
    BY <1>2 DEF IsOp
  <2> HIDE DEF r
  <2>3. \A u \in Threads : op'[u] = IF u = t THEN r ELSE op[u]
    BY <2>1
  <2> QED
    BY <1>K, <1>2, <2>1, <2>2, <2>3, EmptyPage
<1>6. CASE Finish(t)
  <2>1. op' = [op EXCEPT ![t] = NoOp] /\ UNCHANGED mapped
    BY <1>6 DEF Finish
  <2>2. NoOp.page = << >>
    BY DEF NoOp
  <2> QED
    BY <1>1, <2>1, <2>2, EmptyPage
<1>7. ASSUME NEW x, UNCHANGED mapped,
             (op' = [op EXCEPT ![t].res = x]) \/ (op' = [op EXCEPT ![t].head = x])
      PROVE  Pages'
  <2>1. PICK r : /\ op' = [op EXCEPT ![t] = r]
                 /\ (r = [op[t] EXCEPT !.res = x]) \/ (r = [op[t] EXCEPT !.head = x])
    BY <1>7
  <2>2. r.page = op[t].page
    BY <1>2, <2>1 DEF IsOp
  <2> QED
    BY <1>1, <1>2, <1>7, <2>1, <2>2
<1>8. CASE FindLeaf(t)
  BY <1>7, <1>8 DEF FindLeaf
<1>9. CASE LoadHead(t)
  BY <1>7, <1>9 DEF LoadHead
<1>10. CASE Push(t) \/ PushFails(t)
  BY <1>7, <1>10 DEF Push, PushFails
<1>11. CASE CountChain(t) \/ RetireRoot(t) \/ ResetSize(t) \/ StartClear(t)
            \/ (RStep(t) /\ UNCHANGED bvars)
  BY <1>K, <1>11 DEF CountChain, RetireRoot, ResetSize, StartClear
<1> QED
  BY <1>3, <1>4, <1>5, <1>6, <1>8, <1>9, <1>10, <1>11 DEF Thread, Step

LEMMA NextPages == Calls /\ Pages /\ [Next]_vars => Pages'
<1> SUFFICES ASSUME Calls, Pages, [Next]_vars PROVE Pages'
  OBVIOUS
<1>1. CASE Next
  BY <1>1, StepPages DEF Next, Thread
<1>2. CASE UNCHANGED vars
  BY <1>2 DEF vars, bvars, Pages
<1> QED
  BY <1>1, <1>2

\* What a consolidation leaves in the mapping table is made of deltas that are
\* still in the chain, each once and under its key, whatever is pushed and
\* consolidated while the page is built and mapped (bw_tree.hpp:214-251).
THEOREM PageOfDeltas == Spec => []PageFromChain
<1>1. Init => Pages
  BY EmptyPage DEF Init, NoOp, Pages
<1>2. Pages => PageFromChain
  <2> SUFFICES ASSUME PageOK(chain, mapped, 0) PROVE PageFromChain
    BY DEF Pages
  <2>1. \A i \in 1 .. Len(mapped) : mapped[i].value \in Nat
    BY PageFields
  <2> QED
    BY <2>1 DEF PageOK, OfChain, PageFromChain
<1> QED
  BY <1>1, <1>2, InitCalls, NextCalls, NextPages, PTL DEF Spec
=============================================================================
