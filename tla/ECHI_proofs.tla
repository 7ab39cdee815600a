----------------------------- MODULE ECHI_proofs -----------------------------
(***************************************************************************)
(* Proofs about ECHI for any threads, keys, tids, relation, threshold and  *)
(* bounds.  Two inductive invariants carry them.  Base says where the      *)
(* threads are and which writes sit where; Values adds what the maps       *)
(* contain, and that a copy bulk_load has overtaken holds no write yet.    *)
(* DeltaBound, MineOK (triggering writers) and Ending (the destructor) are *)
(* inductive relative to Base.  StallsOversleep follows from Base.  The    *)
(* timer may tick at any time, also during bulk_load.                      *)
(***************************************************************************)
EXTENDS ECHI, FiniteSetTheorems, TLAPS

(* Where a thread stands while it runs trigger_epoch_transition. *)
InTransition == BeforeSwap \cup Critical

(* Each kind of thread keeps to its own program. *)
PcOK ==
    /\ \A p \in Probers : pc[p] \in {"idle", "read", "leave", "notify"}
    /\ \A w \in Writers : pc[w] \in {"idle", "done"} \cup InTransition
    /\ pc[Timer] \in {"sleep", "done"} \cup InTransition
    /\ pc[Main] \in {"load", "clear", "use", "join", "done"} \cup InTransition

(* Until bulk_load returns nobody else than the timer has done anything. *)
LoadPhase ==
    ~ Loaded => /\ delta = <<>>
                /\ Len(log) = 1
                /\ \A t \in Triggers : local[t] = <<>> /\ reach[t] = 1
                /\ \A t \in Probers \cup Writers : pc[t] = "idle"

(* A thread keeps no buffered operation outside a transition. *)
LocalEmpty == \A t \in Triggers : pc[t] \notin {"copy", "apply"} => local[t] = <<>>

-----------------------------------------------------------------------------
(* What the operators return: the empty map is a map ... *)
LEMMA EmptyType == EmptyContents \in Contents
  BY DEF EmptyContents, Contents

(* One buffered operation leads from contents to contents. *)
LEMMA ApplyType ==
  ASSUME NEW c \in Contents, NEW w \in WriteOp
  PROVE  Apply(c, w) \in Contents
<1>1. w.key \in Keys /\ w.tid \in TIDs
  BY DEF WriteOp
<1>2. CASE w.op = "INSERT"
  BY <1>1, <1>2 DEF Apply, Contents
<1>3. CASE w.op # "INSERT"
  BY <1>1, <1>3 DEF Apply, Contents
<1>4. QED
  BY <1>2, <1>3

(* The kinds of threads are told apart. *)
LEMMA ThreadFacts ==
  /\ Timer \in Triggers /\ Main \in Triggers /\ Timer # Main
  /\ Writers \subseteq Triggers
  /\ Timer \notin Writers /\ Main \notin Writers
  /\ Probers \cap Triggers = {}
  /\ Triggers \subseteq Threads /\ Probers \subseteq Threads
  /\ NoThread \notin Triggers
  BY ThreadsAssumption DEF Threads, Triggers

(* Nothing is written before R is loaded ... *)
LEMMA UnwrittenType == Unwritten \in Histories
  BY EmptyType, RelationAssumption DEF Unwritten, Histories

(* ... and a write extends both histories. *)
LEMMA ApplyToBothType ==
  ASSUME NEW h \in Histories, NEW w \in WriteOp
  PROVE  ApplyToBoth(h, w) \in Histories
  BY ApplyType DEF ApplyToBoth, Histories

-----------------------------------------------------------------------------
(* The first layer. *)
Base ==
    /\ TypeOK /\ PcOK /\ LoadPhase /\ LocalEmpty
    /\ TransitionExclusive /\ ReadersCounted /\ NoWriteLost

(* A probe that has announced itself is counted. *)
LEMMA ActivePositive ==
  ASSUME TypeOK, ReadersCounted, NEW p \in Probers, pc[p] \in {"read", "leave"}
  PROVE  active \in Nat \ {0}
<1> DEFINE R == {q \in Probers : pc[q] \in {"read", "leave"}}
<1>1. IsFiniteSet(R)
  BY FS_Subset, ThreadsAssumption
<1>2. Cardinality(R) # 0
  BY <1>1, FS_EmptySet
<1>3. QED
  BY <1>1, <1>2, FS_CardinalityType DEF ReadersCounted, TypeOK

(* active_readers_ stays a natural number because a probe that leaves is counted,
   and the published place stays in the log because Publish completes the buffer. *)
LEMMA TypeStep ==
  ASSUME Base, [Next]_vars
  PROVE  TypeOK'
<1> USE ThreadFacts
    DEF Base, TypeOK, Goto, published, writes, copy, BeforeSwap, Critical
<1>1. CASE BulkStore
  <2>1. origin' \in Origins
    BY <1>1 DEF BulkStore, Origins
  <2>2. QED
    BY <1>1, <2>1, RelationAssumption, SMTT(30) DEF BulkStore
<1>2. CASE BulkClear
  BY <1>2 DEF BulkClear
<1>3. CASE TimerWake
  BY <1>3 DEF TimerWake
<1>4. CASE DestroyStop
  BY <1>4 DEF DestroyStop
<1>5. CASE DestroyJoin
  BY <1>5 DEF DestroyJoin
<1>6. ASSUME NEW p \in Probers, ProbeEnter(p) PROVE TypeOK'
  <2>1. todo' \in [Probers -> 0 .. MaxProbes]
    <3>1. todo[p] - 1 \in 0 .. MaxProbes
      BY <1>6, ParametersAssumption DEF ProbeEnter
    <3>2. QED
      BY <1>6, <3>1 DEF ProbeEnter
  <2>2. active' \in Nat /\ UNCHANGED <<published, writes, snap, copy, local, epoch, mtx, stop>>
    BY <1>6 DEF ProbeEnter
  <2>3. pc' = [pc EXCEPT ![p] = "read"]
    BY <1>6 DEF ProbeEnter
  <2>4. QED
    BY <2>1, <2>2, <2>3
<1>7. ASSUME NEW p \in Probers, ProbeRead(p) PROVE TypeOK'
  BY <1>7, SMTT(30) DEF ProbeRead, ReadMap
<1>8. ASSUME NEW p \in Probers, ProbeLeave(p) PROVE TypeOK'
  <2>1. active \in Nat \ {0}
    BY <1>8, ActivePositive DEF ProbeLeave
  <2>2. active - 1 \in Nat
    BY <2>1
  <2>3. QED
    BY <1>8, <2>2 DEF ProbeLeave
<1>9. ASSUME NEW p \in Probers, ProbeNotify(p) PROVE TypeOK'
  BY <1>9 DEF ProbeNotify
<1>10. ASSUME NEW w \in Writers, WriterExit(w) PROVE TypeOK'
  BY <1>10 DEF WriterExit
<1>11. ASSUME NEW w \in Writers, NEW op \in WriteOp, Push(w, op) PROVE TypeOK'
  <2>1. log[Len(log)] \in Histories
    BY DEF Base
  <2> DEFINE c == ApplyToBoth(log[Len(log)], op)
  <2>2. /\ log' \in Seq(Histories) /\ log' # <<>> /\ Len(log') = Len(log) + 1
        /\ delta' \in Seq(WriteOp)
    <3>1. c \in Histories
      BY <2>1, ApplyToBothType
    <3>2. log' = Append(log, c) /\ delta' = Append(delta, op)
      BY <1>11 DEF Push
    <3> HIDE DEF c
    <3>3. QED
      BY <3>1, <3>2, SMTT(30)
  <2>3. visible' \in 1 .. Len(log') /\ mine' \in [Writers -> Nat]
    BY <1>11, <2>2, SMTT(30) DEF Push
  <2>4. QED
    BY <1>11, <2>2, <2>3 DEF Push
<1>12. ASSUME NEW t \in Triggers, Lock(t) PROVE TypeOK'
  BY <1>12 DEF Lock
<1>13. ASSUME NEW t \in Triggers, TestReaders(t) PROVE TypeOK'
  BY <1>13 DEF TestReaders
<1>14. ASSUME NEW t \in Triggers, Block(t) PROVE TypeOK'
  BY <1>14 DEF Block
<1>15. ASSUME NEW t \in Triggers, SpuriousWake(t) PROVE TypeOK'
  BY <1>15 DEF SpuriousWake
<1>16. ASSUME NEW t \in Triggers, Swap(t) PROVE TypeOK'
  BY <1>16, SMTT(30) DEF Swap
<1>17. ASSUME NEW t \in Triggers, Copy(t) PROVE TypeOK'
  BY <1>17, SMTT(30) DEF Copy
<1>18. ASSUME NEW t \in Triggers, ApplyDelta(t) PROVE TypeOK'
  <2>1. Head(local[t]) \in WriteOp /\ Tail(local[t]) \in Seq(WriteOp)
    BY <1>18 DEF ApplyDelta
  <2>2. next' \in [Triggers -> Contents]
    BY <1>18, <2>1, ApplyType DEF ApplyDelta
  <2>3. local' \in [Triggers -> Seq(WriteOp)] /\ reach' \in [Triggers -> Nat \ {0}]
    BY <1>18, <2>1, SMTT(30) DEF ApplyDelta
  <2>4. QED
    BY <1>18, <2>2, <2>3 DEF ApplyDelta
<1>19. ASSUME NEW t \in Triggers, Publish(t) PROVE TypeOK'
  <2>1. reach[t] + Len(local[t]) = Len(log) - Len(delta)
    BY <1>19 DEF Publish, NoWriteLost, Completes, Taken
  <2>2. Len(local[t]) \in Nat /\ Len(delta) \in Nat /\ Len(log) \in Nat
    OBVIOUS
  <2>3. visible' \in 1 .. Len(log)
    BY <1>19, <2>1, <2>2 DEF Publish
  <2>4. QED
    BY <1>19, <2>3 DEF Publish
<1>20. ASSUME NEW t \in Triggers, Bump(t) PROVE TypeOK'
  <2>1. epoch' \in 0 .. EpochModulus - 1
    BY <1>20, ParametersAssumption DEF Bump
  <2>2. made' \in [Triggers -> Origins] /\ next' \in [Triggers -> Contents]
    BY <1>20, EmptyType DEF Bump, Origins
  <2>3. QED
    BY <1>20, <2>1, <2>2, SMTT(40) DEF Bump, Resume
<1>21. CASE UNCHANGED vars
  BY <1>21 DEF vars
<1>22. QED
  BY <1>1, <1>2, <1>3, <1>4, <1>5, <1>6, <1>7, <1>8, <1>9, <1>10, <1>11, <1>12, <1>13,
     <1>14, <1>15, <1>16, <1>17, <1>18, <1>19, <1>20, <1>21
     DEF Next, Prober, Writer, Transition, Terminated

(* The steps that move neither a write nor a map, and the eight that do. *)
Still ==
    /\ UNCHANGED <<published, writes, copy, local>>
    /\ \A t \in Triggers : \/ pc'[t] = pc[t]
                            \/ {pc[t], pc'[t]} \cap {"copy", "apply", "bump"} = {}

(* Every step is still, or one of these. *)
LEMMA StepKinds ==
  ASSUME Base, [Next]_vars
  PROVE  \/ Still
         \/ BulkStore
         \/ \E w \in Writers, op \in WriteOp : Push(w, op)
         \/ \E t \in Triggers : Swap(t) \/ Copy(t) \/ ApplyDelta(t) \/ Publish(t) \/ Bump(t)
<1> USE ThreadFacts DEF Base, TypeOK, Still, Goto
<1>1. CASE BulkClear
  <2>1. delta' = delta
    BY <1>1 DEF BulkClear, LoadPhase, Loaded
  <2>2. QED
    BY <1>1, <2>1 DEF BulkClear, published, writes, copy
<1>2. CASE TimerWake \/ DestroyStop \/ DestroyJoin
  BY <1>2 DEF TimerWake, DestroyStop, DestroyJoin, published, writes, copy
<1>3. ASSUME NEW q \in Probers, Prober(q) PROVE Still
  <2>1. CASE ProbeNotify(q)
    BY <2>1 DEF ProbeNotify, published, writes, copy
  <2>2. CASE ProbeEnter(q) \/ ProbeRead(q) \/ ProbeLeave(q)
    <3>1. UNCHANGED <<published, writes, copy, local>>
      BY <2>2 DEF ProbeEnter, ProbeRead, ReadMap, ProbeLeave
    <3>2. \E to : pc' = [pc EXCEPT ![q] = to]
      BY <2>2 DEF ProbeEnter, ProbeRead, ProbeLeave
    <3>3. QED
      BY <3>1, <3>2
  <2>3. QED
    BY <1>3, <2>1, <2>2 DEF Prober
<1>4. ASSUME NEW w \in Writers, WriterExit(w) PROVE Still
  BY <1>4 DEF WriterExit, published, writes, copy
<1>5. ASSUME NEW t \in Triggers, Lock(t) \/ TestReaders(t) \/ Block(t) \/ SpuriousWake(t)
      PROVE  Still
  BY <1>5 DEF Lock, TestReaders, Block, SpuriousWake, published, writes, copy
<1>6. CASE UNCHANGED vars
  BY <1>6 DEF vars, published, writes, copy
<1>7. QED
  BY <1>1, <1>2, <1>3, <1>4, <1>5, <1>6 DEF Next, Writer, Transition, Terminated

(* Threads only enter and leave a transition through its mutex. *)
LEMMA PcStep ==
  ASSUME Base, [Next]_vars
  PROVE  PcOK' /\ TransitionExclusive'
<1> USE ThreadFacts
    DEF Base, TypeOK, PcOK, TransitionExclusive, Goto, InTransition, BeforeSwap, Critical
<1>1. CASE BulkStore \/ BulkClear
  BY <1>1, ZenonT(60) DEF BulkStore, BulkClear
<1>2. CASE TimerWake
  BY <1>2 DEF TimerWake
<1>3. CASE DestroyStop \/ DestroyJoin
  BY <1>3, ZenonT(60) DEF DestroyStop, DestroyJoin
<1>4. ASSUME NEW p \in Probers, ProbeEnter(p) \/ ProbeRead(p) \/ ProbeLeave(p)
      PROVE  PcOK' /\ TransitionExclusive'
  <2>1. mtx' = mtx
    BY <1>4 DEF ProbeEnter, ProbeRead, ReadMap, ProbeLeave
  <2>2. \E to \in {"idle", "read", "leave", "notify"} : pc' = [pc EXCEPT ![p] = to]
    BY <1>4 DEF ProbeEnter, ProbeRead, ProbeLeave
  <2>3. QED
    BY <2>1, <2>2
<1>5. ASSUME NEW p \in Probers, ProbeNotify(p) PROVE PcOK' /\ TransitionExclusive'
  BY <1>5 DEF ProbeNotify
<1>6. ASSUME NEW w \in Writers, WriterExit(w) PROVE PcOK' /\ TransitionExclusive'
  <2>1. mtx' = mtx /\ pc[w] = "idle" /\ pc' = [pc EXCEPT ![w] = "done"]
    BY <1>6 DEF WriterExit
  <2>2. QED
    BY <2>1, SMTT(30)
<1>7. ASSUME NEW w \in Writers, NEW op \in WriteOp, Push(w, op)
      PROVE  PcOK' /\ TransitionExclusive'
  <2>1. mtx' = mtx /\ pc[w] = "idle"
    BY <1>7 DEF Push
  <2>2. \E to \in {"lock", "idle"} : pc' = [pc EXCEPT ![w] = to]
    BY <1>7 DEF Push
  <2>3. QED
    BY <2>1, <2>2, SMTT(30)
<1>8. ASSUME NEW t \in Triggers, Lock(t) PROVE PcOK' /\ TransitionExclusive'
  BY <1>8 DEF Lock
<1>9. ASSUME NEW t \in Triggers, TestReaders(t) PROVE PcOK' /\ TransitionExclusive'
  BY <1>9, SMTT(30) DEF TestReaders
<1>10. ASSUME NEW t \in Triggers, Block(t) PROVE PcOK' /\ TransitionExclusive'
  BY <1>10 DEF Block
<1>11. ASSUME NEW t \in Triggers, SpuriousWake(t) PROVE PcOK' /\ TransitionExclusive'
  BY <1>11 DEF SpuriousWake
<1>12. ASSUME NEW t \in Triggers, Swap(t) \/ Copy(t)
       PROVE  PcOK' /\ TransitionExclusive'
  BY <1>12, ZenonT(60) DEF Swap, Copy
<1>13. ASSUME NEW t \in Triggers, ApplyDelta(t) \/ Publish(t)
       PROVE  PcOK' /\ TransitionExclusive'
  BY <1>13, ZenonT(60) DEF ApplyDelta, Publish
<1>14. ASSUME NEW t \in Triggers, Bump(t) PROVE PcOK' /\ TransitionExclusive'
  <2>1. pc' = [pc EXCEPT ![t] = Resume(t)] /\ mtx' = NoThread /\ pc[t] = "bump" /\ mtx = t
    BY <1>14 DEF Bump
  <2>2. Resume(t) = IF t = Main THEN "done" ELSE IF t = Timer THEN "sleep" ELSE "idle"
    BY DEF Resume
  <2>3. t \in Writers \/ t = Main \/ t = Timer
    BY DEF Triggers
  <2>4. QED
    BY <2>1, <2>2, <2>3
<1>15. CASE UNCHANGED vars
  BY <1>15 DEF vars
<1>16. QED
  BY <1>1, <1>2, <1>3, <1>4, <1>5, <1>6, <1>7, <1>8, <1>9, <1>10, <1>11, <1>12, <1>13,
     <1>14, <1>15 DEF Next, Prober, Writer, Transition, Terminated

(* Steps of other threads leave the counted probes and the counter alone. *)
LEMMA ReadersStep ==
  ASSUME Base, [Next]_vars
  PROVE  ReadersCounted'
<1> DEFINE In(f) == {p \in Probers : f[p] \in {"read", "leave"}}
<1> USE ThreadFacts DEF Base, TypeOK, Goto
<1>1. IsFiniteSet(In(pc)) /\ IsFiniteSet(In(pc')) /\ active = Cardinality(In(pc))
  BY FS_Subset, ThreadsAssumption DEF ReadersCounted
<1>2. SUFFICES active' = Cardinality(In(pc'))
  BY DEF ReadersCounted
<1>3. ASSUME NEW p \in Probers, ProbeEnter(p) PROVE active' = Cardinality(In(pc'))
  <2>1. In(pc') = In(pc) \cup {p} /\ p \notin In(pc)
    BY <1>3 DEF ProbeEnter
  <2>2. QED
    BY <1>1, <1>3, <2>1, FS_AddElement DEF ProbeEnter
<1>4. ASSUME NEW p \in Probers, ProbeRead(p) PROVE active' = Cardinality(In(pc'))
  <2>1. In(pc') = In(pc) /\ active' = active
    BY <1>4 DEF ProbeRead, ReadMap
  <2>2. QED
    BY <1>1, <2>1
<1>5. ASSUME NEW p \in Probers, ProbeLeave(p) PROVE active' = Cardinality(In(pc'))
  <2>1. In(pc') = In(pc) \ {p} /\ p \in In(pc)
    BY <1>5 DEF ProbeLeave
  <2>2. Cardinality(In(pc) \ {p}) = Cardinality(In(pc)) - 1
    <3> HIDE DEF In
    <3>1. QED
      BY <1>1, <2>1, FS_RemoveElement
  <2>3. active' = active - 1
    BY <1>5 DEF ProbeLeave
  <2>4. QED
    BY <1>1, <2>1, <2>2, <2>3
<1>6. ASSUME NEW p \in Probers, ProbeNotify(p) PROVE active' = Cardinality(In(pc'))
  <2>1. In(pc') = In(pc) /\ active' = active
    BY <1>6 DEF ProbeNotify, PcOK
  <2>2. QED
    BY <1>1, <2>1
<1>7. CASE active' = active /\ \A p \in Probers : pc'[p] = pc[p]
  BY <1>1, <1>7
<1>8. ASSUME NEW t \in Triggers, Transition(t) \/ SpuriousWake(t)
      PROVE  active' = active /\ \A p \in Probers : pc'[p] = pc[p]
  BY <1>8 DEF Transition, SpuriousWake, Lock, TestReaders, Block, Swap, Copy, ApplyDelta,
              Publish, Bump
<1>9. ASSUME NEW w \in Writers, Writer(w)
      PROVE  active' = active /\ \A p \in Probers : pc'[p] = pc[p]
  BY <1>9 DEF Writer, WriterExit, Push
<1>10. CASE BulkStore \/ BulkClear \/ TimerWake \/ DestroyStop \/ DestroyJoin
  BY <1>7, <1>10 DEF BulkStore, BulkClear, TimerWake, DestroyStop, DestroyJoin
<1>11. QED
  BY <1>3, <1>4, <1>5, <1>6, <1>7, <1>8, <1>9, <1>10 DEF Next, Prober, Terminated, vars

(* A transition has applied all of its buffer when it publishes. *)
LEMMA LocalStep ==
  ASSUME Base, [Next]_vars
  PROVE  LocalEmpty'
<1> USE ThreadFacts DEF Base, TypeOK, LocalEmpty, Goto
<1>1. CASE Still
  BY <1>1 DEF Still
<1>2. CASE BulkStore
  BY <1>2 DEF BulkStore
<1>3. ASSUME NEW w \in Writers, NEW op \in WriteOp, Push(w, op) PROVE LocalEmpty'
  BY <1>3 DEF Push
<1>4. ASSUME NEW t \in Triggers, Swap(t) \/ Copy(t) PROVE LocalEmpty'
  BY <1>4 DEF Swap, Copy
<1>5. ASSUME NEW t \in Triggers, ApplyDelta(t) PROVE LocalEmpty'
  BY <1>5 DEF ApplyDelta
<1>6. ASSUME NEW t \in Triggers, Publish(t) \/ Bump(t) PROVE LocalEmpty'
  BY <1>6, ZenonT(60) DEF Publish, Bump
<1>7. QED
  BY <1>1, <1>2, <1>3, <1>4, <1>5, <1>6, StepKinds

(* Nobody writes or probes before bulk_load has returned. *)
LEMMA LoadStep ==
  ASSUME Base, [Next]_vars
  PROVE  LoadPhase'
<1> USE ThreadFacts DEF Base, TypeOK, LoadPhase, Loaded, Goto
<1> SUFFICES ASSUME ~ Loaded'
             PROVE  /\ delta' = <<>> /\ Len(log') = 1
                    /\ \A t \in Triggers : local'[t] = <<>> /\ reach'[t] = 1
                    /\ \A t \in Probers \cup Writers : pc'[t] = "idle"
  OBVIOUS
<1>1. ASSUME NEW p \in Probers, Prober(p) PROVE FALSE
  BY <1>1 DEF Prober, ProbeEnter, ProbeRead, ProbeLeave, ProbeNotify
<1>2. ASSUME NEW w \in Writers, Writer(w) PROVE FALSE
  BY <1>2 DEF Writer, WriterExit, Push
<1>3. CASE BulkStore
  BY <1>3 DEF BulkStore, copy, writes
<1>4. CASE BulkClear \/ DestroyStop \/ DestroyJoin
  BY <1>4 DEF BulkClear, DestroyStop, DestroyJoin
<1>5. CASE TimerWake
  BY <1>5 DEF TimerWake, copy, writes
<1>6. ASSUME NEW t \in Triggers, Transition(t) \/ SpuriousWake(t)
      PROVE  /\ delta' = <<>> /\ Len(log') = 1
             /\ \A u \in Triggers : local'[u] = <<>> /\ reach'[u] = 1
             /\ \A u \in Probers \cup Writers : pc'[u] = "idle"
  <2>1. ~ Loaded
    BY <1>6 DEF Transition, SpuriousWake, Lock, TestReaders, Block, Swap, Copy, ApplyDelta,
                Publish, Bump, Resume
  <2>2. t \notin Writers /\ t \notin Probers
    BY <1>6, <2>1 DEF Transition, SpuriousWake, Lock, TestReaders, Block, Swap, Copy,
                      ApplyDelta, Publish, Bump
  <2>3. visible = 1
    <3>1. visible \in 1 .. Len(log) /\ Len(log) = 1
      BY <2>1
    <3>2. QED
      BY <3>1
  <2>4. CASE Lock(t) \/ TestReaders(t) \/ Block(t) \/ SpuriousWake(t)
    BY <2>1, <2>2, <2>4 DEF Lock, TestReaders, Block, SpuriousWake, writes, copy
  <2>5. CASE Swap(t)
    BY <2>1, <2>2, <2>5 DEF Swap, copy
  <2>6. CASE Copy(t)
    BY <2>1, <2>2, <2>3, <2>6 DEF Copy, writes
  <2>7. CASE Publish(t) \/ Bump(t)
    BY <2>1, <2>2, <2>7 DEF Publish, Bump, writes, copy
  <2>8. CASE ApplyDelta(t)
    BY <2>1, <2>8 DEF ApplyDelta
  <2>9. QED
    BY <1>6, <2>4, <2>5, <2>6, <2>7, <2>8 DEF Transition
<1>7. CASE UNCHANGED vars
  BY <1>7 DEF vars, writes, copy
<1>8. QED
  BY <1>1, <1>2, <1>3, <1>4, <1>5, <1>6, <1>7 DEF Next, Terminated

(* A write moves from the buffer to the open transition to the map, and stays in order. *)
LEMMA WritesStep ==
  ASSUME Base, [Next]_vars
  PROVE  NoWriteLost'
<1>1. /\ Len(delta) \in Nat /\ Len(log) \in Nat \ {0} /\ visible \in Nat \ {0}
      /\ \A t \in Triggers : Len(local[t]) \in Nat /\ reach[t] \in Nat \ {0}
  BY DEF Base, TypeOK
<1>T. /\ log \in Seq(Histories) /\ delta \in Seq(WriteOp)
      /\ local \in [Triggers -> Seq(WriteOp)] /\ reach \in [Triggers -> Nat \ {0}]
      /\ NoWriteLost /\ LoadPhase /\ TransitionExclusive
  BY DEF Base, TypeOK
<1>P. DOMAIN pc = Threads /\ pc = [u \in Threads |-> pc[u]]
  BY DEF Base, TypeOK
<1>2. CASE Still
  <2>1. UNCHANGED <<delta, log, visible, local, reach>>
    BY <1>2 DEF Still, published, writes, copy
  <2>2. \A t \in Triggers : /\ pc'[t] = "copy" <=> pc[t] = "copy"
                            /\ pc'[t] = "apply" <=> pc[t] = "apply"
    BY <1>2 DEF Still
  <2>3. QED
    BY <2>1, <2>2, <1>T DEF NoWriteLost, Completes, Taken, Continues
<1>3. CASE BulkStore
  <2>1. ~ Loaded /\ delta' = <<>> /\ Len(log') = 1 /\ visible' = 1
    BY <1>3, <1>T, <1>P, ThreadFacts DEF BulkStore, Loaded, LoadPhase, Goto, writes
  <2>2. \A t \in Triggers : local'[t] = <<>> /\ reach'[t] = 1
    BY <1>3, <2>1, <1>T, <1>P, ThreadFacts DEF BulkStore, copy, LoadPhase, Goto
  <2>3. QED
    BY <2>1, <2>2, <1>T DEF NoWriteLost, Completes, Taken, Continues
<1>4. ASSUME NEW w \in Writers, NEW op \in WriteOp, Push(w, op) PROVE NoWriteLost'
  <2> DEFINE c == ApplyToBoth(log[Len(log)], op)
             b == Len(log) - Len(delta)
  <2>1. /\ log' = Append(log, c) /\ delta' = Append(delta, op)
        /\ UNCHANGED <<visible, local, reach>>
        /\ pc[w] = "idle"
        /\ \E to \in {"idle", "lock"} : pc' = [pc EXCEPT ![w] = to]
    BY <1>4, <1>T, <1>P, ThreadFacts DEF Push, published, copy, Goto
  <2>2. \A t \in Triggers : /\ pc'[t] = "copy" <=> pc[t] = "copy"
                            /\ pc'[t] = "apply" <=> pc[t] = "apply"
    BY <2>1
  <2>3. /\ Len(log') = Len(log) + 1 /\ log'[Len(log) + 1] = c
        /\ \A i \in 1 .. Len(log) : log'[i] = log[i]
        /\ Len(delta') = Len(delta) + 1 /\ delta'[Len(delta) + 1] = op
        /\ \A i \in 1 .. Len(delta) : delta'[i] = delta[i]
    <3> HIDE DEF c
    <3>1. QED
      BY <1>T, <2>1
  <2>4. b \in Nat \ {0} /\ Len(log') - Len(delta') = b
    <3>1. ASSUME NEW t \in Triggers, pc[t] \in {"copy", "apply"} PROVE b \in Nat \ {0}
      BY <1>1, <3>1, <1>T DEF NoWriteLost, Completes, Taken
    <3>2. ASSUME \A t \in Triggers : pc[t] \notin {"copy", "apply"} PROVE b \in Nat \ {0}
      BY <1>1, <3>2, <1>T DEF NoWriteLost, Taken
    <3>3. b \in Nat \ {0}
      BY <3>1, <3>2
    <3>4. QED
      BY <1>1, <2>3, <3>3
  <2>5. \A i \in 1 .. Len(delta') : log'[b + i] = ApplyToBoth(log'[b + i - 1], delta'[i])
    <3>1. ASSUME NEW i \in 1 .. Len(delta)
          PROVE  log'[b + i] = ApplyToBoth(log'[b + i - 1], delta'[i])
      <4>1. b + i \in 1 .. Len(log) /\ b + i - 1 \in 1 .. Len(log)
        BY <1>1, <2>4
      <4>2. log[b + i] = ApplyToBoth(log[b + i - 1], delta[i])
        BY <1>T DEF NoWriteLost, Completes, Taken, Continues
      <4>3. QED
        BY <2>3, <4>1, <4>2
    <3>2. ASSUME NEW i \in 1 .. Len(delta'), i = Len(delta) + 1
          PROVE  log'[b + i] = ApplyToBoth(log'[b + i - 1], delta'[i])
      <4>1. b + i = Len(log) + 1 /\ b + i - 1 = Len(log)
        BY <1>1, <3>2
      <4>2. log'[b + i] = c /\ log'[b + i - 1] = log[Len(log)] /\ delta'[i] = op
        BY <1>1, <2>3, <3>2, <4>1
      <4>3. QED
        BY <4>2
    <3>3. Len(delta') = Len(delta) + 1
      BY <2>3
    <3> HIDE DEF b, c
    <3>4. QED
      BY <1>1, <3>1, <3>2, <3>3
  <2>6. ASSUME NEW t \in Triggers, pc[t] = "copy"
        PROVE  /\ visible + Len(local[t]) = b
               /\ \A i \in 1 .. Len(local[t]) :
                     log'[visible + i] = ApplyToBoth(log'[visible + i - 1], local[t][i])
    <3>1. visible + Len(local[t]) = b
      BY <2>6, <1>T DEF NoWriteLost, Completes, Taken
    <3>2. ASSUME NEW i \in 1 .. Len(local[t])
          PROVE  log'[visible + i] = ApplyToBoth(log'[visible + i - 1], local[t][i])
      <4>1. visible + i \in 1 .. Len(log) /\ visible + i - 1 \in 1 .. Len(log)
        BY <1>1, <3>1
      <4>2. log[visible + i] = ApplyToBoth(log[visible + i - 1], local[t][i])
        BY <2>6, <1>T DEF NoWriteLost, Completes, Taken, Continues
      <4>3. QED
        BY <2>3, <4>1, <4>2
    <3>3. QED
      BY <3>1, <3>2
  <2>7. ASSUME NEW t \in Triggers, pc[t] = "apply"
        PROVE  /\ reach[t] + Len(local[t]) = b
               /\ \A i \in 1 .. Len(local[t]) :
                     log'[reach[t] + i] = ApplyToBoth(log'[reach[t] + i - 1], local[t][i])
    <3>1. reach[t] + Len(local[t]) = b
      BY <2>7, <1>T DEF NoWriteLost, Completes, Taken
    <3>2. ASSUME NEW i \in 1 .. Len(local[t])
          PROVE  log'[reach[t] + i] = ApplyToBoth(log'[reach[t] + i - 1], local[t][i])
      <4>1. reach[t] + i \in 1 .. Len(log) /\ reach[t] + i - 1 \in 1 .. Len(log)
        BY <1>1, <3>1, SMTT(30)
      <4>2. log[reach[t] + i] = ApplyToBoth(log[reach[t] + i - 1], local[t][i])
        BY <2>7, <1>T DEF NoWriteLost, Completes, Taken, Continues
      <4>3. QED
        BY <2>3, <4>1, <4>2
    <3>3. QED
      BY <3>1, <3>2
  <2>8. (\A t \in Triggers : pc[t] \notin {"copy", "apply"}) => visible = b
    BY <1>T DEF NoWriteLost, Completes, Taken
  <2>9. Taken' = b
    BY <2>4 DEF Taken
  <2> HIDE DEF b
  <2>10. Continues(Taken, delta)'
    BY <2>5, <2>9 DEF Continues
  <2>11. ASSUME NEW t \in Triggers PROVE Completes(t)'
    BY <2>1, <2>2, <2>6, <2>7, <2>9 DEF Completes, Continues
  <2>12. (\A t \in Triggers : pc'[t] \notin {"copy", "apply"}) => visible' = Taken'
    BY <2>1, <2>2, <2>8, <2>9
  <2>13. QED
    BY <2>10, <2>11, <2>12, <1>T DEF NoWriteLost
<1>5. ASSUME NEW t \in Triggers, Swap(t) \/ Copy(t) \/ ApplyDelta(t) \/ Publish(t) \/ Bump(t)
      PROVE  \A u \in Triggers \ {t} : /\ pc[u] \notin {"copy", "apply"}
                                        /\ pc'[u] \notin {"copy", "apply"}
  <2>1. pc[t] \in Critical /\ \E to : pc' = [pc EXCEPT ![t] = to]
    <3>1. CASE ApplyDelta(t)
      <4>1. pc' = [pc EXCEPT ![t] = pc[t]]
        BY <3>1, <1>T, <1>P, ThreadFacts DEF ApplyDelta, Goto
      <4>2. QED
        BY <3>1, <4>1, <1>T, <1>P, ThreadFacts DEF ApplyDelta, Critical, Goto
    <3>2. QED
      BY <1>5, <3>1, <1>T, <1>P, ThreadFacts DEF Swap, Copy, Publish, Bump, Critical, Goto
  <2>2. \A u \in Triggers \ {t} : pc[u] \notin Critical
    BY <2>1, <1>T DEF TransitionExclusive
  <2>3. QED
    BY <2>1, <2>2 DEF Critical
<1>6. ASSUME NEW t \in Triggers, Swap(t) PROVE NoWriteLost'
  <2>1. /\ UNCHANGED <<visible, log>> /\ delta' = <<>> /\ local'[t] = delta
        /\ pc[t] = "swap" /\ pc'[t] = "copy"
    BY <1>6, <1>T, <1>P, ThreadFacts DEF Swap, published, Goto
  <2>2. visible = Len(log) - Len(delta)
    BY <1>5, <1>6, <2>1, <1>T DEF NoWriteLost, Completes, Taken
  <2>3. Taken' = Len(log) /\ Len(delta') = 0
    BY <1>1, <2>1 DEF Taken
  <2>4. Completes(t)'
    BY <1>1, <2>1, <2>2, <2>3, <1>T DEF Completes, NoWriteLost, Taken, Continues
  <2>5. ASSUME NEW u \in Triggers \ {t} PROVE Completes(u)'
    BY <1>5, <1>6 DEF Completes
  <2>6. Continues(Taken, delta)'
    BY <2>3 DEF Continues
  <2>7. QED
    BY <2>1, <2>4, <2>5, <2>6, <1>T DEF NoWriteLost
<1>7. ASSUME NEW t \in Triggers, Copy(t) PROVE NoWriteLost'
  <2>1. /\ UNCHANGED <<visible, log, delta, local>> /\ reach'[t] = visible
        /\ pc[t] = "copy" /\ pc'[t] = "apply"
    BY <1>7, <1>T, <1>P, ThreadFacts DEF Copy, published, writes, Goto
  <2>2. Completes(t)'
    BY <2>1, <1>T DEF Completes, NoWriteLost, Taken, Continues
  <2>3. ASSUME NEW u \in Triggers \ {t} PROVE Completes(u)'
    BY <1>5, <1>7 DEF Completes
  <2>4. Continues(Taken, delta)'
    BY <2>1, <1>T DEF NoWriteLost, Taken, Continues
  <2>5. QED
    BY <2>1, <2>2, <2>3, <2>4, <1>T DEF NoWriteLost
<1>8. ASSUME NEW t \in Triggers, ApplyDelta(t) PROVE NoWriteLost'
  <2>1. /\ UNCHANGED <<visible, log, delta, pc>> /\ pc[t] = "apply" /\ local[t] # <<>>
        /\ local'[t] = Tail(local[t]) /\ reach'[t] = reach[t] + 1
    BY <1>8, <1>T, <1>P, ThreadFacts DEF ApplyDelta, published, writes, Goto
  <2>2. /\ Len(local[t]) \in Nat \ {0} /\ Len(local'[t]) = Len(local[t]) - 1
        /\ \A i \in 1 .. Len(local'[t]) : local'[t][i] = local[t][i + 1]
    BY <2>1
  <2>3. /\ reach[t] + Len(local[t]) = Len(log) - Len(delta)
        /\ \A i \in 1 .. Len(local[t]) : log[reach[t] + i] = ApplyToBoth(log[reach[t] + i - 1], local[t][i])
    BY <2>1, <1>T DEF NoWriteLost, Completes, Taken, Continues
  <2>4. reach'[t] + Len(local'[t]) = Len(log') - Len(delta')
    BY <1>1, <2>1, <2>2, <2>3
  <2>5. ASSUME NEW i \in 1 .. Len(local'[t])
        PROVE  log'[reach'[t] + i] = ApplyToBoth(log'[reach'[t] + i - 1], local'[t][i])
    <3>1. i + 1 \in 1 .. Len(local[t])
      BY <1>1, <2>2
    <3>2. i \in Nat /\ reach[t] \in Nat /\ reach'[t] = reach[t] + 1
      BY <1>1, <2>1, <2>2
    <3>3. /\ reach'[t] + i = reach[t] + (i + 1)
          /\ reach'[t] + i - 1 = reach[t] + (i + 1) - 1
      BY <3>2, SMTT(30)
    <3>4. QED
      BY <2>1, <2>2, <2>3, <3>1, <3>3, SMTT(30)
  <2>6. \A i \in 1 .. Len(delta') :
          log'[Len(log') - Len(delta') + i] = ApplyToBoth(log'[Len(log') - Len(delta') + i - 1], delta'[i])
    BY <2>1, <1>T DEF NoWriteLost, Completes, Taken, Continues
  <2>7. QED
    BY <1>5, <1>8, <2>1, <2>4, <2>5, <2>6, <1>T, ZenonT(60)
       DEF NoWriteLost, Completes, Taken, Continues
<1>9. ASSUME NEW t \in Triggers, Publish(t) PROVE NoWriteLost'
  <2>1. /\ UNCHANGED <<log, delta, local, reach>> /\ visible' = reach[t]
        /\ pc[t] = "apply" /\ pc'[t] = "bump" /\ local[t] = <<>>
    BY <1>9, <1>T, <1>P, ThreadFacts DEF Publish, writes, copy, Goto
  <2>2. reach[t] = Len(log) - Len(delta)
    <3>1. reach[t] + Len(local[t]) = Len(log) - Len(delta)
      BY <1>T, <2>1 DEF NoWriteLost, Completes, Taken
    <3>2. Len(local[t]) = 0
      BY <2>1
    <3>3. QED
      BY <1>1, <3>1, <3>2
  <2>3. QED
    BY <1>1, <1>5, <1>9, <2>1, <2>2, <1>T DEF NoWriteLost, Completes, Taken, Continues
<1>10. ASSUME NEW t \in Triggers, Bump(t) PROVE NoWriteLost'
  <2>1. /\ UNCHANGED <<log, delta, local, visible>>
        /\ pc[t] = "bump" /\ pc'[t] \notin {"copy", "apply"}
    BY <1>10, <1>T, <1>P, ThreadFacts DEF Bump, Resume, writes, published, Goto
  <2>2. QED
    BY <1>1, <1>5, <1>10, <2>1, <1>T DEF NoWriteLost, Completes, Taken, Continues
<1>11. QED
  BY <1>2, <1>3, <1>4, <1>6, <1>7, <1>8, <1>9, <1>10, StepKinds

(* The constructor establishes Base. *)
LEMMA BaseInit == Init => Base
<1> SUFFICES ASSUME Init PROVE Base
  OBVIOUS
<1> USE ThreadFacts, EmptyType DEF Init
<1>1. TypeOK
  <2>1. epoch \in 0 .. EpochModulus - 1 /\ todo \in [Probers -> 0 .. MaxProbes]
    BY ParametersAssumption
  <2>2. log \in Seq(Histories) /\ log # <<>> /\ visible \in 1 .. Len(log)
    BY UnwrittenType
  <2>3. pc \in [Threads -> {"load", "idle", "sleep", "done"}]
    OBVIOUS
  <2>4. mtx \in Triggers \cup {NoThread} /\ local \in [Triggers -> Seq(WriteOp)]
    OBVIOUS
  <2>5. pc \in [Threads -> {"load", "clear", "use", "join", "sleep", "idle", "done",
                           "read", "leave", "notify"} \cup BeforeSwap \cup Critical]
    BY <2>3
  <2>6. /\ snap \in [Probers -> Contents] /\ next \in [Triggers -> Contents]
        /\ origin \in Origins /\ made \in [Triggers -> Origins]
        /\ reach \in [Triggers -> Nat \ {0}]
        /\ mine \in [Writers -> Nat]
    BY DEF Origins
  <2>7. /\ map \in Contents
        /\ delta \in Seq(WriteOp)
        /\ active \in Nat
        /\ stop \in BOOLEAN
    <3>1. map \in Contents
      OBVIOUS
    <3>2. delta \in Seq(WriteOp)
      OBVIOUS
    <3>3. active \in Nat /\ stop \in BOOLEAN
      OBVIOUS
    <3>4. QED
      BY <3>1, <3>2, <3>3
  <2> HIDE DEF Init
  <2>8. QED
    BY <2>1, <2>2, <2>4, <2>5, <2>6, <2>7 DEF TypeOK
<1>2. PcOK /\ LoadPhase /\ LocalEmpty
  BY DEF PcOK, LoadPhase, LocalEmpty, Loaded, Threads, Triggers
<1>3. TransitionExclusive
  BY DEF TransitionExclusive, Critical
<1>4. ReadersCounted
  <2>1. {p \in Probers : pc[p] \in {"read", "leave"}} = {}
    BY DEF Threads
  <2>2. QED
    BY <2>1, FS_EmptySet DEF ReadersCounted
<1>5. NoWriteLost
  <2>1. Len(delta) = 0 /\ Len(log) = 1 /\ visible = 1
    OBVIOUS
  <2>2. \A t \in Triggers : pc[t] \notin {"copy", "apply"}
    BY DEF Threads
  <2>3. QED
    BY <2>1, <2>2 DEF NoWriteLost, Completes, Taken, Continues
<1>6. QED
  BY <1>1, <1>2, <1>3, <1>4, <1>5 DEF Base

(* Base holds throughout. *)
LEMMA BaseInvariant == Spec => []Base
<1>1. Base /\ [Next]_vars => Base'
  BY TypeStep, PcStep, ReadersStep, LocalStep, LoadStep, WritesStep DEF Base
<1>2. QED
  BY BaseInit, <1>1, PTL DEF Spec

(***************************************************************************)
(* The types, and the mutual exclusion of the transitions: they hold from  *)
(* the constructor on, with the timer already running during bulk_load.    *)
(***************************************************************************)
THEOREM TypeCorrect == Spec => []TypeOK
<1>1. Base => TypeOK
  BY DEF Base
<1>2. QED
  BY BaseInvariant, <1>1, PTL

(* Two threads are never inside trigger_epoch_transition's critical section,
   whichever of them wait for readers in between. *)
THEOREM TransitionsExclude == Spec => []TransitionExclusive
<1>1. Base => TransitionExclusive
  BY DEF Base
<1>2. QED
  BY BaseInvariant, <1>1, PTL

(* active_readers_ is the number of probes that hold or may load a map. *)
THEOREM ReadersAreCounted == Spec => []ReadersCounted
<1>1. Base => ReadersCounted
  BY DEF Base
<1>2. QED
  BY BaseInvariant, <1>1, PTL

(* Between enqueue_write and the store of the map no write is lost, doubled
   or overtaken by another. *)
THEOREM WritesConserved == Spec => []NoWriteLost
<1>1. Base => NoWriteLost
  BY DEF Base
<1>2. QED
  BY BaseInvariant, <1>1, PTL

-----------------------------------------------------------------------------
(* The buffer: a writer that finds it full adds one and goes to a transition. *)

(* Only Push lengthens the buffer, and it makes its writer a waiting one when full. *)
LEMMA BoundStep ==
  ASSUME Base, DeltaBound, [Next]_vars
  PROVE  DeltaBound'
<1> DEFINE W(f) == {w \in Writers : f[w] \in BeforeSwap}
<1>1. /\ IsFiniteSet(W(pc)) /\ IsFiniteSet(W(pc'))
      /\ Cardinality(W(pc)) \in Nat /\ Cardinality(W(pc')) \in Nat
      /\ Len(delta) < DeltaThreshold + Cardinality(W(pc))
      /\ Len(delta) \in Nat /\ DeltaThreshold \in Nat \ {0}
      /\ pc = [u \in Threads |-> pc[u]]
  BY FS_Subset, FS_CardinalityType, ThreadsAssumption, ParametersAssumption
     DEF DeltaBound, Base, TypeOK
<1>2. SUFFICES Len(delta') < DeltaThreshold + Cardinality(W(pc'))
  BY DEF DeltaBound
<1>3. CASE delta' = delta /\ W(pc') = W(pc)
  BY <1>1, <1>3
<1>4. CASE delta' = <<>>
  BY <1>1, <1>4
<1>5. CASE BulkStore \/ BulkClear \/ TimerWake \/ DestroyStop \/ DestroyJoin
  BY <1>1, <1>3, <1>4, <1>5, ThreadFacts
     DEF BulkStore, BulkClear, TimerWake, DestroyStop, DestroyJoin, writes, Goto
<1>6. ASSUME NEW p \in Probers, Prober(p) PROVE delta' = delta /\ W(pc') = W(pc)
  <2>1. delta' = delta
    BY <1>6 DEF Prober, ProbeEnter, ProbeRead, ReadMap, ProbeLeave, ProbeNotify, writes
  <2>2. ASSUME NEW w \in Writers PROVE pc'[w] \in BeforeSwap <=> pc[w] \in BeforeSwap
    <3>1. CASE ProbeNotify(p)
      BY <3>1, ThreadFacts DEF ProbeNotify, BeforeSwap
    <3>2. CASE ProbeEnter(p) \/ ProbeRead(p) \/ ProbeLeave(p)
      BY <1>1, <3>2, ThreadFacts DEF ProbeEnter, ProbeRead, ProbeLeave, Goto
    <3>3. QED
      BY <1>6, <3>1, <3>2 DEF Prober
  <2>3. QED
    BY <2>1, <2>2
<1>7. ASSUME NEW w \in Writers, WriterExit(w) PROVE delta' = delta /\ W(pc') = W(pc)
  BY <1>1, <1>7, ThreadFacts DEF WriterExit, writes, Goto, BeforeSwap
<1>8. ASSUME NEW w \in Writers, NEW op \in WriteOp, Push(w, op)
      PROVE  Len(delta') < DeltaThreshold + Cardinality(W(pc'))
  <2>1. Len(delta') = Len(delta) + 1
    BY <1>8 DEF Push, Base, TypeOK
  <2>2. CASE Len(delta') < DeltaThreshold
    BY <1>1, <2>1, <2>2
  <2>3. CASE Len(delta') >= DeltaThreshold
    <3>1. W(pc') = W(pc) \cup {w} /\ w \notin W(pc)
      BY <1>1, <1>8, <2>3, ThreadFacts DEF Push, Full, Goto, BeforeSwap
    <3>2. Cardinality(W(pc')) = Cardinality(W(pc)) + 1
      <4> HIDE DEF W
      <4>1. QED
        BY <1>1, <3>1, FS_AddElement
    <3>3. QED
      BY <1>1, <2>1, <3>2
  <2>4. QED
    BY <1>1, <2>1, <2>2, <2>3
<1>9. ASSUME NEW t \in Triggers, Swap(t) PROVE delta' = <<>>
  BY <1>9 DEF Swap
<1>10. ASSUME NEW t \in Triggers,
              Lock(t) \/ TestReaders(t) \/ Block(t) \/ SpuriousWake(t)
       PROVE  delta' = delta /\ W(pc') = W(pc)
  BY <1>1, <1>10, ThreadFacts
     DEF Lock, TestReaders, Block, SpuriousWake, writes, Goto, BeforeSwap
<1>11. ASSUME NEW t \in Triggers, Copy(t) \/ ApplyDelta(t) \/ Publish(t) \/ Bump(t)
       PROVE  delta' = delta /\ W(pc') = W(pc)
  BY <1>1, <1>11, ThreadFacts
     DEF Copy, ApplyDelta, Publish, Bump, Resume, writes, Goto, BeforeSwap
<1>12. CASE UNCHANGED vars
  BY <1>3, <1>12 DEF vars, writes
<1>13. QED
  BY <1>3, <1>4, <1>5, <1>6, <1>7, <1>8, <1>9, <1>10, <1>11, <1>12
     DEF Next, Writer, Transition, Terminated

(* delta_buffer_ never holds more than its threshold and one write for each
   writer that is waiting to run a transition. *)
THEOREM BufferBounded == Spec => []DeltaBound
<1>1. Init => DeltaBound
  <2> SUFFICES ASSUME Init PROVE DeltaBound
    OBVIOUS
  <2>1. Cardinality({w \in Writers : pc[w] \in BeforeSwap}) \in Nat
    BY FS_Subset, FS_CardinalityType, ThreadsAssumption
  <2>2. Len(delta) = 0
    BY DEF Init
  <2>3. QED
    BY <2>1, <2>2, ParametersAssumption DEF DeltaBound
<1>2. Base /\ DeltaBound /\ [Next]_vars => DeltaBound'
  BY BoundStep
<1>3. QED
  BY BaseInvariant, <1>1, <1>2, PTL DEF Spec

-----------------------------------------------------------------------------
(* Writers that triggered a transition: a writer's last write is in the log, it
   has left the buffer when the writer has swapped it, and it is published when
   the writer has published. *)
MineOK ==
    \A w \in Writers :
        /\ mine[w] \in 1 .. Len(log)
        /\ pc[w] \in {"copy", "apply"} => mine[w] <= Taken
        /\ pc[w] = "bump" => mine[w] <= visible

(* What a writer has written is where MineOK says it is. *)
LEMMA MineStep ==
  ASSUME Base, MineOK, [Next]_vars
  PROVE  MineOK'
<1>1. /\ Len(delta) \in Nat /\ Len(log) \in Nat \ {0} /\ visible \in 1 .. Len(log)
      /\ log \in Seq(Histories) /\ delta \in Seq(WriteOp)
      /\ pc = [u \in Threads |-> pc[u]] /\ mine \in [Writers -> Nat]
      /\ \A w \in Writers : w \in Threads /\ w \in Triggers
  BY ThreadFacts DEF Base, TypeOK
<1>2. CASE Still
  BY <1>1, <1>2 DEF Still, MineOK, Taken, published, writes
<1>3. CASE BulkStore
  <2>1. ~ Loaded /\ Len(log') = 1 /\ mine' = mine
    BY <1>1, <1>3, ThreadFacts DEF BulkStore, Loaded, Goto, Base, LoadPhase, writes
  <2>2. Len(log) = 1 /\ \A w \in Writers : pc'[w] = "idle"
    BY <1>1, <1>3, <2>1, ThreadFacts DEF BulkStore, Goto, Base, LoadPhase
  <2>3. QED
    BY <2>1, <2>2, <1>1 DEF MineOK
<1>4. ASSUME NEW v \in Writers, NEW op \in WriteOp, Push(v, op) PROVE MineOK'
  <2>1. /\ Len(log') = Len(log) + 1 /\ Len(delta') = Len(delta) + 1
        /\ mine' = [mine EXCEPT ![v] = Len(log')] /\ visible' = visible
        /\ pc'[v] \in {"idle", "lock"} /\ \A u \in Threads \ {v} : pc'[u] = pc[u]
    <3> DEFINE c == ApplyToBoth(log[Len(log)], op)
    <3>1. log' = Append(log, c) /\ delta' = Append(delta, op)
      BY <1>4 DEF Push
    <3>2. Len(log') = Len(log) + 1 /\ Len(delta') = Len(delta) + 1
      <4> HIDE DEF c
      <4>1. QED
        BY <1>1, <3>1
    <3>3. QED
      BY <1>1, <1>4, <3>2 DEF Push, published, Goto
  <2>2. Taken' = Taken
    BY <1>1, <2>1 DEF Taken
  <2>3. ASSUME NEW w \in Writers
        PROVE  /\ mine'[w] \in 1 .. Len(log')
               /\ pc'[w] \in {"copy", "apply"} => mine'[w] <= Taken'
               /\ pc'[w] = "bump" => mine'[w] <= visible'
    <3>1. CASE w = v
      <4>1. mine'[w] = Len(log')
        BY <1>1, <2>1, <3>1
      <4>2. QED
        BY <1>1, <2>1, <3>1, <4>1
    <3>2. CASE w # v
      <4>1. mine'[w] = mine[w] /\ pc'[w] = pc[w] /\ visible' = visible
        BY <1>1, <2>1, <3>2
      <4>2. /\ mine[w] \in 1 .. Len(log)
            /\ pc[w] \in {"copy", "apply"} => mine[w] <= Taken
            /\ pc[w] = "bump" => mine[w] <= visible
        BY DEF MineOK
      <4>3. QED
        BY <1>1, <2>1, <2>2, <4>1, <4>2
    <3>3. QED
      BY <3>1, <3>2
  <2>4. QED
    BY <2>3 DEF MineOK
<1>5. ASSUME NEW t \in Triggers, Swap(t) PROVE MineOK'
  <2>1. /\ Len(delta') = 0 /\ UNCHANGED <<log, mine, visible>>
        /\ pc[t] = "swap" /\ pc' = [pc EXCEPT ![t] = "copy"]
    BY <1>1, <1>5 DEF Swap, Goto, published
  <2>2. Taken' = Len(log) /\ Taken <= Len(log) /\ Taken \in Int
    BY <1>1, <2>1 DEF Taken
  <2>3. ASSUME NEW w \in Writers
        PROVE  /\ mine'[w] \in 1 .. Len(log')
               /\ pc'[w] \in {"copy", "apply"} => mine'[w] <= Taken'
               /\ pc'[w] = "bump" => mine'[w] <= visible'
    <3>1. mine[w] \in 1 .. Len(log) /\ (pc[w] = "bump" => mine[w] <= visible)
      BY DEF MineOK
    <3>2. mine'[w] <= Taken' /\ mine'[w] \in 1 .. Len(log')
      BY <1>1, <2>1, <2>2, <3>1
    <3>3. pc'[w] = "bump" => pc[w] = "bump"
      BY <1>1, <2>1
    <3>4. QED
      BY <2>1, <3>1, <3>2, <3>3
  <2>4. QED
    BY <2>3 DEF MineOK
<1>6. ASSUME NEW t \in Triggers, Copy(t) PROVE MineOK'
  BY <1>1, <1>6 DEF Copy, Goto, MineOK, Taken, published, writes
<1>7. ASSUME NEW t \in Triggers, ApplyDelta(t) PROVE MineOK'
  BY <1>1, <1>7 DEF ApplyDelta, MineOK, Taken, published, writes
<1>8. ASSUME NEW t \in Triggers, Publish(t) PROVE MineOK'
  <2>1. visible' = Taken
    <3>1. reach[t] + Len(local[t]) = Taken /\ Len(local[t]) = 0 /\ reach[t] \in Nat
      BY <1>8 DEF Publish, Goto, Base, TypeOK, NoWriteLost, Completes
    <3>2. QED
      BY <1>8, <3>1 DEF Publish
  <2>2. \A u \in Triggers \ {t} : pc[u] # "bump"
    BY <1>8 DEF Publish, Goto, Base, TransitionExclusive, Critical
  <2>3. QED
    BY <1>1, <1>8, <2>1, <2>2 DEF Publish, Goto, MineOK, Taken, writes
<1>9. ASSUME NEW t \in Triggers, Bump(t) PROVE MineOK'
  BY <1>1, <1>9 DEF Bump, Resume, Goto, MineOK, Taken, published, writes
<1>10. QED
  BY <1>2, <1>3, <1>4, <1>5, <1>6, <1>7, <1>8, <1>9, StepKinds

(* When insert or remove returns from the transition its write triggered, that
   write is in the published map, whoever took it from the buffer. *)
THEOREM TriggeringWritePublished == Spec => []TriggeringWriteVisible
<1>1. Init => MineOK
  BY DEF Init, MineOK, Threads, Triggers
<1>2. Base /\ MineOK /\ [Next]_vars => MineOK'
  BY MineStep
<1>3. Base /\ MineOK => TriggeringWriteVisible
  BY DEF MineOK, TriggeringWriteVisible, Base, TypeOK
<1>4. QED
  BY BaseInvariant, <1>1, <1>2, <1>3, PTL DEF Spec

-----------------------------------------------------------------------------
(* What the maps contain. *)

(* A transition's private copy is the state of the log it has reached, which is
   not behind the published one. *)
CopyOK ==
    \A t \in Triggers :
        pc[t] = "apply" => next[t] = log[reach[t]][made[t]] /\ visible <= reach[t]

(* A copy that was made before R was loaded holds no write, and there will be
   none in the map that it replaces. *)
Overtaken ==
    \A t \in Triggers :
        pc[t] = "apply" /\ made[t] # origin =>
            made[t] = "nothing" /\ local[t] = <<>> /\ visible = 1 /\ reach[t] = 1

(* The log starts with R, or with nothing. *)
Starts == log[1] = Unwritten

Values == Starts /\ CopyOK /\ Overtaken /\ MapIsPrefix

(* A private copy follows the log, and publishing it keeps the map in the log. *)
LEMMA ValuesStep ==
  ASSUME Base, Values, [Next]_vars
  PROVE  Values'
<1>1. /\ visible \in 1 .. Len(log) /\ log \in Seq(Histories)
      /\ pc = [u \in Threads |-> pc[u]]
      /\ origin \in Origins /\ made \in [Triggers -> Origins]
      /\ next \in [Triggers -> Contents] /\ reach \in [Triggers -> Nat \ {0}]
      /\ local \in [Triggers -> Seq(WriteOp)]
      /\ Len(log) \in Nat /\ Len(delta) \in Nat /\ \A t \in Triggers : Len(local[t]) \in Nat
      /\ \A t \in Triggers : t \in Threads
      /\ map = log[visible][origin]
  BY ThreadFacts DEF Base, TypeOK, Values, MapIsPrefix
<1>A. \A t \in Triggers : pc[t] = "apply" =>
          /\ next[t] = log[reach[t]][made[t]] /\ visible <= reach[t]
          /\ reach[t] + Len(local[t]) = Taken /\ Continues(reach[t], local[t])
          /\ \A u \in Triggers \ {t} : pc[u] # "apply"
  BY DEF Values, CopyOK, Base, NoWriteLost, Completes, TransitionExclusive, Critical
<1>B. \A t \in Triggers : pc[t] = "apply" /\ made[t] # origin =>
          made[t] = "nothing" /\ local[t] = <<>> /\ visible = 1 /\ reach[t] = 1
  BY DEF Values, Overtaken
<1>S. log[1] = Unwritten /\ 1 \in 1 .. Len(log)
  BY <1>1 DEF Values, Starts
<1>2. CASE Still
  <2>1. /\ UNCHANGED <<map, visible, origin, log, next, reach, made, local>>
        /\ \A t \in Triggers : pc'[t] = "apply" => pc[t] = "apply"
    BY <1>2 DEF Still, published, writes, copy
  <2>2. CopyOK' /\ MapIsPrefix'
    BY <1>1, <1>A, <2>1 DEF CopyOK, MapIsPrefix
  <2>3. Overtaken'
    BY <1>B, <2>1 DEF Overtaken
  <2>4. QED
    BY <1>S, <2>1, <2>2, <2>3 DEF Values, Starts
<1>3. CASE BulkStore
  <2>1. /\ pc' = [pc EXCEPT ![Main] = "clear"] /\ ~ Loaded
        /\ map' = Relation /\ visible' = 1 /\ origin' = "relation"
        /\ UNCHANGED <<log, next, reach, made, local>>
    BY <1>3 DEF BulkStore, Goto, Loaded, writes, copy
  <2>2. /\ Len(log) = 1 /\ visible = 1
        /\ \A t \in Triggers : local[t] = <<>> /\ reach[t] = 1
    <3>1. Len(log) = 1 /\ \A t \in Triggers : local[t] = <<>> /\ reach[t] = 1
      BY <2>1 DEF Base, LoadPhase
    <3>2. QED
      BY <1>1, <3>1
  <2>3. \A t \in Triggers : pc'[t] = "apply" => pc[t] = "apply"
    BY <1>1, <2>1
  <2>4. CopyOK'
    BY <1>A, <2>1, <2>2, <2>3 DEF CopyOK
  <2>5. Overtaken'
    BY <1>1, <2>1, <2>2 DEF Overtaken, Origins
  <2>6. MapIsPrefix'
    <3>1. log[1]["relation"] = Relation
      BY <1>S DEF Unwritten, Origins
    <3>2. QED
      BY <2>1, <3>1 DEF MapIsPrefix
  <2>7. QED
    BY <1>S, <2>1, <2>4, <2>5, <2>6 DEF Values, Starts
<1>4. ASSUME NEW w \in Writers, NEW op \in WriteOp, Push(w, op)
      PROVE  Values'
  <2> DEFINE c == ApplyToBoth(log[Len(log)], op)
  <2>1. /\ \E to \in {"idle", "lock"} : pc' = [pc EXCEPT ![w] = to]
        /\ UNCHANGED <<map, visible, origin, next, reach, made, local>>
        /\ log' = Append(log, c)
    BY <1>4 DEF Push, published, copy, Goto
  <2>2. \A i \in 1 .. Len(log) : log'[i] = log[i]
    <3> HIDE DEF c
    <3>1. QED
      BY <1>1, <2>1
  <2> HIDE DEF c
  <2>3. \A t \in Triggers : pc'[t] = "apply" => pc[t] = "apply"
    BY <1>1, <2>1
  <2>4. ASSUME NEW t \in Triggers, pc'[t] = "apply"
        PROVE  next'[t] = log'[reach'[t]][made'[t]] /\ visible' <= reach'[t]
    <3>1. reach[t] \in 1 .. Len(log)
      <4>1. reach[t] + Len(local[t]) = Len(log) - Len(delta)
        BY <1>A, <2>3, <2>4 DEF Taken
      <4>2. reach[t] \in Nat \ {0} /\ Len(local[t]) \in Nat
        BY <1>1
      <4>3. QED
        BY <1>1, <4>1, <4>2
    <3>2. QED
      BY <1>A, <2>1, <2>2, <2>3, <2>4, <3>1
  <2>5. CopyOK'
    BY <2>4 DEF CopyOK
  <2>6. Overtaken'
    BY <1>B, <2>1, <2>3 DEF Overtaken
  <2>7. MapIsPrefix' /\ Starts'
    BY <1>1, <1>S, <2>1, <2>2 DEF MapIsPrefix, Starts
  <2>8. QED
    BY <2>5, <2>6, <2>7 DEF Values
<1>5. ASSUME NEW t \in Triggers, Swap(t) PROVE Values'
  <2>1. /\ UNCHANGED <<map, visible, origin, log, next, reach, made>>
        /\ pc' = [pc EXCEPT ![t] = "copy"]
        /\ \A u \in Triggers \ {t} : local'[u] = local[u]
    BY <1>1, <1>5 DEF Swap, Goto, published, copy
  <2>2. \A u \in Triggers : pc'[u] = "apply" => u # t /\ pc[u] = "apply"
    BY <1>1, <2>1
  <2>3. CopyOK' /\ MapIsPrefix' /\ Starts'
    BY <1>1, <1>A, <1>S, <2>1, <2>2 DEF CopyOK, MapIsPrefix, Starts
  <2>4. Overtaken'
    BY <1>B, <2>1, <2>2 DEF Overtaken
  <2>5. QED
    BY <2>3, <2>4 DEF Values
<1>6. ASSUME NEW t \in Triggers, Copy(t) PROVE Values'
  <2>1. /\ UNCHANGED <<map, visible, origin, log, local>> /\ pc' = [pc EXCEPT ![t] = "apply"]
        /\ next' = [next EXCEPT ![t] = map] /\ reach' = [reach EXCEPT ![t] = visible]
        /\ made' = [made EXCEPT ![t] = origin]
    BY <1>6 DEF Copy, Goto, published, writes
  <2>2. ASSUME NEW u \in Triggers, pc'[u] = "apply", u # t
        PROVE  /\ next'[u] = log'[reach'[u]][made'[u]] /\ visible' <= reach'[u]
               /\ made'[u] # origin' =>
                    made'[u] = "nothing" /\ local'[u] = <<>> /\ visible' = 1 /\ reach'[u] = 1
    BY <1>1, <1>A, <1>B, <2>1, <2>2
  <2>3. /\ next'[t] = log'[reach'[t]][made'[t]] /\ visible' <= reach'[t]
        /\ made'[t] = origin'
    BY <1>1, <2>1
  <2>4. QED
    BY <1>1, <1>S, <2>1, <2>2, <2>3 DEF Values, CopyOK, Overtaken, MapIsPrefix, Starts
<1>7. ASSUME NEW t \in Triggers, ApplyDelta(t) PROVE Values'
  <2>1. /\ UNCHANGED <<log, visible, origin, map, pc, made>> /\ pc[t] = "apply" /\ local[t] # <<>>
        /\ next' = [next EXCEPT ![t] = Apply(next[t], Head(local[t]))]
        /\ reach' = [reach EXCEPT ![t] = reach[t] + 1]
    BY <1>7 DEF ApplyDelta, published, writes
  <2>2. Apply(next[t], Head(local[t])) = log[reach[t] + 1][made[t]]
    <3>1. log[reach[t] + 1] = ApplyToBoth(log[reach[t] + 1 - 1], local[t][1])
      <4>1. 1 \in 1 .. Len(local[t])
        BY <1>1, <2>1
      <4>2. Continues(reach[t], local[t])
        BY <1>A, <2>1
      <4>3. QED
        BY <4>1, <4>2 DEF Continues
    <3>2. Head(local[t]) = local[t][1] /\ reach[t] + 1 - 1 = reach[t]
      BY <1>1, <2>1
    <3>3. log[reach[t] + 1][made[t]] = Apply(log[reach[t]][made[t]], Head(local[t]))
      BY <1>1, <3>1, <3>2 DEF ApplyToBoth
    <3>4. QED
      BY <1>A, <2>1, <3>3
  <2>3. visible <= reach[t] + 1
    <3>1. visible \in Nat /\ reach[t] \in Nat
      BY <1>1
    <3>2. visible <= reach[t]
      BY <1>A, <2>1
    <3>3. QED
      BY <3>1, <3>2
  <2>4. \A u \in Triggers : pc'[u] = "apply" => u = t
    BY <1>A, <2>1
  <2>5. CopyOK'
    BY <1>1, <2>1, <2>2, <2>3, <2>4 DEF CopyOK
  <2>6. Overtaken'
    BY <1>B, <2>1, <2>4 DEF Overtaken
  <2>7. QED
    BY <1>1, <1>S, <2>1, <2>5, <2>6 DEF Values, MapIsPrefix, Starts
<1>8. ASSUME NEW t \in Triggers, Publish(t) PROVE Values'
  <2>1. \A u \in Triggers \ {t} : pc[u] # "apply"
    BY <1>A, <1>8 DEF Publish, Goto
  <2>2. \A u \in Triggers : pc'[u] # "apply"
    BY <1>1, <1>8, <2>1 DEF Publish, Goto
  <2>3. map' = log'[visible'][origin']
    BY <1>A, <1>8 DEF Publish, Goto, writes
  <2>4. log' = log
    BY <1>8 DEF Publish, writes
  <2>5. QED
    BY <1>S, <2>2, <2>3, <2>4 DEF Values, CopyOK, Overtaken, MapIsPrefix, Starts
<1>9. ASSUME NEW t \in Triggers, Bump(t) PROVE Values'
  <2>1. /\ UNCHANGED <<map, visible, origin, log, local>>
        /\ \A u \in Triggers \ {t} :
              next'[u] = next[u] /\ reach'[u] = reach[u] /\ made'[u] = made[u]
    BY <1>1, <1>9 DEF Bump, published, writes
  <2>2. \A u \in Triggers : pc'[u] = "apply" => u # t /\ pc[u] = "apply"
    BY <1>1, <1>9 DEF Bump, Resume, Goto
  <2>3. CopyOK' /\ MapIsPrefix' /\ Starts'
    BY <1>1, <1>A, <1>S, <2>1, <2>2 DEF CopyOK, MapIsPrefix, Starts
  <2>4. Overtaken'
    BY <1>B, <2>1, <2>2 DEF Overtaken
  <2>5. QED
    BY <2>3, <2>4 DEF Values
<1>10. QED
  BY <1>2, <1>3, <1>4, <1>5, <1>6, <1>7, <1>8, <1>9, StepKinds

(* Values holds throughout, whenever the timer ticks. *)
LEMMA ValuesInvariant == Spec => []Values
<1>1. Init => Values
  <2> SUFFICES ASSUME Init PROVE Values
    OBVIOUS
  <2>1. \A t \in Triggers : pc[t] # "apply"
    BY ThreadFacts DEF Init, Threads, Triggers
  <2>2. log[1] = Unwritten /\ visible = 1 /\ origin = "nothing" /\ map = EmptyContents
    BY DEF Init
  <2>3. Unwritten["nothing"] = EmptyContents
    BY DEF Unwritten, Origins
  <2>4. QED
    BY <2>1, <2>2, <2>3 DEF Values, Starts, CopyOK, Overtaken, MapIsPrefix
<1>2. Base /\ Values /\ [Next]_vars => Values'
  BY ValuesStep
<1>3. QED
  BY BaseInvariant, <1>1, <1>2, PTL DEF Spec

(* What probes read is the result of a prefix of the accepted writes, and of R
   unless the published copy was made before R was stored. *)
THEOREM PublishedPrefix == Spec => []MapIsPrefix
<1>1. Values => MapIsPrefix
  BY DEF Values
<1>2. QED
  BY ValuesInvariant, <1>1, PTL

-----------------------------------------------------------------------------
(* The destructor runs when its callers are gone and the timer is joined, and
   nobody fills the buffer after its transition has emptied it. *)
Ending ==
    /\ pc[Main] \in {"join", "done"} \cup InTransition =>
          /\ \A w \in Writers : pc[w] = "done"
          /\ \A p \in Probers : pc[p] = "idle" /\ todo[p] = 0
    /\ pc[Main] \in {"done"} \cup InTransition => pc[Timer] = "done"
    /\ pc[Main] \in {"copy", "apply", "bump", "done"} => delta = <<>>

(* Nobody is left to disturb the destructor. *)
LEMMA EndingStep ==
  ASSUME Base, Ending, [Next]_vars
  PROVE  Ending'
<1>1. /\ pc = [u \in Threads |-> pc[u]] /\ todo \in [Probers -> 0 .. MaxProbes]
      /\ PcOK
  BY DEF Base, TypeOK
<1> USE ThreadFacts DEF Ending, Goto, InTransition, BeforeSwap, Critical
<1>2. CASE BulkStore \/ BulkClear \/ TimerWake
  BY <1>1, <1>2 DEF BulkStore, BulkClear, TimerWake, writes, PcOK
<1>3. CASE DestroyStop \/ DestroyJoin
  BY <1>1, <1>3 DEF DestroyStop, DestroyJoin, writes
<1>4. ASSUME NEW p \in Probers, ProbeEnter(p) \/ ProbeRead(p) \/ ProbeLeave(p) PROVE Ending'
  <2>1. /\ UNCHANGED delta
        /\ \A u \in Triggers : pc'[u] = pc[u]
        /\ ~ (pc[p] = "idle" /\ todo[p] = 0)
    BY <1>1, <1>4 DEF ProbeEnter, ProbeRead, ReadMap, ProbeLeave, writes
  <2>2. QED
    BY <2>1
<1>5. ASSUME NEW p \in Probers, ProbeNotify(p) PROVE Ending'
  <2>1. /\ UNCHANGED delta /\ pc[p] = "notify"
        /\ pc'[Main] = IF pc[Main] = "blocked" THEN "lock" ELSE pc[Main]
    BY <1>1, <1>5 DEF ProbeNotify, writes
  <2>2. pc[Main] \notin {"join", "done"} \cup InTransition
    BY <2>1
  <2>3. QED
    BY <2>1, <2>2
<1>6. ASSUME NEW w \in Writers, Writer(w) PROVE Ending'
  <2>1. pc[w] # "done" /\ pc'[Main] = pc[Main]
    BY <1>1, <1>6 DEF Writer, WriterExit, Push
  <2>2. QED
    BY <2>1
<1>7. ASSUME NEW t \in Triggers, Transition(t) \/ SpuriousWake(t) PROVE Ending'
  <2>1. /\ pc[t] \in InTransition
        /\ UNCHANGED todo
        /\ delta' = delta \/ delta' = <<>>
        /\ \A u \in Threads \ {t} : pc'[u] = pc[u]
        /\ pc'[t] \in InTransition \/ pc'[t] = Resume(t)
    BY <1>1, <1>7 DEF Transition, SpuriousWake, Lock, TestReaders, Block, Swap, Copy, ApplyDelta,
                      Publish, Bump, writes
  <2>2. CASE t # Main
    BY <2>1, <2>2
  <2>3. CASE t = Main
    <3>1. Resume(t) = "done" /\ pc'[Main] \in {"done"} \cup InTransition
      BY <2>1, <2>3 DEF Resume
    <3>2. pc'[Main] \in {"copy", "apply", "bump", "done"} => delta' = <<>>
      BY <1>1, <1>7, <2>3 DEF Transition, SpuriousWake, Lock, TestReaders, Block, Swap, Copy,
                              ApplyDelta, Publish, Bump, writes
    <3>3. QED
      BY <2>1, <2>3, <3>1, <3>2
  <2>4. QED
    BY <2>2, <2>3
<1>8. CASE UNCHANGED vars
  BY <1>8 DEF vars, writes
<1>9. QED
  BY <1>2, <1>3, <1>4, <1>5, <1>6, <1>7, <1>8 DEF Next, Prober, Terminated

(* ~ECHIIndex applies everything that was accepted. *)
THEOREM DestructorDrainsAll == Spec => []DestructorDrains
<1>1. Init => Ending
  BY ThreadFacts DEF Init, Ending, InTransition, BeforeSwap, Critical, Threads, Triggers
<1>2. Base /\ Ending /\ [Next]_vars => Ending'
  BY EndingStep
<1>3. Base /\ Ending /\ Values => DestructorDrains
  <2> SUFFICES ASSUME Base, Ending, Values, pc[Main] = "done"
               PROVE  delta = <<>> /\ map = log[Len(log)][origin]
    BY DEF DestructorDrains
  <2>1. delta = <<>> /\ \A t \in Triggers : pc[t] = "done"
    BY ThreadFacts DEF Ending, Triggers
  <2>2. visible = Len(log) - Len(delta)
    BY <2>1 DEF Base, NoWriteLost, Taken
  <2>3. Len(delta) = 0 /\ Len(log) \in Nat
    BY <2>1 DEF Base, TypeOK
  <2>4. QED
    BY <2>1, <2>2, <2>3 DEF Values, MapIsPrefix
<1>4. QED
  BY BaseInvariant, ValuesInvariant, <1>1, <1>2, <1>3, PTL DEF Spec

-----------------------------------------------------------------------------
(* ECHI implements StaleIndex: a write is accepted when it is buffered, any
   number of writes becomes visible when the map is stored, and a probe reads
   when it loads the pointer.  A transition that stores a copy made before R
   was loaded forgets R, and nothing else. *)

(* Every step of ECHI is a step of StaleIndex or changes nothing it has. *)
LEMMA StaleStep ==
  ASSUME Base, Values, [Next]_vars
  PROVE  [Stale!Next]_(Stale!vars)
<1> USE ThreadFacts DEF Stale!vars, Stale!Next
<1>1. log \in Seq(Histories) /\ visible \in 1 .. Len(log) /\ map = log[visible][origin]
  BY DEF Base, TypeOK, Values, MapIsPrefix
<1>2. CASE UNCHANGED <<log, visible, origin, snap>>
  BY <1>2
<1>3. CASE BulkStore
  <2>1. Len(log) = 1 /\ visible = 1
    <3>1. ~ Loaded
      BY <1>3 DEF BulkStore, Goto, Loaded
    <3>2. Len(log) = 1
      BY <3>1 DEF Base, LoadPhase
    <3>3. QED
      BY <1>1, <3>2
  <2>2. Stale!Load
    BY <1>3, <2>1 DEF BulkStore, writes, Stale!Load
  <2>3. QED
    BY <2>2
<1>4. ASSUME NEW w \in Writers, NEW op \in WriteOp, Push(w, op) PROVE Stale!Write
  <2>1. /\ Stale!WriteOp = WriteOp
        /\ Stale!ApplyToBoth(log[Len(log)], op) = ApplyToBoth(log[Len(log)], op)
    BY DEF Stale!WriteOp, WriteOp, Stale!ApplyToBoth, ApplyToBoth, Stale!Apply, Apply,
           Stale!Origins, Origins
  <2>2. /\ log' = Append(log, ApplyToBoth(log[Len(log)], op))
        /\ UNCHANGED <<visible, origin, snap>>
    BY <1>4 DEF Push, published
  <2>3. QED
    BY <2>1, <2>2 DEF Stale!Write
<1>5. ASSUME NEW t \in Triggers, Publish(t) PROVE [Stale!Next]_(Stale!vars)
  <2>1. /\ pc[t] = "apply" /\ local[t] = <<>> /\ visible' = reach[t] /\ origin' = made[t]
        /\ UNCHANGED <<log, snap>>
    BY <1>5 DEF Publish, Goto, writes
  <2>2. CASE made[t] = origin
    <3>1. visible <= reach[t] /\ reach[t] + Len(local[t]) = Len(log) - Len(delta)
      BY <2>1 DEF Values, CopyOK, Base, NoWriteLost, Completes, Taken
    <3>2. reach[t] \in Nat /\ Len(local[t]) = 0 /\ Len(delta) \in Nat /\ Len(log) \in Nat
      BY <2>1 DEF Base, TypeOK
    <3>3. visible' \in visible .. Len(log)
      BY <1>1, <2>1, <3>1, <3>2
    <3>4. QED
      BY <2>1, <2>2, <3>3 DEF Stale!Publish
  <2>3. CASE made[t] # origin
    <3>1. made[t] = "nothing" /\ visible = 1 /\ reach[t] = 1
      BY <2>1, <2>3 DEF Values, Overtaken
    <3>2. Stale!Forget
      BY <2>1, <3>1 DEF Stale!Forget
    <3>3. QED
      BY <3>2
  <2>4. QED
    BY <2>2, <2>3
<1>6. ASSUME NEW p \in Probers, ProbeRead(p) PROVE Stale!Probe(p)
  BY <1>1, <1>6 DEF ProbeRead, ReadMap, published, writes, Stale!Probe
<1>7. ASSUME NEW p \in Probers, ProbeEnter(p) \/ ProbeLeave(p) \/ ProbeNotify(p)
      PROVE  UNCHANGED <<log, visible, origin, snap>>
  BY <1>7 DEF ProbeEnter, ProbeLeave, ProbeNotify, published, writes
<1>8. ASSUME NEW w \in Writers, WriterExit(w) PROVE UNCHANGED <<log, visible, origin, snap>>
  BY <1>8 DEF WriterExit, published, writes
<1>9. ASSUME NEW t \in Triggers,
             Lock(t) \/ TestReaders(t) \/ Block(t) \/ SpuriousWake(t) \/ Swap(t) \/ Copy(t)
                \/ ApplyDelta(t) \/ Bump(t)
      PROVE  UNCHANGED <<log, visible, origin, snap>>
  BY <1>9 DEF Lock, TestReaders, Block, SpuriousWake, Swap, Copy, ApplyDelta, Bump,
              published, writes
<1>10. CASE BulkClear \/ TimerWake \/ DestroyStop \/ DestroyJoin \/ UNCHANGED vars
  BY <1>2, <1>10 DEF BulkClear, TimerWake, DestroyStop, DestroyJoin, vars,
                     published, writes
<1>11. QED
  BY <1>2, <1>3, <1>4, <1>5, <1>6, <1>7, <1>8, <1>9, <1>10
     DEF Next, Prober, Writer, Transition, Terminated

(* Seen by its callers, the index with its buffer, locks and timer is a log of
   writes of which every probe reads a prefix that never shrinks; R lies under
   it from the load on, or is lost before the first write shows. *)
THEOREM Refinement == Spec => ImplementsStaleIndex
<1>1. Init => Stale!Init
  BY DEF Init, Stale!Init, Stale!EmptyContents, EmptyContents, Stale!Unwritten, Unwritten,
         Stale!Origins, Origins
<1>2. Base /\ Values /\ [Next]_vars => [Stale!Next]_(Stale!vars)
  BY StaleStep
<1>3. QED
  BY BaseInvariant, ValuesInvariant, <1>1, <1>2, PTL
     DEF Spec, ImplementsStaleIndex, Stale!Spec

-----------------------------------------------------------------------------
(* What keeps a thread waiting. *)

ProberReady(p) ==
    \/ pc[p] \in {"read", "leave", "notify"}
    \/ pc[p] = "idle" /\ Loaded /\ todo[p] > 0

(* Without another write: a writer that has nothing to do may leave. *)
WriterReady(w) == pc[w] = "idle" /\ Loaded

(* Without a spurious wake-up. *)
TransitionReady(t) ==
    \/ pc[t] = "lock" /\ mtx = NoThread
    \/ pc[t] \in Critical

TimerReady == pc[Timer] = "sleep"

MainReady ==
    \/ pc[Main] \in {"load", "clear"}
    \/ /\ pc[Main] = "use"
       /\ \A w \in Writers : pc[w] = "done"
       /\ \A p \in Probers : pc[p] = "idle" /\ todo[p] = 0
    \/ pc[Main] = "join" /\ pc[Timer] = "done"

SomebodyReady ==
    \/ MainReady \/ TimerReady
    \/ \E p \in Probers : ProberReady(p)
    \/ \E w \in Writers : WriterReady(w)
    \/ \E t \in Triggers : TransitionReady(t)

(* Until the index is destroyed some thread can go on, or a transition sleeps
   although no probe is left that could wake it. *)
StallsOversleep == pc[Main] # "done" => SomebodyReady \/ Overslept

(* The mutexes of the index and the two joins of its threads never close a
   circle: the wake-up that a probe sends without transition_mutex_
   (echi_index.cpp:39) is the only thing a thread can wait for in vain. *)
THEOREM OnlyOversleepingStalls == Spec => []StallsOversleep
<1>1. Base => StallsOversleep
  <2> SUFFICES ASSUME Base, pc[Main] # "done", ~ SomebodyReady
               PROVE  Overslept
    BY DEF StallsOversleep
  <2> USE ThreadFacts DEF Base
  <2>1. \A t \in Triggers : pc[t] \notin Critical
    BY DEF SomebodyReady, TransitionReady
  <2>2. mtx = NoThread
    BY <2>1 DEF TypeOK, TransitionExclusive
  <2>3. \A t \in Triggers : pc[t] # "lock"
    BY <2>2 DEF SomebodyReady, TransitionReady
  <2>4. \A t \in Triggers : pc[t] \in InTransition => pc[t] = "blocked"
    BY <2>1, <2>3 DEF InTransition, BeforeSwap, Critical
  <2>5. \A p \in Probers : pc[p] = "idle"
    BY DEF PcOK, SomebodyReady, ProberReady
  <2>6. active = 0
    <3>1. {p \in Probers : pc[p] \in {"read", "leave"}} = {}
      BY <2>5
    <3>2. QED
      BY <3>1, FS_EmptySet DEF ReadersCounted
  <2>7. \E t \in Triggers : pc[t] = "blocked"
    <3> SUFFICES ASSUME \A t \in Triggers : pc[t] # "blocked" PROVE FALSE
      OBVIOUS
    <3>1. /\ pc[Main] \in {"use", "join"} /\ Loaded
          /\ pc[Timer] = "done" /\ \A w \in Writers : pc[w] = "done"
      BY <2>4 DEF PcOK, SomebodyReady, MainReady, TimerReady, WriterReady, Loaded
    <3>2. \A p \in Probers : todo[p] = 0
      BY <2>5, <3>1, ParametersAssumption DEF TypeOK, SomebodyReady, ProberReady
    <3>3. QED
      BY <2>5, <3>1, <3>2 DEF SomebodyReady, MainReady
  <2>8. QED
    BY <2>5, <2>6, <2>7 DEF Overslept
<1>2. QED
  BY BaseInvariant, <1>1, PTL
=============================================================================
