-------------------------- MODULE Reclamation_proofs --------------------------
(***************************************************************************)
(* The grace period of EpochReclamation, for any number of threads and     *)
(* objects and any threshold.  That an object is not deleted under a       *)
(* reader it was taken from rests on three facts: outside a read section a *)
(* thread has nothing open; the list a thread is about to delete has       *)
(* nothing in it that is open to anybody, from the test for readers on,    *)
(* since the thread retires nothing meanwhile; and an object is retired    *)
(* once, so nobody else makes it open again.                               *)
(***************************************************************************)
EXTENDS Reclamation, TLAPS

\* A thread that leaves is in a section; a thread in none has nothing open.
Sections ==
    /\ \A t \in Threads : At(t, "leave") => depth[t] > 0
    /\ \A t \in Threads : depth[t] = 0 => open[t] = {}

\* From the successful test on.
Deleting(t) == rpc[t] \in {"swap", "free"}

ListClosed ==
    \A t, u \in Threads : Deleting(t) => open[u] \cap Listed(t) = {}

Inv == RTypeOK /\ Sections /\ ListClosed /\ GracePeriod

-----------------------------------------------------------------------------
LEMMA InitInv == RInit => Inv
<1> SUFFICES ASSUME RInit PROVE Inv
  OBVIOUS
<1>1. RTypeOK
  BY DEF RInit, RTypeOK, Steps
<1>2. Sections
  BY DEF RInit, Sections, At
<1>3. ListClosed
  BY DEF RInit, ListClosed, Deleting
<1>4. GracePeriod
  BY DEF RInit, GracePeriod
<1> QED
  BY <1>1, <1>2, <1>3, <1>4 DEF Inv

\* The epoch a swap leaves behind is a number.
LEMMA SwapType ==
  ASSUME RTypeOK, NEW t \in Threads, epoch' \in SwapTo(t)
  PROVE  epoch' \in Nat
BY DEF RTypeOK, SwapTo

LEMMA StepType ==
  ASSUME Inv, RNext
  PROVE  RTypeOK'
<1> USE DEF Inv, RTypeOK, At, GoTo, Steps
<1> PICK t \in Threads :
      \/ Begin(t) \/ End(t) \/ RStep(t)
      \/ \E p \in Object : Fresh(p) /\ Retire(t, p)
  BY DEF RNext
<1>1. CASE Begin(t)
  BY <1>1 DEF Begin
<1>2. CASE End(t)
  BY <1>2 DEF End
<1>3. CASE Join(t)
  BY <1>3 DEF Join
<1>4. CASE Leave(t)
  <2>1. depth[t] - 1 \in Nat
    BY <1>4 DEF Leave, Sections
  <2> QED
    BY <1>4, <2>1 DEF Leave
<1>5. CASE CheckEpoch(t)
  BY <1>5 DEF CheckEpoch
<1>6. CASE Advance(t)
  BY <1>6 DEF Advance
<1>7. CASE Bump(t)
  BY <1>7, SwapType DEF Bump
<1>8. CASE LoadEpoch(t)
  BY <1>8 DEF LoadEpoch
<1>9. CASE TestReaders(t)
  BY <1>9 DEF TestReaders
<1>10. CASE Swap(t)
  BY <1>10, SwapType DEF Swap
<1>11. CASE Free(t)
  <2>1. Listed(t) \subseteq Object
    BY DEF Listed
  <2> QED
    BY <1>11, <2>1 DEF Free
<1>12. ASSUME NEW p \in Object, Retire(t, p) PROVE RTypeOK'
  BY <1>12 DEF Retire
<1> QED
  BY <1>1, <1>2, <1>3, <1>4, <1>5, <1>6, <1>7, <1>8, <1>9, <1>10, <1>11, <1>12
  DEF RStep

LEMMA StepSections ==
  ASSUME Inv, RNext
  PROVE  Sections'
<1> USE DEF Inv, RTypeOK, At, GoTo, Sections
<1> PICK t \in Threads :
      \/ Begin(t) \/ End(t) \/ RStep(t)
      \/ \E p \in Object : Fresh(p) /\ Retire(t, p)
  BY DEF RNext
<1>1. CASE Begin(t)
  BY <1>1 DEF Begin
<1>2. CASE End(t)
  BY <1>2 DEF End
<1>3. CASE Join(t)
  BY <1>3 DEF Join
<1>4. CASE Leave(t)
  BY <1>4 DEF Leave
<1>5. CASE CheckEpoch(t)
  BY <1>5 DEF CheckEpoch
<1>6. CASE Advance(t)
  BY <1>6 DEF Advance
<1>7. CASE Bump(t)
  BY <1>7 DEF Bump
<1>8. CASE LoadEpoch(t)
  BY <1>8 DEF LoadEpoch
<1>9. CASE TestReaders(t)
  BY <1>9 DEF TestReaders
<1>10. CASE Swap(t)
  BY <1>10 DEF Swap
<1>11. CASE Free(t)
  BY <1>11 DEF Free
<1>12. ASSUME NEW p \in Object, Retire(t, p) PROVE Sections'
  BY <1>12 DEF Retire
<1> QED
  BY <1>1, <1>2, <1>3, <1>4, <1>5, <1>6, <1>7, <1>8, <1>9, <1>10, <1>11, <1>12
  DEF RStep

\* Only the test for readers makes a thread start to delete.
LEMMA StepListClosed ==
  ASSUME Inv, RNext
  PROVE  ListClosed'
<1> USE DEF Inv, RTypeOK, At, GoTo, Deleting
<1> PICK t \in Threads :
      \/ Begin(t) \/ End(t) \/ RStep(t)
      \/ \E p \in Object : Fresh(p) /\ Retire(t, p)
  BY DEF RNext
<1> SUFFICES ASSUME NEW v \in Threads, NEW u \in Threads, Deleting(v)'
             PROVE  (open[u] \cap Listed(v) = {})'
  BY DEF ListClosed
<1>1. ASSUME Deleting(v), retired'[v] = retired[v], open'[u] \subseteq open[u]
      PROVE  (open[u] \cap Listed(v) = {})'
  BY <1>1 DEF ListClosed, Listed
<1>2. CASE Begin(t) \/ End(t) \/ Join(t) \/ CheckEpoch(t) \/ Advance(t)
           \/ Bump(t) \/ LoadEpoch(t) \/ Swap(t)
  BY <1>1, <1>2 DEF Begin, End, Join, CheckEpoch, Advance, Bump, LoadEpoch, Swap
<1>3. CASE Leave(t)
  <2>1. Deleting(v) /\ retired'[v] = retired[v]
    BY <1>3 DEF Leave
  <2>2. open'[u] \subseteq open[u]
    BY <1>3 DEF Leave
  <2> QED
    BY <1>1, <2>1, <2>2
<1>4. CASE TestReaders(t)
  <2>1. CASE v = t
    <3>1. NoReaders
      BY <1>4, <2>1 DEF TestReaders
    <3>2. open[u] = {}
      BY <3>1 DEF NoReaders, Sections
    <3> QED
      BY <1>4, <3>2 DEF TestReaders
  <2>2. CASE v # t
    BY <1>1, <1>4, <2>2 DEF TestReaders
  <2> QED
    BY <2>1, <2>2
<1>5. CASE Free(t)
  <2>1. v # t
    BY <1>5 DEF Free
  <2> QED
    BY <1>1, <1>5, <2>1 DEF Free
<1>6. ASSUME NEW p \in Object, Fresh(p), Retire(t, p)
      PROVE  (open[u] \cap Listed(v) = {})'
  <2>1. v # t /\ Deleting(v) /\ retired'[v] = retired[v]
    BY <1>6 DEF Retire
  <2>2. open'[u] \subseteq open[u] \cup {p}
    BY <1>6 DEF Retire
  <2>3. p \notin Listed(v) /\ Listed(v)' = Listed(v)
    BY <1>6, <2>1 DEF Fresh, Listed
  <2>4. open[u] \cap Listed(v) = {}
    BY <2>1 DEF ListClosed
  <2> QED
    BY <2>2, <2>3, <2>4
<1> QED
  BY <1>2, <1>3, <1>4, <1>5, <1>6 DEF RStep

LEMMA StepGracePeriod ==
  ASSUME Inv, RNext
  PROVE  GracePeriod'
<1> USE DEF Inv, RTypeOK, At, GoTo
<1> PICK t \in Threads :
      \/ Begin(t) \/ End(t) \/ RStep(t)
      \/ \E p \in Object : Fresh(p) /\ Retire(t, p)
  BY DEF RNext
<1> SUFFICES ASSUME NEW u \in Threads
             PROVE  open'[u] \cap freed' = {}
  BY DEF GracePeriod
<1>1. open[u] \cap freed = {}
  BY DEF GracePeriod
<1>2. CASE Begin(t) \/ End(t) \/ Join(t) \/ CheckEpoch(t) \/ Advance(t)
           \/ Bump(t) \/ LoadEpoch(t) \/ TestReaders(t) \/ Swap(t)
  BY <1>1, <1>2 DEF Begin, End, Join, CheckEpoch, Advance, Bump, LoadEpoch,
                    TestReaders, Swap
<1>3. CASE Leave(t)
  BY <1>1, <1>3 DEF Leave
<1>4. CASE Free(t)
  <2>1. open[u] \cap Listed(t) = {}
    BY <1>4 DEF Free, ListClosed, Deleting
  <2> QED
    BY <1>1, <1>4, <2>1 DEF Free
<1>5. ASSUME NEW p \in Object, Fresh(p), Retire(t, p)
      PROVE  open'[u] \cap freed' = {}
  <2>1. open'[u] \subseteq open[u] \cup {p} /\ freed' = freed /\ p \notin freed
    BY <1>5 DEF Retire, Fresh
  <2> QED
    BY <1>1, <2>1
<1> QED
  BY <1>2, <1>3, <1>4, <1>5 DEF RStep

LEMMA StepInv == Inv /\ [RNext]_rvars => Inv'
<1> SUFFICES ASSUME Inv, [RNext]_rvars PROVE Inv'
  OBVIOUS
<1>1. CASE RNext
  BY <1>1, StepType, StepSections, StepListClosed, StepGracePeriod DEF Inv
<1>2. CASE UNCHANGED rvars
  BY <1>2 DEF rvars, Inv, RTypeOK, Sections, ListClosed, GracePeriod,
              At, Deleting, Listed
<1> QED
  BY <1>1, <1>2

-----------------------------------------------------------------------------
\* Every variable keeps its type; above all the count of readers never
\* becomes negative.
THEOREM TypeCorrect == RSpec => []RTypeOK
<1>1. Inv => RTypeOK
  BY DEF Inv
<1> QED
  BY <1>1, InitInv, StepInv, PTL DEF RSpec

\* Nothing is deleted under a read section that was open when it was retired,
\* although readers come and go between the test for readers and the deletion
\* (epoch_reclamation.hpp:99-110).
THEOREM NothingFreedUnderReaders == RSpec => []GracePeriod
<1>1. Inv => GracePeriod
  BY DEF Inv
<1> QED
  BY <1>1, InitInv, StepInv, PTL DEF RSpec
=============================================================================
