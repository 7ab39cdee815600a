----------------------------- MODULE Reclamation -----------------------------
(***************************************************************************)
(* EpochReclamation, the deferred deletion that the v1 indexes share: a    *)
(* reader registers for the length of a read section, a writer puts an     *)
(* object it has replaced into its own list, and a long enough list is     *)
(* deleted when no reader is registered.                                   *)
(*                                                                         *)
(* An action is one access to a shared atomic.  active_readers_ is the sum *)
(* of depth, so a test for zero asks that every depth is zero.  A client   *)
(* EXTENDS this module, makes calls with Begin, End and Retire and waits   *)
(* for Idle(t); RSpec is the most general client that retires an object    *)
(* only once.                                                              *)
(***************************************************************************)
EXTENDS Integers, Sequences

CONSTANTS
    Threads,          \* the threads that use the indexes
    Object,           \* what can be retired
    RetireThreshold   \* the length of a list at which it is reclaimed (64)

VARIABLES
    epoch,     \* global_epoch_, in units of GLOBAL_EPOCH_INC
    depth,     \* thread -> its share of active_readers_
    local,     \* thread -> tls_.local_epoch
    retired,   \* thread -> tls_.retired_objects
    freed,     \* the objects deleted so far
    seen,      \* thread -> the epoch its compare-and-swap expects
    rpc,       \* thread -> where its call of this class has got to
    open       \* history: thread -> retired by anyone since its read
               \* section began (empty outside a read section)

rvars == <<epoch, depth, local, retired, freed, seen, rpc, open>>

Steps == {"idle", "join", "leave", "check", "advance", "bump",
          "reclaim", "test", "swap", "free"}

Listed(t) == {retired[t][i] : i \in 1 .. Len(retired[t])}

Idle(t) == rpc[t] = "idle"

RInit ==
    /\ epoch = 0
    /\ depth = [t \in Threads |-> 0]
    /\ local = [t \in Threads |-> 0]
    /\ retired = [t \in Threads |-> << >>]
    /\ freed = {}
    /\ seen = [t \in Threads |-> 0]
    /\ rpc = [t \in Threads |-> "idle"]
    /\ open = [t \in Threads |-> {}]

-----------------------------------------------------------------------------
At(t, s)    == rpc[t] = s
GoTo(t, s)  == rpc' = [rpc EXCEPT ![t] = s]

\* beginRead notes the epoch ...
Begin(t) ==
    /\ At(t, "idle")
    /\ local' = [local EXCEPT ![t] = epoch]
    /\ GoTo(t, "join")
    /\ UNCHANGED <<epoch, depth, retired, freed, seen, open>>

\* ... and then registers; sections nest.
Join(t) ==
    /\ At(t, "join")
    /\ depth' = [depth EXCEPT ![t] = @ + 1]
    /\ GoTo(t, "idle")
    /\ UNCHANGED <<epoch, local, retired, freed, seen, open>>

\* The caller's EpochGuard goes out of scope.
End(t) ==
    /\ At(t, "idle")
    /\ depth[t] > 0
    /\ GoTo(t, "leave")
    /\ UNCHANGED <<epoch, depth, local, retired, freed, seen, open>>

Leave(t) ==
    /\ At(t, "leave")
    /\ depth' = [depth EXCEPT ![t] = @ - 1]
    /\ open' = IF depth[t] = 1 THEN [open EXCEPT ![t] = {}] ELSE open
    /\ GoTo(t, "check")
    /\ UNCHANGED <<epoch, local, retired, freed, seen>>

\* endRead: only if the epoch has moved meanwhile does it try to move it on.
CheckEpoch(t) ==
    /\ At(t, "check")
    /\ local' = [local EXCEPT ![t] = epoch]
    /\ seen' = [seen EXCEPT ![t] = epoch]
    /\ GoTo(t, IF epoch = local[t] THEN "idle" ELSE "advance")
    /\ UNCHANGED <<epoch, depth, retired, freed, open>>

NoReaders == \A u \in Threads : depth[u] = 0

\* tryAdvanceEpoch
Advance(t) ==
    /\ At(t, "advance")
    /\ GoTo(t, IF NoReaders THEN "bump" ELSE "idle")
    /\ UNCHANGED <<epoch, depth, local, retired, freed, seen, open>>

\* The compare-and-swap is weak: it may fail for no reason.
SwapTo(t) == {epoch} \cup {e \in {epoch + 1} : epoch = seen[t]}

Bump(t) ==
    /\ At(t, "bump")
    /\ epoch' \in SwapTo(t)
    /\ GoTo(t, "idle")
    /\ UNCHANGED <<depth, local, retired, freed, seen, open>>

-----------------------------------------------------------------------------
\* The object goes into the list of the thread, a long list is reclaimed.
Retire(t, p) ==
    /\ At(t, "idle")
    /\ retired' = [retired EXCEPT ![t] = Append(@, p)]
    /\ open' = [u \in Threads |->
                    IF depth[u] > 0 THEN open[u] \cup {p} ELSE open[u]]
    /\ GoTo(t, IF Len(retired[t]) + 1 >= RetireThreshold
               THEN "reclaim" ELSE "idle")
    /\ UNCHANGED <<epoch, depth, local, freed, seen>>

\* tryReclaim notes the epoch, tests for readers, ...
LoadEpoch(t) ==
    /\ At(t, "reclaim")
    /\ seen' = [seen EXCEPT ![t] = epoch]
    /\ GoTo(t, "test")
    /\ UNCHANGED <<epoch, depth, local, retired, freed, open>>

(* Plausible bug: the readers are not asked for. *)
BlindTestReaders(t) ==
    /\ At(t, "test")
    /\ GoTo(t, "swap")
    /\ UNCHANGED <<epoch, depth, local, retired, freed, seen, open>>

TestReaders(t) ==
    /\ At(t, "test")
    /\ GoTo(t, IF NoReaders THEN "swap" ELSE "idle")
    /\ UNCHANGED <<epoch, depth, local, retired, freed, seen, open>>

\* ... moves the epoch on, and if it did ...
Swap(t) ==
    /\ At(t, "swap")
    /\ epoch' \in SwapTo(t)
    /\ GoTo(t, IF epoch' = epoch THEN "idle" ELSE "free")
    /\ UNCHANGED <<depth, local, retired, freed, seen, open>>

\* ... deletes its list, readers or not.  The list is private, so deleting
\* all of it at the time of the first object only makes the hazard larger.
Free(t) ==
    /\ At(t, "free")
    /\ freed' = freed \cup Listed(t)
    /\ retired' = [retired EXCEPT ![t] = << >>]
    /\ GoTo(t, "idle")
    /\ UNCHANGED <<epoch, depth, local, seen, open>>

-----------------------------------------------------------------------------
\* The steps of a call that has been made.
RStep(t) ==
    \/ Join(t) \/ Leave(t) \/ CheckEpoch(t) \/ Advance(t) \/ Bump(t)
    \/ LoadEpoch(t) \/ TestReaders(t) \/ Swap(t) \/ Free(t)

\* What a client has to observe: an object is retired once.
Fresh(p) == p \notin freed /\ \A u \in Threads : p \notin Listed(u)

RNext ==
    \E t \in Threads :
        \/ Begin(t) \/ End(t) \/ RStep(t)
        \/ \E p \in Object : Fresh(p) /\ Retire(t, p)

RSpec == RInit /\ [][RNext]_rvars

-----------------------------------------------------------------------------
RTypeOK ==
    /\ epoch \in Nat
    /\ depth \in [Threads -> Nat]
    /\ local \in [Threads -> Nat]
    /\ retired \in [Threads -> Seq(Object)]
    /\ freed \subseteq Object
    /\ seen \in [Threads -> Nat]
    /\ rpc \in [Threads -> Steps]
    /\ open \in [Threads -> SUBSET Object]

\* No object is deleted while a read section is open that was already open
\* when the object was retired, although tryReclaim tests for readers before
\* it moves the epoch on and deletes after that
\* (epoch_reclamation.hpp:99-110): the grace period of the scheme.
GracePeriod == \A t \in Threads : open[t] \cap freed = {}
=============================================================================
