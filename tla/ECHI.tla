-------------------------------- MODULE ECHI --------------------------------
(***************************************************************************)
(* The epoch-based concurrent hash index: probes read an immutable map     *)
(* through an atomic pointer, writes go to a delta buffer, and an epoch    *)
(* transition copies the map, applies the buffer to the copy and publishes *)
(* it.  Transitions are triggered by a writer whose write fills the        *)
(* buffer, by the timer thread and by the destructor.                      *)
(*                                                                         *)
(* An action is one step another thread can come between: one atomic       *)
(* access, one critical section of delta_mutex_, or one step of the        *)
(* condition variable.  Everything the transition does to its private copy *)
(* is split as well, one action per buffered operation.                    *)
(***************************************************************************)
EXTENDS TidIndex, Integers, Sequences, FiniteSets

CONSTANTS
    Probers,           \* threads that call probe (JoinExecutor's workers)
    Writers,           \* threads that call insert and remove
    Timer,             \* epoch_timer_thread_
    Main,              \* the thread that builds, loads and destroys the index
    NoThread,          \* transition_mutex_ is free
    TimerOn,           \* echi.epoch_interval_ms > 0
    DeltaThreshold,    \* echi.delta_threshold
    EpochModulus,      \* epoch_ wraps here (2^64 in the code)
    MaxWrites,         \* bound: writes in one behaviour
    MaxProbes          \* bound: probes of each prober (its share of S)

Triggers == Writers \cup {Timer, Main}
Threads  == Probers \cup Triggers

ASSUME ThreadsAssumption ==
    /\ Timer # Main
    /\ {Timer, Main} \cap (Probers \cup Writers) = {}
    /\ Probers \cap Writers = {}
    /\ NoThread \notin Threads
    /\ IsFiniteSet(Writers) /\ IsFiniteSet(Probers)

ASSUME ParametersAssumption ==
    /\ TimerOn \in BOOLEAN
    /\ DeltaThreshold \in Nat \ {0}
    /\ EpochModulus \in Nat \ {0}
    /\ MaxWrites \in Nat
    /\ MaxProbes \in Nat

VARIABLES
    map,      \* *current_map_
    delta,    \* delta_buffer_
    epoch,    \* epoch_
    active,   \* active_readers_
    mtx,      \* the holder of transition_mutex_
    stop,     \* stop_flag_
    pc,       \* what each thread does next
    snap,     \* what a prober's last load of current_map_ returned
    todo,     \* probes a prober has left
    local,    \* local_delta of a thread in a transition: what is not applied
    next      \* *next of a thread in a transition

(***************************************************************************)
(* History variables: nothing below reads them to decide what to do.       *)
(*   log      the contents after each accepted write, on R and on nothing  *)
(*   visible  the index in log of what was published last                  *)
(*   origin   what the published map has grown from                        *)
(*   reach    the index in log of a transition's private copy              *)
(*   made     what a transition's private copy has grown from              *)
(*   mine     the index in log of a writer's last write                    *)
(***************************************************************************)
VARIABLES log, visible, origin, reach, made, mine

(* Variables that most steps leave alone together. *)
published == <<map, visible, origin>>
writes    == <<delta, log, mine>>
copy      == <<next, reach, made>>
vars      == <<published, writes, snap, copy, local, epoch, active, mtx, stop, pc, todo>>

Init ==
    /\ map = EmptyContents
    /\ delta = <<>>
    /\ epoch = 0
    /\ active = 0
    /\ mtx = NoThread
    /\ stop = FALSE
    /\ pc = [t \in Threads |-> CASE t = Main  -> "load"
                                 [] t = Timer -> IF TimerOn THEN "sleep" ELSE "done"
                                 [] OTHER     -> "idle"]
    /\ snap = [p \in Probers |-> EmptyContents]
    /\ todo = [p \in Probers |-> MaxProbes]
    /\ local = [t \in Triggers |-> <<>>]
    /\ next = [t \in Triggers |-> EmptyContents]
    /\ log = <<Unwritten>>
    /\ visible = 1
    /\ origin = "nothing"
    /\ reach = [t \in Triggers |-> 1]
    /\ made = [t \in Triggers |-> "nothing"]
    /\ mine = [w \in Writers |-> 1]

Goto(t, from, to) ==
    /\ pc[t] = from
    /\ pc' = [pc EXCEPT ![t] = to]

(* Probers and writers are started after bulk_load has returned. *)
Loaded == pc[Main] \notin {"load", "clear"}

-----------------------------------------------------------------------------
(* bulk_load: build a map of R on the side, store it, drop what is buffered. *)

BulkStore ==
    /\ Goto(Main, "load", "clear")
    /\ map' = Relation
    /\ visible' = 1
    /\ origin' = "relation"
    /\ UNCHANGED <<writes, snap, copy, local, epoch, active, mtx, stop, todo>>

BulkClear ==
    /\ Goto(Main, "clear", "use")
    /\ delta' = <<>>
    /\ UNCHANGED <<published, log, mine, snap, copy, local, epoch, active, mtx, stop, todo>>

-----------------------------------------------------------------------------
(* probe: announce, load the map, read it, retire; the last one notifies. *)

ProbeEnter(p) ==
    /\ Loaded
    /\ todo[p] > 0
    /\ Goto(p, "idle", "read")
    /\ active' = active + 1
    /\ todo' = [todo EXCEPT ![p] = @ - 1]
    /\ UNCHANGED <<published, writes, snap, copy, local, epoch, mtx, stop>>

(* The probe loads the pointer to m. *)
ReadMap(p, m) ==
    /\ snap' = [snap EXCEPT ![p] = m]
    /\ UNCHANGED <<published, writes, copy, local, epoch, active, mtx, stop, todo>>

(* Plausible bug: a miss returns before the guard retires the probe. *)
EarlyReturnProbeRead(p) ==
    /\ Goto(p, "read", IF map = EmptyContents THEN "idle" ELSE "leave")
    /\ ReadMap(p, map)

(* Plausible bug: next_map_ is a member, as in the design, and the probe reads it. *)
UnpublishedProbeRead(p) ==
    /\ Goto(p, "read", "leave")
    /\ ReadMap(p, IF mtx \in Triggers THEN next[mtx] ELSE map)

(* Plausible bug: the probe takes transition_mutex_ to read the map. *)
LockedProbeRead(p) ==
    /\ mtx = NoThread
    /\ Goto(p, "read", "leave")
    /\ ReadMap(p, map)

ProbeRead(p) ==
    /\ Goto(p, "read", "leave")
    /\ ReadMap(p, map)

ProbeLeave(p) ==
    /\ Goto(p, "leave", IF active = 1 THEN "notify" ELSE "idle")
    /\ active' = active - 1
    /\ UNCHANGED <<published, writes, snap, copy, local, epoch, mtx, stop, todo>>

(* notify_all, without transition_mutex_: only threads already blocked hear it. *)
ProbeNotify(p) ==
    /\ pc[p] = "notify"
    /\ pc' = [t \in Threads |-> IF t = p THEN "idle"
                                ELSE IF pc[t] = "blocked" THEN "lock" ELSE pc[t]]
    /\ UNCHANGED <<published, writes, snap, copy, local, epoch, active, mtx, stop, todo>>

Prober(p) == ProbeEnter(p) \/ ProbeRead(p) \/ ProbeLeave(p) \/ ProbeNotify(p)

-----------------------------------------------------------------------------
(* enqueue_write: buffer the operation, go on to a transition when full. *)

(* Plausible bug: the buffer is compared with > instead of >=. *)
OverFull(d) == Len(d) > DeltaThreshold

(* should_transition *)
Full(d) == Len(d) >= DeltaThreshold

Push(w, op) ==
    /\ Loaded
    /\ Len(log) <= MaxWrites
    /\ delta' = Append(delta, op)
    /\ Goto(w, "idle", IF Full(delta') THEN "lock" ELSE "idle")
    /\ log' = Append(log, ApplyToBoth(log[Len(log)], op))
    /\ mine' = [mine EXCEPT ![w] = Len(log')]
    /\ UNCHANGED <<published, snap, copy, local, epoch, active, mtx, stop, todo>>

(* The writer thread leaves its loop: its duration is over or it was stopped. *)
WriterExit(w) ==
    /\ Loaded
    /\ Goto(w, "idle", "done")
    /\ UNCHANGED <<published, writes, snap, copy, local, epoch, active, mtx, stop, todo>>

Writer(w) == WriterExit(w) \/ \E op \in WriteOp : Push(w, op)

-----------------------------------------------------------------------------
(* trigger_epoch_transition, for the writer, the timer or the destructor. *)

(* Where a thread goes on when the transition it triggered is over. *)
Resume(t) == CASE t = Main -> "done" [] t = Timer -> "sleep" [] OTHER -> "idle"

(* Plausible bug: the transition runs without transition_mutex_. *)
UnguardedLock(t) ==
    /\ Goto(t, "lock", "test")
    /\ mtx' = t
    /\ UNCHANGED <<published, writes, snap, copy, local, epoch, active, stop, todo>>

Lock(t) ==
    /\ Goto(t, "lock", "test")
    /\ mtx = NoThread
    /\ mtx' = t
    /\ UNCHANGED <<published, writes, snap, copy, local, epoch, active, stop, todo>>

(* The predicate of cv.wait, evaluated with the mutex held. *)
TestReaders(t) ==
    /\ Goto(t, "test", IF active = 0 THEN "swap" ELSE "block")
    /\ UNCHANGED <<published, writes, snap, copy, local, epoch, active, mtx, stop, todo>>

(* cv.wait: release the mutex and block, in one step. *)
Block(t) ==
    /\ Goto(t, "block", "blocked")
    /\ mtx' = NoThread
    /\ UNCHANGED <<published, writes, snap, copy, local, epoch, active, stop, todo>>

(* A condition variable may wake a thread for no reason, or never do so. *)
SpuriousWake(t) ==
    /\ Goto(t, "blocked", "lock")
    /\ UNCHANGED <<published, writes, snap, copy, local, epoch, active, mtx, stop, todo>>

(* Plausible bug: the mutex only covers the swap of the buffer. *)
UnlockingSwap(t) ==
    /\ Goto(t, "swap", "copy")
    /\ local' = [local EXCEPT ![t] = delta]
    /\ delta' = <<>>
    /\ mtx' = NoThread
    /\ UNCHANGED <<published, log, mine, snap, copy, epoch, active, stop, todo>>

Swap(t) ==
    /\ Goto(t, "swap", "copy")
    /\ local' = [local EXCEPT ![t] = delta]
    /\ delta' = <<>>
    /\ UNCHANGED <<published, log, mine, snap, copy, epoch, active, mtx, stop, todo>>

Copy(t) ==
    /\ Goto(t, "copy", "apply")
    /\ next' = [next EXCEPT ![t] = map]
    /\ reach' = [reach EXCEPT ![t] = visible]
    /\ made' = [made EXCEPT ![t] = origin]
    /\ UNCHANGED <<published, writes, snap, local, epoch, active, mtx, stop, todo>>

(* Plausible bug: the buffer is applied newest first. *)
ReversedApplyDelta(t) ==
    /\ pc[t] = "apply"
    /\ local[t] # <<>>
    /\ next' = [next EXCEPT ![t] = Apply(@, local[t][Len(local[t])])]
    /\ local' = [local EXCEPT ![t] = SubSeq(@, 1, Len(@) - 1)]
    /\ reach' = [reach EXCEPT ![t] = @ + 1]
    /\ UNCHANGED <<published, writes, snap, made, epoch, active, mtx, stop, pc, todo>>

ApplyDelta(t) ==
    /\ pc[t] = "apply"
    /\ local[t] # <<>>
    /\ next' = [next EXCEPT ![t] = Apply(@, Head(local[t]))]
    /\ local' = [local EXCEPT ![t] = Tail(@)]
    /\ reach' = [reach EXCEPT ![t] = @ + 1]
    /\ UNCHANGED <<published, writes, snap, made, epoch, active, mtx, stop, pc, todo>>

(* Plausible bug: the map is published before the last operation is applied. *)
EarlyPublish(t) ==
    /\ Goto(t, "apply", "bump")
    /\ Len(local[t]) <= 1
    /\ map' = next[t]
    /\ visible' = reach[t]
    /\ origin' = made[t]
    /\ UNCHANGED <<writes, snap, copy, local, epoch, active, mtx, stop, todo>>

Publish(t) ==
    /\ Goto(t, "apply", "bump")
    /\ local[t] = <<>>
    /\ map' = next[t]
    /\ visible' = reach[t]
    /\ origin' = made[t]
    /\ UNCHANGED <<writes, snap, copy, local, epoch, active, mtx, stop, todo>>

(* Count the epoch and return, which releases the mutex and drops the locals. *)
Bump(t) ==
    /\ Goto(t, "bump", Resume(t))
    /\ epoch' = (epoch + 1) % EpochModulus
    /\ mtx' = NoThread
    /\ next' = [next EXCEPT ![t] = EmptyContents]
    /\ reach' = [reach EXCEPT ![t] = 1]
    /\ made' = [made EXCEPT ![t] = "nothing"]
    /\ UNCHANGED <<published, writes, snap, local, active, stop, todo>>

Transition(t) ==
    \/ Lock(t) \/ TestReaders(t) \/ Block(t)
    \/ Swap(t) \/ Copy(t) \/ ApplyDelta(t) \/ Publish(t) \/ Bump(t)

-----------------------------------------------------------------------------
(* epoch_timer_fn: the end of one sleep, and the tests of stop_flag_ around it. *)

TimerWake ==
    /\ Goto(Timer, "sleep", IF stop THEN "done" ELSE "lock")
    /\ UNCHANGED <<published, writes, snap, copy, local, epoch, active, mtx, stop, todo>>

(* ~ECHIIndex, after the callers' threads have been joined. *)
DestroyStop ==
    /\ \A w \in Writers : pc[w] = "done"
    /\ \A p \in Probers : pc[p] = "idle" /\ todo[p] = 0
    /\ Goto(Main, "use", "join")
    /\ stop' = TRUE
    /\ UNCHANGED <<published, writes, snap, copy, local, epoch, active, mtx, todo>>

(* Plausible bug: the destructor omits the last transition. *)
DroppingDestroyJoin ==
    /\ pc[Timer] = "done"
    /\ Goto(Main, "join", "done")
    /\ UNCHANGED <<published, writes, snap, copy, local, epoch, active, mtx, stop, todo>>

DestroyJoin ==
    /\ pc[Timer] = "done"
    /\ Goto(Main, "join", "lock")
    /\ UNCHANGED <<published, writes, snap, copy, local, epoch, active, mtx, stop, todo>>

Terminated == pc[Main] = "done" /\ UNCHANGED vars

Next ==
    \/ BulkStore \/ BulkClear \/ TimerWake \/ DestroyStop \/ DestroyJoin
    \/ \E p \in Probers : Prober(p)
    \/ \E w \in Writers : Writer(w)
    \/ \E t \in Triggers : Transition(t) \/ SpuriousWake(t)
    \/ Terminated

Spec == Init /\ [][Next]_vars

(***************************************************************************)
(* The scheduler runs every thread that can run.  Nothing makes a blocked  *)
(* thread wake up spuriously, and std::mutex promises no fairness between  *)
(* the threads that want it, so there is no strong fairness on Lock.       *)
(***************************************************************************)
Fairness ==
    /\ WF_vars(BulkStore \/ BulkClear \/ DestroyStop \/ DestroyJoin)
    /\ WF_vars(TimerWake)
    /\ \A p \in Probers : WF_vars(Prober(p))
    /\ \A w \in Writers : WF_vars(Writer(w))
    /\ \A t \in Triggers : WF_vars(Transition(t))

FairSpec == Spec /\ Fairness

-----------------------------------------------------------------------------
(* The program counters of trigger_epoch_transition. *)
BeforeSwap == {"lock", "test", "block", "blocked", "swap"}
Critical   == {"test", "block", "swap", "copy", "apply", "bump"}

(* Every variable keeps its shape; active_readers_ is never negative. *)
TypeOK ==
    /\ map \in Contents
    /\ delta \in Seq(WriteOp)
    /\ epoch \in 0 .. EpochModulus - 1
    /\ active \in Nat
    /\ mtx \in Triggers \cup {NoThread}
    /\ stop \in BOOLEAN
    /\ pc \in [Threads -> {"load", "clear", "use", "join", "sleep", "idle", "done",
                           "read", "leave", "notify"} \cup BeforeSwap \cup Critical]
    /\ snap \in [Probers -> Contents]
    /\ todo \in [Probers -> 0 .. MaxProbes]
    /\ local \in [Triggers -> Seq(WriteOp)]
    /\ next \in [Triggers -> Contents]
    /\ log \in Seq(Histories) /\ log # <<>>
    /\ visible \in 1 .. Len(log)
    /\ origin \in Origins
    /\ reach \in [Triggers -> Nat \ {0}]
    /\ made \in [Triggers -> Origins]
    /\ mine \in [Writers -> Nat]

(* A thread is inside a transition exactly while it owns transition_mutex_,
   also across the condition variable: no two transitions overlap. *)
TransitionExclusive == \A t \in Triggers : pc[t] \in Critical <=> mtx = t

(* active_readers_ counts the probes between their announcement and their
   retirement, so that 0 means that no probe holds a map. *)
ReadersCounted == active = Cardinality({p \in Probers : pc[p] \in {"read", "leave"}})

(* What the probes read is the result of a prefix of the accepted writes, in
   the order the buffer took them: none skipped, doubled or reordered, on top
   of the contents that the published copy was made from. *)
MapIsPrefix == map = log[visible][origin]

(* Running ops from log[from] leads through log[from + 1], log[from + 2] ... *)
Continues(from, ops) ==
    \A i \in 1 .. Len(ops) : log[from + i] = ApplyToBoth(log[from + i - 1], ops[i])

(* The writes that have left delta_buffer_. *)
Taken == Len(log) - Len(delta)

(* An open transition finishes exactly the writes that have left the buffer. *)
Completes(t) ==
    /\ pc[t] = "copy" => Continues(visible, local[t]) /\ visible + Len(local[t]) = Taken
    /\ pc[t] = "apply" => Continues(reach[t], local[t]) /\ reach[t] + Len(local[t]) = Taken

(* What is not published yet is exactly what the open transition took and has
   not applied, followed by delta_buffer_; that includes the moment in which
   the writes are in neither the map nor the buffer. *)
NoWriteLost ==
    /\ Continues(Taken, delta)
    /\ \A t \in Triggers : Completes(t)
    /\ (\A t \in Triggers : pc[t] \notin {"copy", "apply"}) => visible = Taken

(* delta_buffer_ may exceed its threshold while a transition waits for the
   readers, but only by one write for each writer that is itself on its way
   to a transition. *)
DeltaBound ==
    Len(delta) < DeltaThreshold + Cardinality({w \in Writers : pc[w] \in BeforeSwap})

(* A write that triggered a transition is published when insert or remove
   returns, also when another thread's transition took it. *)
TriggeringWriteVisible == \A w \in Writers : pc[w] = "bump" => visible >= mine[w]

(* ~ECHIIndex leaves no accepted write unapplied. *)
DestructorDrains == pc[Main] = "done" => delta = <<>> /\ map = log[Len(log)][origin]

(* Seen from outside, the index is a totally ordered log of writes of which
   each probe reads a prefix, and the prefix never shrinks.  R lies under all
   of them or is lost before the first write shows. *)
Stale == INSTANCE StaleIndex WITH answer <- snap
ImplementsStaleIndex == Stale!Spec

(* probe is wait-free: whatever the transitions do, it returns. *)
ProbesReturn == \A p \in Probers : []<>(pc[p] = "idle")

(* A transition sleeps although no probe is left to wake it. *)
Overslept ==
    /\ active = 0
    /\ \E t \in Triggers : pc[t] = "blocked"
    /\ \A p \in Probers : pc[p] # "notify"

(* Writes are finitely many, and in the end they are all published: by a
   writer, the timer or the destructor.  Only a transition that has missed its
   wake-up and is never woken again can prevent it. *)
PublishedOrOverslept == []<>(visible = Len(log)) \/ <>[]Overslept

-----------------------------------------------------------------------------
(* Bounded write staleness, as documented: an accepted write is published. *)
EventuallyVisible == \A n \in 2 .. MaxWrites + 1 : Len(log) >= n ~> visible >= n

(* bulk_load, as documented, puts R into the index before anything else runs:
   every map a probe can load from then on has grown from R. *)
RelationServed == Loaded => map = log[visible]["relation"]
=============================================================================
