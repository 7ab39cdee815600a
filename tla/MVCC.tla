-------------------------------- MODULE MVCC --------------------------------
(***************************************************************************)
(* The multi-version index: every key has a chain of versions, a write     *)
(* puts a new version in front of the chain, a probe takes a timestamp and *)
(* returns the first version of the chain that is visible at it, and a     *)
(* collector unlinks the versions no registered probe can see.             *)
(*                                                                         *)
(* A chain is a set of versions; pos is a version's place, the newest has  *)
(* the highest.  An action is one atomic access or one critical section:   *)
(* of chains_rw_ (a walk under the shared lock sees one chain, because the *)
(* only field that changes under it, ts_delete of the head, is read once), *)
(* of active_reads_mutex_, or of a key's mutex, which a write keeps over   *)
(* several actions.                                                        *)
(***************************************************************************)
EXTENDS TidIndex, Integers, Sequences, FiniteSets

CONSTANTS
    Probers,      \* threads that call probe
    Writers,      \* threads that call insert and remove
    Collector,    \* gc_thread_
    Main,         \* the thread that builds, loads and destroys the index
    NoThread,     \* a key's mutex is free
    CollectorOn,  \* mpimvcc.gc_interval_ms > 0
    MaxWrites,    \* bound: writes in one behaviour
    MaxProbes     \* bound: probes of each prober (its share of S)

Threads == Probers \cup Writers \cup {Collector, Main}

ASSUME ThreadsAssumption ==
    /\ Collector # Main
    /\ {Collector, Main} \cap (Probers \cup Writers) = {}
    /\ Probers \cap Writers = {}
    /\ NoThread \notin Threads

(* Config::validate: domain_size is positive; and there are tuples to write. *)
ASSUME DomainAssumption == Keys # {} /\ TIDs # {}

ASSUME ParametersAssumption ==
    /\ CollectorOn \in BOOLEAN
    /\ MaxWrites \in Nat
    /\ MaxProbes \in Nat

Timestamps == 0 .. MaxWrites

(* INF_TS: later than every timestamp. *)
Infinity == MaxWrites + 1

(* VersionNode *)
Version == [pos : Nat, tids : SUBSET TIDs, commit : Timestamps,
            delete : Timestamps \cup {Infinity}]

VARIABLES
    chains,   \* chains_
    clock,    \* global_ts_
    keyLock,  \* the holder of each key's mutex
    active,   \* the probes whose timestamp is in active_read_timestamps_
    stop,     \* stop_flag_
    pc,       \* what each thread does next
    todo,     \* probes a prober has left
    probe,    \* key, read_ts and result of a prober's probe
    write,    \* arguments, write_ts and new_tids of a writer's write
    safe      \* safe_ts of the collector

(***************************************************************************)
(* History variables: nothing below reads them to decide what to do.       *)
(*   log      the installed writes of each key: stamp, and tids after it   *)
(*   covered  the registered probes when the collector read safe_ts        *)
(***************************************************************************)
VARIABLES log, covered

(* Variables that most steps leave alone together. *)
reading    == <<active, todo, probe>>
writing    == <<clock, keyLock, write>>
collecting == <<safe, covered>>
vars       == <<chains, log, reading, writing, collecting, stop, pc>>

(* What the locals of a thread hold before its first call is never read. *)
NoOp    == CHOOSE op \in WriteOp : TRUE
NoWrite == [op |-> NoOp, ts |-> 0, tids |-> {}]
NoProbe == [key |-> NoOp.key, ts |-> 0, result |-> {}]

Init ==
    /\ chains = [k \in Keys |-> {}]
    /\ clock = 0
    /\ keyLock = [k \in Keys |-> NoThread]
    /\ active = {}
    /\ stop = FALSE
    /\ pc = [t \in Threads |-> CASE t = Main -> "load"
                                 [] t = Collector -> IF CollectorOn THEN "sleep" ELSE "done"
                                 [] OTHER -> "idle"]
    /\ todo = [p \in Probers |-> MaxProbes]
    /\ probe = [p \in Probers |-> NoProbe]
    /\ write = [w \in Writers |-> NoWrite]
    /\ safe = 0
    /\ log = [k \in Keys |-> <<>>]
    /\ covered = {}

Goto(t, from, to) ==
    /\ pc[t] = from
    /\ pc' = [pc EXCEPT ![t] = to]

-----------------------------------------------------------------------------
(* Chains. *)

(* chains_[k], the first of a chain that has any version. *)
Newest(c) == CHOOSE v \in c : \A u \in c : u.pos <= v.pos

(* Plausible bug: the version stamped read_ts is not visible at read_ts. *)
StrictVisible(c, ts) == {v \in c : v.commit < ts /\ ts < v.delete}

(* Plausible bug: the walk only looks for a version that is not deleted yet. *)
UncommittedVisible(c, ts) == {v \in c : ts < v.delete}

(* The versions a walk of the chain stops at ... *)
Visible(c, ts) == {v \in c : v.commit <= ts /\ ts < v.delete}

(* ... at the first of which it does. *)
Walk(c, ts) == IF Visible(c, ts) = {} THEN {} ELSE Newest(Visible(c, ts)).tids

(* What a write makes of the tids of its key. *)
Update(s, op) == IF op.op = "INSERT" THEN s \cup {op.tid} ELSE s \ {op.tid}

(* Plausible bug: the latest registered read is taken for the oldest. *)
LatestSafeTs(ps) ==
    IF ps = {} THEN Infinity
    ELSE CHOOSE ts \in {probe[p].ts : p \in ps} : \A p \in ps : probe[p].ts <= ts

(* Plausible bug: with no read registered everything up to now must be kept. *)
CautiousSafeTs(ps) ==
    IF ps = {} THEN clock
    ELSE CHOOSE ts \in {probe[p].ts : p \in ps} : \A p \in ps : ts <= probe[p].ts

(* min_active_read_ts_, which register_read and unregister_read keep up to
   date in the critical section that changes the multiset. *)
SafeTs(ps) ==
    IF ps = {} THEN Infinity
    ELSE CHOOSE ts \in {probe[p].ts : p \in ps} : \A p \in ps : ts <= probe[p].ts

-----------------------------------------------------------------------------
(* bulk_load: one version, stamped 0, of every key that occurs in R. *)

Loaded(k) == {t \in TIDs : Relation[k][t] > 0}

BulkLoad ==
    /\ Goto(Main, "load", "use")
    /\ chains' = [k \in Keys |->
           {[pos |-> 1, tids |-> s, commit |-> 0, delete |-> Infinity] : s \in {Loaded(k)} \ {{}}}]
    /\ log' = [k \in Keys |->
           IF Loaded(k) = {} THEN <<>> ELSE <<[ts |-> 0, tids |-> Loaded(k)]>>]
    /\ clock' = 0
    /\ UNCHANGED <<reading, keyLock, write, collecting, stop>>

-----------------------------------------------------------------------------
(* probe: take a timestamp, register it, walk the chain, unregister it. *)

TakeSnapshot(p) ==
    /\ pc[Main] = "use"
    /\ todo[p] > 0
    /\ Goto(p, "idle", "register")
    /\ todo' = [todo EXCEPT ![p] = @ - 1]
    /\ \E k \in Keys : probe' = [probe EXCEPT ![p] = [NoProbe EXCEPT !.key = k, !.ts = clock]]
    /\ UNCHANGED <<chains, log, active, writing, collecting, stop>>

Register(p) ==
    /\ Goto(p, "register", "walk")
    /\ active' = active \cup {p}
    /\ UNCHANGED <<chains, log, todo, probe, writing, collecting, stop>>

ReadChain(p) ==
    /\ Goto(p, "walk", "unregister")
    /\ probe' = [probe EXCEPT ![p].result = Walk(chains[probe[p].key], probe[p].ts)]
    /\ UNCHANGED <<chains, log, active, todo, writing, collecting, stop>>

Unregister(p) ==
    /\ Goto(p, "unregister", "idle")
    /\ active' = active \ {p}
    /\ probe' = [probe EXCEPT ![p] = NoProbe]
    /\ UNCHANGED <<chains, log, todo, writing, collecting, stop>>

Prober(p) == TakeSnapshot(p) \/ Register(p) \/ ReadChain(p) \/ Unregister(p)

-----------------------------------------------------------------------------
(* apply_write: take a stamp, lock the key, read its newest version, expire
   it, put the new version in front. *)

(* Plausible bug: the write is stamped one ahead of the clock. *)
AheadStamp(w) ==
    /\ pc[Main] = "use"
    /\ clock < MaxWrites
    /\ Goto(w, "idle", "lock")
    /\ clock' = clock + 1
    /\ \E op \in WriteOp : write' = [write EXCEPT ![w] = [NoWrite EXCEPT !.op = op, !.ts = clock' + 1]]
    /\ UNCHANGED <<chains, log, reading, keyLock, collecting, stop>>

Stamp(w) ==
    /\ pc[Main] = "use"
    /\ clock < MaxWrites
    /\ Goto(w, "idle", "lock")
    /\ clock' = clock + 1
    /\ \E op \in WriteOp : write' = [write EXCEPT ![w] = [NoWrite EXCEPT !.op = op, !.ts = clock']]
    /\ UNCHANGED <<chains, log, reading, keyLock, collecting, stop>>

(* Plausible bug: the key's mutex is made but not locked. *)
UnguardedLockKey(w) ==
    /\ Goto(w, "lock", "copy")
    /\ UNCHANGED <<chains, log, reading, writing, collecting, stop>>

LockKey(w) ==
    LET k == write[w].op.key IN
    /\ Goto(w, "lock", "copy")
    /\ keyLock[k] = NoThread
    /\ keyLock' = [keyLock EXCEPT ![k] = w]
    /\ UNCHANGED <<chains, log, reading, clock, write, collecting, stop>>

CopyNewest(w) ==
    LET op == write[w].op
        c  == chains[op.key] IN
    /\ Goto(w, "copy", "expire")
    /\ write' = [write EXCEPT ![w].tids = Update(IF c = {} THEN {} ELSE Newest(c).tids, op)]
    /\ UNCHANGED <<chains, log, reading, clock, keyLock, collecting, stop>>

(* Plausible bug: the old version keeps ts_delete = INF_TS. *)
ForgettingExpire(w) ==
    /\ Goto(w, "expire", "install")
    /\ UNCHANGED <<chains, log, reading, writing, collecting, stop>>

Expire(w) ==
    LET k == write[w].op.key IN
    /\ Goto(w, "expire", "install")
    /\ chains' = [chains EXCEPT ![k] =
           {IF v = Newest(@) THEN [v EXCEPT !.delete = write[w].ts] ELSE v : v \in @}]
    /\ UNCHANGED <<log, reading, writing, collecting, stop>>

PutInFront(w) ==
    LET k == write[w].op.key IN
    /\ Goto(w, "install", "idle")
    /\ chains' = [chains EXCEPT ![k] = @ \cup
           {[pos |-> IF @ = {} THEN 1 ELSE Newest(@).pos + 1, tids |-> write[w].tids,
             commit |-> write[w].ts, delete |-> Infinity]}]
    /\ log' = [log EXCEPT ![k] = Append(@, [ts |-> write[w].ts,
           tids |-> Update(IF @ = <<>> THEN {} ELSE @[Len(@)].tids, write[w].op)])]
    /\ write' = [write EXCEPT ![w] = NoWrite]
    /\ UNCHANGED <<reading, clock, collecting, stop>>

(* Plausible bug: the write returns with the key's mutex locked. *)
LeakingInstall(w) == PutInFront(w) /\ UNCHANGED keyLock

(* The return unlocks the key. *)
Install(w) ==
    /\ PutInFront(w)
    /\ keyLock' = [keyLock EXCEPT ![write[w].op.key] = NoThread]

Writer(w) == Stamp(w) \/ LockKey(w) \/ CopyNewest(w) \/ Expire(w) \/ Install(w)

-----------------------------------------------------------------------------
(* gc_loop and force_gc_once. *)

(* The end of a sleep: test stop_flag_, then read min_active_read_ts_. *)
Wake ==
    /\ Goto(Collector, "sleep", IF stop THEN "done" ELSE "prune")
    /\ safe' = IF stop THEN safe ELSE SafeTs(active)
    /\ covered' = IF stop THEN {} ELSE active
    /\ UNCHANGED <<chains, log, reading, writing, stop>>

(* The newest version of a chain is never unlinked. *)
Prune ==
    /\ Goto(Collector, "prune", "sleep")
    /\ chains' = [k \in Keys |-> {v \in chains[k] : v = Newest(chains[k]) \/ v.delete >= safe}]
    /\ safe' = 0
    /\ covered' = {}
    /\ UNCHANGED <<log, reading, writing, stop>>

(* ~MPIMVCCIndex, after the callers' threads have been joined. *)
Destroy ==
    /\ \A t \in Probers \cup Writers : pc[t] = "idle"
    /\ \A p \in Probers : todo[p] = 0
    /\ Goto(Main, "use", "join")
    /\ stop' = TRUE
    /\ UNCHANGED <<chains, log, reading, writing, collecting>>

Join ==
    /\ pc[Collector] = "done"
    /\ Goto(Main, "join", "done")
    /\ UNCHANGED <<chains, log, reading, writing, collecting, stop>>

Terminated == pc[Main] = "done" /\ UNCHANGED vars

Next ==
    \/ BulkLoad \/ Wake \/ Prune \/ Destroy \/ Join
    \/ \E p \in Probers : Prober(p)
    \/ \E w \in Writers : Writer(w)
    \/ Terminated

Spec == Init /\ [][Next]_vars

(***************************************************************************)
(* Threads that can run do run.  A key's mutex is given to some thread     *)
(* that wants it, but not fairly: no strong fairness on LockKey.           *)
(***************************************************************************)
Fairness ==
    /\ WF_vars(BulkLoad)
    /\ WF_vars(Wake \/ Prune)
    /\ \A p \in Probers : WF_vars(Prober(p))
    /\ \A w \in Writers : WF_vars(Writer(w))

FairSpec == Spec /\ Fairness

-----------------------------------------------------------------------------
(* Every variable keeps its shape. *)
TypeOK ==
    /\ chains \in [Keys -> SUBSET Version]
    /\ clock \in Timestamps
    /\ keyLock \in [Keys -> Writers \cup {NoThread}]
    /\ active \in SUBSET Probers
    /\ stop \in BOOLEAN
    /\ pc \in [Threads -> {"load", "use", "join", "done", "sleep", "prune", "idle",
                           "register", "walk", "unregister",
                           "lock", "copy", "expire", "install"}]
    /\ todo \in [Probers -> 0 .. MaxProbes]
    /\ probe \in [Probers -> [key : Keys, ts : Timestamps, result : SUBSET TIDs]]
    /\ write \in [Writers -> [op : WriteOp, ts : Timestamps, tids : SUBSET TIDs]]
    /\ safe \in Timestamps \cup {Infinity}
    /\ log \in [Keys -> Seq([ts : Timestamps, tids : SUBSET TIDs])]
    /\ covered \in SUBSET Probers

(* Every version holds what the writes installed up to it make of the key,
   one after the other, although a write copies the newest version in one
   critical section and installs its own in another; the last one is there. *)
NoLostUpdate ==
    \A k \in Keys :
        /\ \A v \in chains[k] : /\ v.pos \in DOMAIN log[k]
                                 /\ log[k][v.pos] = [ts |-> v.commit, tids |-> v.tids]
        /\ log[k] # <<>> => chains[k] # {} /\ Newest(chains[k]).pos = Len(log[k])

(* A write of k is about to replace the version it has expired. *)
Replacing(k) == \E w \in Writers : pc[w] = "install" /\ write[w].op.key = k

(* Of the versions of a key the newest is live and no other, except while a
   write stands between expiring it and installing the next. *)
OneLiveVersion ==
    \A k \in Keys : {v \in chains[k] : v.delete = Infinity} =
        IF chains[k] = {} \/ Replacing(k) THEN {} ELSE {Newest(chains[k])}

(* The collector takes nothing from a probe that was registered when it read
   min_active_read_ts_, nor from a later probe of the same thread. *)
CoveredProbesKeepAnswer ==
    [][\A p \in covered \cap active :
          pc[Collector] = "prune" /\ pc'[Collector] = "sleep" =>
              Walk(chains'[probe[p].key], probe[p].ts) = Walk(chains[probe[p].key], probe[p].ts)]_vars

(* A probe that starts its walk while no write of its key is under way, and
   whose timestamp is not older than the newest version, returns exactly what
   the completed writes of the key have made of it, whatever the collector did. *)
QuietProbeExact ==
    [][\A p \in Probers :
          LET k == probe[p].key IN
          /\ pc[p] = "walk" /\ pc'[p] = "unregister"
          /\ \A w \in Writers : pc[w] # "idle" => write[w].op.key # k
          /\ log[k] # <<>> /\ log[k][Len(log[k])].ts <= probe[p].ts
          => probe'[p].result = log[k][Len(log[k])].tids]_vars

(* What a walking probe finds is the state of its key at its timestamp: the
   effects of exactly those installed writes that are stamped no later. *)
ReadsSnapshot(p) ==
    LET k     == probe[p].key
        found == Visible(chains[k], probe[p].ts) IN
    pc[p] = "walk" /\ found # {} =>
        \A i \in DOMAIN log[k] : log[k][i].ts <= probe[p].ts <=> i <= Newest(found).pos

(* The writes of k were installed in the order of their stamps. *)
InstalledInOrder(k) ==
    \A i, j \in DOMAIN log[k] : i < j => log[k][i].ts < log[k][j].ts

(* As long as the writes of a key install in the order of their stamps, a
   probe that finds the key reads a snapshot, whatever the collector does. *)
InOrderSnapshotRead == \A p \in Probers : InstalledInOrder(probe[p].key) => ReadsSnapshot(p)

(* No write waits for ever: the key's mutex is always released. *)
WritesComplete == \A w \in Writers : []<>(pc[w] = "idle")

(* Superseded versions do not pile up: the collector gets rid of them when
   the probes that may need them are over. *)
ChainsShrink == \A k \in Keys : []<>(Cardinality(chains[k]) <= 1 \/ stop)
=============================================================================
