-------------------------------- MODULE Trial --------------------------------
(***************************************************************************)
(* One trial of the benchmark on an NHJ index: run_single loads R, starts  *)
(* the writers of the TransactionManager, lets the JoinExecutor probe S    *)
(* with its workers, stops the writers and collects what everybody has     *)
(* counted, before the index is destroyed.                                 *)
(***************************************************************************)
EXTENDS NHJ, Sequences, FiniteSets, FiniteSetsExt

CONSTANTS
    S,                \* relation_s_: the keys of its tuples
    NumProbeThreads,  \* num_probe_threads
    NumWriteThreads,  \* concurrency
    Timed,            \* trial_duration_ms > 0
    MaxWrites         \* bound: writes in one behaviour

ASSUME TrialAssumption ==
    /\ S \in Seq(Keys)
    /\ IsFiniteSet(TIDs)
    /\ NumProbeThreads \in Nat \ {0}
    /\ NumWriteThreads \in Nat
    /\ Timed \in BOOLEAN
    /\ MaxWrites \in Nat
    /\ NoThread \notin 1 .. NumWriteThreads

(* No more workers than tuples, but one for an empty S. *)
NumWorkers ==
    IF Len(S) = 0 THEN 1 ELSE IF NumProbeThreads < Len(S) THEN NumProbeThreads ELSE Len(S)

Workers == 0 .. NumWorkers - 1
Writers == 1 .. NumWriteThreads

(* Plausible bug: the remainder of the division belongs to no worker. *)
TruncatedBegin(w) == (Len(S) \div NumWorkers) * w

(* The tuples of worker w are S[Begin(w) + 1] .. S[Begin(w + 1)]. *)
Begin(w) == (Len(S) * w) \div NumWorkers

VARIABLES
    main,       \* where run_single is
    mix,        \* what insert_fraction allows: inserts, deletes or both
    started,    \* started_
    stop_flag,  \* stop_flag_
    writer,     \* where each writer_thread is, and its current operation
    totals,     \* total_inserts_ and total_deletes_
    worker,     \* where each worker is, its loop counter and its LocalStats
    hits        \* history: how often each tuple of S has been probed

run   == <<mix, started, stop_flag>>
txn   == <<writer, totals>>
join  == <<worker, hits>>
vars  == <<index, main, run, txn, join>>

NoOp == CHOOSE op \in WriteOp : TRUE

Init ==
    /\ IndexInit
    /\ main = "load"
    /\ mix \in {{"INSERT"}, {"DELETE"}, {"INSERT", "DELETE"}}
    /\ started = FALSE
    /\ stop_flag = FALSE
    /\ writer = [w \in Writers |-> [at |-> "unborn", op |-> NoOp]]
    /\ totals = [op \in {"INSERT", "DELETE"} |-> 0]
    /\ worker = [p \in Workers |-> [at |-> "unborn", i |-> Begin(p), probes |-> 0, pairs |-> 0]]
    /\ hits = [i \in 1 .. Len(S) |-> 0]

MainGoto(from, to) == main = from /\ main' = to

-----------------------------------------------------------------------------
(* run_single *)

Load ==
    /\ MainGoto("load", "start")
    /\ BulkLoad
    /\ UNCHANGED <<run, txn, join>>

(* start(): only the caller that sets started_ goes on. *)
Start ==
    /\ MainGoto("start", IF started THEN "execute" ELSE "spawn")
    /\ started' = TRUE
    /\ stop_flag' = IF started THEN stop_flag ELSE FALSE
    /\ UNCHANGED <<index, mix, txn, join>>

Unborn(threads, state) == {t \in threads : state[t].at = "unborn"}

SpawnWriter ==
    /\ main = "spawn"
    /\ Unborn(Writers, writer) # {}
    /\ writer' = [writer EXCEPT ![Min(Unborn(Writers, writer))].at = "test"]
    /\ UNCHANGED <<index, main, run, totals, join>>

WritersStarted ==
    /\ Unborn(Writers, writer) = {}
    /\ MainGoto("spawn", "execute")
    /\ UNCHANGED <<index, run, txn, join>>

SpawnWorker ==
    /\ main = "execute"
    /\ Unborn(Workers, worker) # {}
    /\ worker' = [worker EXCEPT ![Min(Unborn(Workers, worker))].at = "loop"]
    /\ UNCHANGED <<index, main, run, txn, hits>>

JoinWorkers ==
    /\ \A p \in Workers : worker[p].at = "done"
    /\ MainGoto("execute", "stats")
    /\ UNCHANGED <<index, run, txn, join>>

JoinStats ==
    /\ MainGoto("stats", "stop")
    /\ ReadStats
    /\ UNCHANGED <<run, txn, join>>

(* stop(): raise the flag, join the writers, be ready for another start. *)
RaiseStop ==
    /\ MainGoto("stop", IF started THEN "join" ELSE "collect")
    /\ stop_flag' = IF started THEN TRUE ELSE stop_flag
    /\ UNCHANGED <<index, mix, started, txn, join>>

(* Plausible bug: the writers are left to themselves. *)
DetachingJoinWriters ==
    /\ MainGoto("join", "collect")
    /\ started' = FALSE
    /\ UNCHANGED <<index, mix, stop_flag, txn, join>>

JoinWriters ==
    /\ \A w \in Writers : writer[w].at = "done"
    /\ MainGoto("join", "collect")
    /\ started' = FALSE
    /\ UNCHANGED <<index, mix, stop_flag, txn, join>>

(* The counts are read, then executor, manager and index are destroyed. *)
Collect ==
    /\ MainGoto("collect", "done")
    /\ ReadStats
    /\ UNCHANGED <<run, txn, join>>

Main ==
    \/ Load \/ Start \/ SpawnWriter \/ WritersStarted \/ SpawnWorker \/ JoinWorkers
    \/ JoinStats \/ RaiseStop \/ JoinWriters \/ Collect

-----------------------------------------------------------------------------
(* writer_thread *)

Move(w, from, to) ==
    /\ writer[w].at = from
    /\ writer' = [writer EXCEPT ![w].at = to]

(* The loop ends with the flag, or with the duration. *)
WriterLeave(w) ==
    /\ stop_flag \/ Timed
    /\ Move(w, "test", "done")
    /\ UNCHANGED <<index, main, run, totals, join>>

(* generate_write_op, then the call of the index up to its lock. *)
WriterCall(w) ==
    /\ ~ stop_flag
    /\ write_count + Cardinality({v \in Writers : writer[v].at = "lock"
                                                 \/ writer[v].at = "update"}) < MaxWrites
    /\ writer[w].at = "test"
    /\ \E op \in WriteOp :
           /\ op.op \in mix
           /\ writer' = [writer EXCEPT ![w] = [at |-> "lock", op |-> op]]
    /\ UNCHANGED <<index, main, run, totals, join>>

WriterLock(w) ==
    /\ Move(w, "lock", "update")
    /\ EnterExclusive(w)
    /\ UNCHANGED <<main, run, totals, join>>

WriterUpdate(w) ==
    /\ Move(w, "update", "count")
    /\ Update(writer[w].op)
    /\ UNCHANGED <<main, run, totals, join>>

(* Plausible bug: a write that was under way when the flag rose is not counted. *)
HastyWriterCount(w) ==
    /\ Move(w, "count", IF stop_flag THEN "done" ELSE "test")
    /\ totals' = IF stop_flag THEN totals ELSE [totals EXCEPT ![writer[w].op.op] = @ + 1]
    /\ UNCHANGED <<index, main, run, join>>

WriterCount(w) ==
    /\ Move(w, "count", "test")
    /\ totals' = [totals EXCEPT ![writer[w].op.op] = @ + 1]
    /\ UNCHANGED <<index, main, run, join>>

Writer(w) ==
    WriterLeave(w) \/ WriterCall(w) \/ WriterLock(w) \/ WriterUpdate(w) \/ WriterCount(w)

-----------------------------------------------------------------------------
(* The workers of execute *)

Step(p, from, to) ==
    /\ worker[p].at = from
    /\ worker' = [worker EXCEPT ![p].at = to]

WorkerLoop(p) ==
    /\ Step(p, "loop", IF worker[p].i < Begin(p + 1) THEN "try" ELSE "done")
    /\ IF worker[p].i < Begin(p + 1) THEN CountProbe ELSE UNCHANGED index
    /\ UNCHANGED <<main, run, txn, hits>>

WorkerTry(p) ==
    /\ \/ Step(p, "try", "read") /\ EnterShared(p)
       \/ Step(p, "try", "wait") /\ MissShared
    /\ UNCHANGED <<main, run, txn, hits>>

WorkerWait(p) ==
    /\ Step(p, "wait", "read")
    /\ WaitShared(p)
    /\ UNCHANGED <<main, run, txn, hits>>

(* The number of tids of a key, duplicates included. *)
Size(tids) == SumFunctionOnSet(tids, TIDs)

WorkerReads(p, pairs) ==
    /\ worker[p].at = "read"
    /\ worker' = [worker EXCEPT ![p].at = "loop", ![p].i = @ + 1,
                                ![p].probes = @ + 1, ![p].pairs = @ + pairs]
    /\ hits' = [hits EXCEPT ![worker[p].i + 1] = @ + 1]
    /\ LeaveShared(p)
    /\ UNCHANGED <<main, run, txn>>

(* Plausible bug: a key that is found counts once, whatever it holds. *)
MatchWorkerRead(p) ==
    WorkerReads(p, IF Size(table[S[worker[p].i + 1]]) = 0 THEN 0 ELSE 1)

(* Copy the list, release the lock, add up. *)
WorkerRead(p) == WorkerReads(p, Size(table[S[worker[p].i + 1]]))

Worker(p) == WorkerLoop(p) \/ WorkerTry(p) \/ WorkerWait(p) \/ WorkerRead(p)

Terminated == main = "done" /\ UNCHANGED vars

Next ==
    \/ Main
    \/ \E w \in Writers : Writer(w)
    \/ \E p \in Workers : Worker(p)
    \/ Terminated

(* Every thread is scheduled.  Nothing is assumed of rw_mutex_ beyond that: a
   thread that waits for it gets it when it stays free, and no other wants it
   for ever, because the probes of a trial are as many as S has tuples. *)
Spec ==
    /\ Init /\ [][Next]_vars
    /\ WF_vars(Main)
    /\ \A w \in Writers : WF_vars(Writer(w))
    /\ \A p \in Workers : WF_vars(Worker(p))

-----------------------------------------------------------------------------
(* The workers' shares of S cover it without an overlap: no tuple is probed
   twice, and when the join is over each has been probed. *)
TuplesProbedOnce ==
    \A i \in 1 .. Len(S) :
        hits[i] \in IF \A p \in Workers : worker[p].at = "done" THEN {1} ELSE {0, 1}

(* When the counts are collected, the index and its users agree: probes of the
   join, writes of the manager, and no more blocked probes than probes. *)
CountsAgree ==
    main = "done" =>
        /\ probe_count = SumFunction([p \in Workers |-> worker[p].probes])
        /\ probe_blocked <= probe_count
        /\ write_count = totals["INSERT"] + totals["DELETE"]

(* The index is destroyed after the last thread that has its address. *)
IndexOutlivesThreads ==
    main = "done" =>
        /\ \A w \in Writers : writer[w].at = "done"
        /\ \A p \in Workers : worker[p].at = "done"

(* The join of S with the contents c. *)
JoinSize(c) == SumFunction([i \in 1 .. Len(S) |-> Size(c[S[i]])])

(* The size of the join lies between the one with R as loaded and the one with
   what is left in the end, if the writers only insert or only delete. *)
JoinBetween ==
    main = "done" =>
        LET pairs == SumFunction([p \in Workers |-> worker[p].pairs]) IN
        /\ mix = {"INSERT"} => pairs \in JoinSize(Relation) .. JoinSize(table)
        /\ mix = {"DELETE"} => pairs \in JoinSize(table) .. JoinSize(Relation)

(* The trial ends: writers without a duration are stopped, and nobody waits for
   the lock for ever. *)
TrialEnds == <>(main = "done")
=============================================================================
