--------------------------------- MODULE NHJ ---------------------------------
(***************************************************************************)
(* The baseline index: a hash table behind one std::shared_mutex.  A probe *)
(* first tries the lock, and is counted as blocked if it has to wait.      *)
(*                                                                         *)
(* This module has the steps of its operations on the state of the index;  *)
(* the callers' loops, which give them their order, are in Trial.  A step  *)
(* ends where the lock is taken, and the rest of a critical section is one *)
(* step: nobody else sees the table in between.                            *)
(***************************************************************************)
EXTENDS TidIndex, Integers

CONSTANT NoThread   \* nobody holds rw_mutex_ exclusively

VARIABLES
    table,         \* table_
    readers,       \* the probes that hold rw_mutex_ shared
    holder,        \* the writer that holds rw_mutex_ exclusively
    probe_count,   \* probe_count_
    probe_blocked, \* probe_blocked_
    write_count    \* write_count_

rw_mutex == <<readers, holder>>
counts   == <<probe_count, probe_blocked, write_count>>
index    == <<table, rw_mutex, counts>>

IndexInit ==
    /\ table = EmptyContents
    /\ readers = {}
    /\ holder = NoThread
    /\ probe_count = 0
    /\ probe_blocked = 0
    /\ write_count = 0

BulkLoad ==
    /\ holder = NoThread /\ readers = {}
    /\ table' = Relation
    /\ UNCHANGED <<rw_mutex, counts>>

-----------------------------------------------------------------------------
(* probe *)

CountProbe ==
    /\ probe_count' = probe_count + 1
    /\ UNCHANGED <<table, rw_mutex, probe_blocked, write_count>>

(* try_lock succeeds, or lock returns. *)
EnterShared(p) ==
    /\ holder = NoThread
    /\ readers' = readers \cup {p}
    /\ UNCHANGED <<table, holder, counts>>

(* try_lock fails: the lock is held exclusively, or for no reason at all. *)
MissShared ==
    /\ probe_blocked' = probe_blocked + 1
    /\ UNCHANGED <<table, rw_mutex, probe_count, write_count>>

WaitShared(p) == EnterShared(p)

LeaveShared(p) ==
    /\ readers' = readers \ {p}
    /\ UNCHANGED <<table, holder, counts>>

-----------------------------------------------------------------------------
(* insert and remove *)

EnterExclusive(w) ==
    /\ holder = NoThread /\ readers = {}
    /\ holder' = w
    /\ UNCHANGED <<table, readers, counts>>

(* Plausible bug: the lock is only released if the table has changed. *)
EarlyReturnUpdate(op) ==
    /\ table' = Apply(table, op)
    /\ holder' = IF table' = table THEN holder ELSE NoThread
    /\ write_count' = write_count + 1
    /\ UNCHANGED <<readers, probe_count, probe_blocked>>

(* Change the table, count the write, return and so release the lock. *)
Update(op) ==
    /\ table' = Apply(table, op)
    /\ holder' = NoThread
    /\ write_count' = write_count + 1
    /\ UNCHANGED <<readers, probe_count, probe_blocked>>

(* get_stats reads under the shared lock and leaves no trace. *)
ReadStats == holder = NoThread /\ UNCHANGED index
=============================================================================
