------------------------------ MODULE TidIndex ------------------------------
(***************************************************************************)
(* What an index of this program holds and what one write does to it: the  *)
(* part of the BaseIndex contract that does not depend on the protocol.    *)
(*                                                                         *)
(* A key maps to a std::vector<TID>.  No caller looks at the order of that *)
(* vector (JoinExecutor adds up its size), but duplicates count, so the    *)
(* posting list of a key is a bag of tuple ids.  A key with an empty list  *)
(* is never stored: the code erases it, and here its bag is empty.         *)
(***************************************************************************)
EXTENDS Naturals

CONSTANTS Keys,      \* the join keys
          TIDs,      \* the tuple ids of relation R
          Relation   \* what bulk_load puts into the index

Contents == [Keys -> [TIDs -> Nat]]

EmptyContents == [k \in Keys |-> [t \in TIDs |-> 0]]

(* WriteOp: one insert(key, tid) or remove(key, tid). *)
WriteOp == [op : {"INSERT", "DELETE"}, key : Keys, tid : TIDs]

(* push_back of the tid, or erase-remove of every copy of it. *)
Apply(c, w) ==
    IF w.op = "INSERT" THEN [c EXCEPT ![w.key][w.tid] = @ + 1]
                       ELSE [c EXCEPT ![w.key][w.tid] = 0]

ASSUME RelationAssumption == Relation \in Contents

(***************************************************************************)
(* Contents grow from R, or from nothing where bulk_load was overtaken.    *)
(* A history of the writes keeps both.                                     *)
(***************************************************************************)
Origins == {"relation", "nothing"}

Histories == [Origins -> Contents]

Unwritten == [o \in Origins |-> IF o = "relation" THEN Relation ELSE EmptyContents]

ApplyToBoth(h, w) == [o \in Origins |-> Apply(h[o], w)]
=============================================================================
