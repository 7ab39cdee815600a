------------------------------- MODULE MCMVCC -------------------------------
(* Values for the constants of MVCC. *)
EXTENDS MVCC

(* Every key of R has every tid once. *)
LoadedR == [k \in Keys |-> [t \in TIDs |-> 1]]
=============================================================================
