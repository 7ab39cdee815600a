------------------------------- MODULE MCTrial -------------------------------
(* Values for the constants of Trial. *)
EXTENDS Trial, TLC

CONSTANTS k1, k2

(* One key has both tids, the other is not in R. *)
LoadedR == [k \in Keys |-> [t \in TIDs |-> IF k = k1 THEN 1 ELSE 0]]

(* Three tuples for two workers: the shares are not equal. *)
ThreeProbes == <<k1, k2, k1>>
=============================================================================
