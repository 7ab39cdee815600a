------------------------------- MODULE MCBFCSI -------------------------------
(* Values for the constants of BFCSI. *)
EXTENDS BFCSI, TLC

(* The highest key is not in R, the others have one tuple each. *)
LoadedR ==
    [k \in Keys |-> IF \A j \in Keys : j <= k THEN {} ELSE TIDs]

(* Keys 1 and 3, which share a shard and a slot, set the same bits. *)
TwoBits == [k \in Keys |-> IF k = 2 THEN {2, 3} ELSE {1, 2}]

Symmetry == Permutations(Writers) \cup Permutations(Probers)
=============================================================================
