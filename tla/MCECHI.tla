------------------------------- MODULE MCECHI -------------------------------
(* Values for the constants of ECHI. *)
EXTENDS ECHI

(* One key that R holds once; a tid inserted again becomes a duplicate. *)
LoadedR == [k \in Keys |-> [t \in TIDs |-> 1]]
=============================================================================
