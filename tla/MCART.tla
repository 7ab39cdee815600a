-------------------------------- MODULE MCART --------------------------------
(* Values for the constants of ART. *)
EXTENDS ART, TLC

\* Keys 1 and 2 share their top byte, the others have bytes on both sides.
TopByte == [k \in Keys |-> CASE k \in {1, 2} -> 5 [] k = 3 -> 3 [] OTHER -> 7]

NodeCapacity == <<4, 16, 48, 256>>

\* Every KeyValue and node a behaviour of MaxOps operations can allocate.
Objects == {"kv", "node"} \X (1 .. 2 * MaxOps)

Symmetry == Permutations(Writers)
=============================================================================
