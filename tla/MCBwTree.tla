------------------------------ MODULE MCBwTree ------------------------------
(* Values for the constants of BwTree. *)
EXTENDS BwTree, TLC

RootPage == {Root}

Symmetry == Permutations(Threads)
=============================================================================
