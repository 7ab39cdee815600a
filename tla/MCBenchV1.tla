------------------------------ MODULE MCBenchV1 ------------------------------
(* Values for the constants of BenchV1. *)
EXTENDS BenchV1

\* Keys 1 and 3 fall into partition 0, where hot keys are looked for, key 2
\* into the last one, which is the second of its thread.
Hash == [k \in Keys |-> IF k = 2 THEN 3 ELSE 0]

Rounds == <<1, 2>>
=============================================================================
