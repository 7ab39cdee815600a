----------------------------- MODULE StaleIndex -----------------------------
(***************************************************************************)
(* What an epoch-based index promises its callers, with no threads, locks  *)
(* or buffers: the writes have one total order, the probes see a prefix of *)
(* it, the prefix only grows, and every probe reads one whole state.       *)
(*                                                                         *)
(* log[i + 1] is the contents after the first i writes of that order, both *)
(* on top of R and on top of nothing; log[visible][origin] is what a probe *)
(* sees now.  R may get lost, but only while no write is visible.          *)
(***************************************************************************)
EXTENDS TidIndex, Integers, Sequences

CONSTANT Probers

VARIABLES log, visible, origin, answer

vars == <<log, visible, origin, answer>>

Init ==
    /\ log = <<Unwritten>>
    /\ visible = 1
    /\ origin = "nothing"
    /\ answer = [p \in Probers |-> EmptyContents]

(* R is loaded before the first write. *)
Load ==
    /\ Len(log) = 1
    /\ origin' = "relation"
    /\ UNCHANGED <<log, visible, answer>>

(* The load is undone. *)
Forget ==
    /\ visible = 1
    /\ origin' = "nothing"
    /\ UNCHANGED <<log, visible, answer>>

(* A write takes its place in the order at once, visible or not. *)
Write ==
    /\ \E w \in WriteOp : log' = Append(log, ApplyToBoth(log[Len(log)], w))
    /\ UNCHANGED <<visible, origin, answer>>

(* Any number of pending writes becomes visible, oldest first, none skipped. *)
Publish ==
    /\ visible' \in visible .. Len(log)
    /\ UNCHANGED <<log, origin, answer>>

(* A probe reads the visible state. *)
Probe(p) ==
    /\ answer' = [answer EXCEPT ![p] = log[visible][origin]]
    /\ UNCHANGED <<log, visible, origin>>

Next == Load \/ Forget \/ Write \/ Publish \/ \E p \in Probers : Probe(p)

Spec == Init /\ [][Next]_vars
=============================================================================
