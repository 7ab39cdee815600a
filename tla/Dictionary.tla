----------------------------- MODULE Dictionary -----------------------------
(***************************************************************************)
(* What the v1 Bw-tree promises: a dictionary in which each call takes     *)
(* effect at one instant between its invocation and its return, insert and *)
(* upsert both overwrite, and clear() closes the dictionary for good.  A   *)
(* value is the number of the put that wrote it.                           *)
(***************************************************************************)
EXTENDS Naturals

CONSTANTS Threads, Keys

VARIABLES
    dict,     \* key -> the last put of it, 0 for none
    puts,     \* how many puts have taken effect
    closed,   \* clear() has taken effect
    call      \* thread -> its call

vars == <<dict, puts, closed, call>>

Kinds == {"insert", "upsert", "find"}

NoCall == [kind |-> "none"]

Success  == <<"SUCCESS">>
Retry    == <<"RETRY_NEEDED">>
Found(v) == <<"value", v>>     \* nothing, if v is 0

Init ==
    /\ dict = [k \in Keys |-> 0]
    /\ puts = 0
    /\ closed = FALSE
    /\ call = [t \in Threads |-> NoCall]

\* late: the call is made when the dictionary is closed.
Invoke(t) ==
    /\ call[t] = NoCall
    /\ \E kind \in Kinds, k \in Keys :
        call' = [call EXCEPT ![t] = [kind |-> kind, key |-> k, late |-> closed]]
    /\ UNCHANGED <<dict, puts, closed>>

Answer(t, r) == call' = [call EXCEPT ![t] = [kind |-> "answered", result |-> r]]

Put(t) ==
    /\ call[t].kind \in {"insert", "upsert"}
    /\ ~ call[t].late
    /\ puts' = puts + 1
    /\ dict' = [dict EXCEPT ![call[t].key] = puts + 1]
    /\ Answer(t, Success)
    /\ UNCHANGED closed

Get(t) ==
    /\ call[t].kind = "find"
    /\ ~ call[t].late
    /\ Answer(t, Found(dict[call[t].key]))
    /\ UNCHANGED <<dict, puts, closed>>

Refuse(t) ==
    /\ call[t].kind \in Kinds
    /\ closed
    /\ Answer(t, IF call[t].kind = "find" THEN Found(0) ELSE Retry)
    /\ UNCHANGED <<dict, puts, closed>>

Return(t) ==
    /\ call[t].kind = "answered"
    /\ call' = [call EXCEPT ![t] = NoCall]
    /\ UNCHANGED <<dict, puts, closed>>

Close == closed' = TRUE /\ UNCHANGED <<dict, puts, call>>

Next ==
    \/ Close
    \/ \E t \in Threads : Invoke(t) \/ Put(t) \/ Get(t) \/ Refuse(t) \/ Return(t)

Spec == Init /\ [][Next]_vars
=============================================================================
