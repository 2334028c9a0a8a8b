---------------------------- MODULE LockedCounter ----------------------------
(***************************************************************************)
(* What a lock of lab10 promises to the threads that count under it: one   *)
(* thread at a time is between lock and unlock, and it adds one.           *)
(***************************************************************************)
EXTENDS Integers

CONSTANT Threads

VARIABLES phase,      \* "out", "in" (before the increment) or "added"
          cnt_global

vars == <<phase, cnt_global>>

Init ==
    /\ phase = [t \in Threads |-> "out"]
    /\ cnt_global = 0

Lock(t) ==
    /\ \A u \in Threads : phase[u] = "out"
    /\ phase' = [phase EXCEPT ![t] = "in"]
    /\ UNCHANGED cnt_global

Increment(t) ==
    /\ phase[t] = "in"
    /\ phase' = [phase EXCEPT ![t] = "added"]
    /\ cnt_global' = cnt_global + 1

Unlock(t) ==
    /\ phase[t] = "added"
    /\ phase' = [phase EXCEPT ![t] = "out"]
    /\ UNCHANGED cnt_global

Next == \E t \in Threads : Lock(t) \/ Increment(t) \/ Unlock(t)

Spec == Init /\ [][Next]_vars
=============================================================================
