---------------------------- MODULE ConcurrentSet ----------------------------
(***************************************************************************)
(* What the sorted lists of lab11 promise: a set of keys whose operations  *)
(* take effect at one instant between their call and their return.         *)
(***************************************************************************)
CONSTANTS Threads, Keys

VARIABLES set,
          call       \* the call of a thread: [type, key, result], or Idle

vars == <<set, call>>

Idle == [type |-> "none"]
Truth(b) == IF b THEN "true" ELSE "false"
Pending == "pending"
Types == {"A", "R", "C"}

Init ==
    /\ set = {}
    /\ call = [t \in Threads |-> Idle]

Call(t) ==
    /\ call[t] = Idle
    /\ \E type \in Types, k \in Keys :
          call' = [call EXCEPT ![t] = [type |-> type, key |-> k, result |-> Pending]]
    /\ UNCHANGED set

\* add and remove succeed when they change the set.
Effect(type, k) ==
    CASE type = "A" -> set \cup {k}
      [] type = "R" -> set \ {k}
      [] type = "C" -> set

TakeEffect(t) ==
    /\ call[t] # Idle
    /\ call[t].result = Pending
    /\ set' = Effect(call[t].type, call[t].key)
    /\ call' = [call EXCEPT ![t].result =
                  Truth((call[t].type = "A") # (call[t].key \in set))]

Return(t) ==
    /\ call[t] # Idle
    /\ call[t].result # Pending
    /\ call' = [call EXCEPT ![t] = Idle]
    /\ UNCHANGED set

Next == \E t \in Threads : Call(t) \/ TakeEffect(t) \/ Return(t)

Spec == Init /\ [][Next]_vars
=============================================================================
