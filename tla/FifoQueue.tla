------------------------------ MODULE FifoQueue ------------------------------
(***************************************************************************)
(* What the two queues of lab13 promise: keys leave in the order in which  *)
(* they came.  A dequeue may be called on an empty queue; then it waits    *)
(* for the next key.                                                       *)
(***************************************************************************)
EXTENDS Sequences

CONSTANTS Consumers, Keys

VARIABLES queue,   \* keys that no consumer has taken
          got      \* the keys each consumer has received, in order

Init ==
    /\ queue = << >>
    /\ got = [c \in Consumers |-> << >>]

Enqueue(k) ==
    /\ queue' = Append(queue, k)
    /\ UNCHANGED got

Dequeue(c) ==
    /\ queue # << >>
    /\ got' = [got EXCEPT ![c] = Append(@, Head(queue))]
    /\ queue' = Tail(queue)

\* A key that arrives when a consumer waits for it.
HandOver(c, k) ==
    /\ queue = << >>
    /\ got' = [got EXCEPT ![c] = Append(@, k)]
    /\ UNCHANGED queue

Next ==
    \/ \E k \in Keys : Enqueue(k)
    \/ \E c \in Consumers : Dequeue(c) \/ \E k \in Keys : HandOver(c, k)

Spec == Init /\ [][Next]_<<queue, got>>
=============================================================================
