----------------------------- MODULE TicketQueue -----------------------------
(***************************************************************************)
(* The lock-free queue of lab13 (concurrent_queue.cpp).  A call takes a    *)
(* ticket with fetch-and-add; the ticket names a slot and a round, and the *)
(* call spins until the flag of the slot says that its turn has come.      *)
(*                                                                         *)
(* Each load and store of a shared variable is a step.  The loads and      *)
(* stores of a thread happen in program order, as on the x86 the labs run  *)
(* on; the spinning test reads the flag twice, as the source does.         *)
(***************************************************************************)
EXTENDS Integers, Sequences, FiniteSets

CONSTANTS Producers, Consumers,
          QUEUE_SIZE,
          Enqueues,       \* NUM_ENQUEUE_PER_PRODUCER
          Dequeues        \* NUM_DEQUEUE_PER_CONSUMER

ASSUME ThreadsAssumption ==
    /\ IsFiniteSet(Producers) /\ IsFiniteSet(Consumers)
    /\ Producers \cap Consumers = {}
ASSUME SizeAssumption == QUEUE_SIZE \in Nat \ {0}
ASSUME WorkAssumption ==
    /\ Enqueues \in Nat /\ Dequeues \in Nat
    /\ Cardinality(Producers) * Enqueues = Cardinality(Consumers) * Dequeues

VARIABLES
    queue,               \* the slots: [key, flag]
    front, rear,         \* the next ticket of a dequeue and of an enqueue
    pc,
    ticket,              \* the ticket of the running call
    temp,                \* the flag between the load and the store of flag++
    ret_key,             \* the key a dequeue will return
    count,               \* finished calls of a thread
    flag_verification,   \* the keys marked as received
    enqueued,            \* history: the key of each enqueue ticket
    got                  \* history: what the calls of a consumer returned

vars == <<queue, front, rear, pc, ticket, temp, ret_key, count,
          flag_verification, enqueued, got>>
history == <<flag_verification, enqueued, got>>

Threads == Producers \cup Consumers
Keys == Producers \X (0..(Enqueues - 1))
NoKey == << >>                  \* the 0 that dequeue stores into the slot
Slots == 0..(QUEUE_SIZE - 1)

Init ==
    /\ queue = [s \in Slots |-> [key |-> NoKey, flag |-> 0]]
    /\ front = 0 /\ rear = 0
    /\ pc = [t \in Threads |-> "call"]
    /\ ticket = [t \in Threads |-> 0]
    /\ temp = [t \in Threads |-> 0]
    /\ ret_key = [c \in Consumers |-> NoKey]
    /\ count = [t \in Threads |-> 0]
    /\ flag_verification = {}
    /\ enqueued = << >>
    /\ got = [c \in Consumers |-> << >>]

-----------------------------------------------------------------------------
At(t, label) == pc[t] = label
Goto(t, label) == pc' = [pc EXCEPT ![t] = label]

idx(t) == ticket[t] % QUEUE_SIZE
round(t) == ticket[t] \div QUEUE_SIZE
flag(t) == queue[idx(t)].flag

Work(t) == IF t \in Producers THEN Enqueues ELSE Dequeues

\* The key of the next call of producer p: key_enqueue.
NextKey(p) == <<p, count[p]>>

EnqueueTicket(p) ==
    /\ At(p, "call")
    /\ count[p] < Enqueues
    /\ ticket' = [ticket EXCEPT ![p] = rear]
    /\ rear' = rear + 1
    /\ enqueued' = Append(enqueued, NextKey(p))
    /\ Goto(p, "parity")
    /\ UNCHANGED <<queue, front, temp, ret_key, count, flag_verification, got>>

DequeueTicket(c) ==
    /\ At(c, "call")
    /\ count[c] < Dequeues
    /\ ticket' = [ticket EXCEPT ![c] = front]
    /\ front' = front + 1
    /\ Goto(c, "parity")
    /\ UNCHANGED <<queue, rear, temp, ret_key, count, history>>

\* The two halves of the spinning test, each with its own load of the flag.
\* An enqueue wants an even flag, a dequeue an odd one.
Parity(t) == IF t \in Producers THEN 0 ELSE 1

TestParity(t) ==
    /\ At(t, "parity")
    /\ Goto(t, IF flag(t) % 2 = Parity(t) THEN "round" ELSE "parity")
    /\ UNCHANGED <<queue, front, rear, ticket, temp, ret_key, count, history>>

\* Mutant: the test that the source keeps as a comment, which compares the
\* rounds only.
MyTurn_RoundOnly(t) == flag(t) \div 2 = round(t)

MyTurn(t) == flag(t) = round(t) * 2 + Parity(t)

TestRound(t) ==
    /\ At(t, "round")
    /\ Goto(t, IF MyTurn(t) THEN "key" ELSE "parity")
    /\ UNCHANGED <<queue, front, rear, ticket, temp, ret_key, count, history>>

StoreKey(p) ==
    /\ At(p, "key")
    /\ queue' = [queue EXCEPT ![idx(p)].key = NextKey(p)]
    /\ Goto(p, "load")
    /\ UNCHANGED <<front, rear, ticket, temp, ret_key, count, history>>

LoadKey(c) ==
    /\ At(c, "key")
    /\ ret_key' = [ret_key EXCEPT ![c] = queue[idx(c)].key]
    /\ Goto(c, "clear")
    /\ UNCHANGED <<queue, front, rear, ticket, temp, count, history>>

ClearKey(c) ==
    /\ At(c, "clear")
    /\ queue' = [queue EXCEPT ![idx(c)].key = NoKey]
    /\ Goto(c, "load")
    /\ UNCHANGED <<front, rear, ticket, temp, ret_key, count, history>>

\* queue[idx].flag++, which is not atomic.
LoadFlag(t) ==
    /\ At(t, "load")
    /\ temp' = [temp EXCEPT ![t] = flag(t)]
    /\ Goto(t, "store")
    /\ UNCHANGED <<queue, front, rear, ticket, ret_key, count, history>>

\* Mutant: a dequeue opens the slot for the round after the next one.
StoreFlag_SkipsRound(t) ==
    /\ At(t, "store")
    /\ queue' = [queue EXCEPT ![idx(t)].flag = temp[t] + (IF t \in Producers THEN 1 ELSE 3)]
    /\ count' = [count EXCEPT ![t] = @ + 1]
    /\ Goto(t, IF t \in Producers THEN "call" ELSE "mark")
    /\ got' = IF t \in Producers THEN got
              ELSE [got EXCEPT ![t] = Append(@, ret_key[t])]
    /\ UNCHANGED <<front, rear, ticket, temp, ret_key, flag_verification, enqueued>>

\* The store of flag++ is the last step of the call.
StoreFlag(t) ==
    /\ At(t, "store")
    /\ queue' = [queue EXCEPT ![idx(t)].flag = temp[t] + 1]
    /\ count' = [count EXCEPT ![t] = @ + 1]
    /\ Goto(t, IF t \in Producers THEN "call" ELSE "mark")
    /\ got' = IF t \in Producers THEN got
              ELSE [got EXCEPT ![t] = Append(@, ret_key[t])]
    /\ UNCHANGED <<front, rear, ticket, temp, ret_key, flag_verification, enqueued>>

\* ConsumerFunc marks the key it received.
Mark(c) ==
    /\ At(c, "mark")
    /\ flag_verification' = flag_verification \cup {ret_key[c]}
    /\ Goto(c, "call")
    /\ UNCHANGED <<queue, front, rear, ticket, temp, ret_key, count, enqueued, got>>

AllDone == \A t \in Threads : At(t, "call") /\ count[t] = Work(t)

Step(t) ==
    \/ t \in Producers /\ (EnqueueTicket(t) \/ StoreKey(t))
    \/ t \in Consumers /\ (DequeueTicket(t) \/ LoadKey(t) \/ ClearKey(t) \/ Mark(t))
    \/ TestParity(t) \/ TestRound(t) \/ LoadFlag(t) \/ StoreFlag(t)

\* main has joined every thread.
Ended == AllDone /\ UNCHANGED vars

Next == (\E t \in Threads : Step(t)) \/ Ended

Spec == Init /\ [][Next]_vars

\* Every thread keeps running.
FairSpec == Spec /\ \A t \in Threads : WF_vars(Step(t))

-----------------------------------------------------------------------------
(* Properties *)

InSlot(t) == pc[t] \in {"key", "clear", "load", "store"}

\* A slot belongs to one call at a time, of an enqueue or of a dequeue: what
\* makes the plain increment of the flag and the plain accesses of the key
\* correct ("it does not need to be an atomic operation").
SlotOwned ==
    \A t, u \in Threads : t # u /\ InSlot(t) /\ InSlot(u) => idx(t) # idx(u)

\* A dequeue call that has its ticket.
Pending(c) == pc[c] \notin {"call", "mark"}

\* The queue is first in, first out: a dequeue with ticket n gets the key of
\* the enqueue with ticket n, although the calls finish in any order.  An
\* enqueue takes effect when it takes its ticket, a dequeue when both tickets
\* are taken.
Fifo == INSTANCE FifoQueue WITH
    queue <- SubSeq(enqueued, front + 1, rear),
    got <- [c \in Consumers |->
              IF Pending(c) /\ ticket[c] < rear
              THEN Append(got[c], enqueued[ticket[c] + 1]) ELSE got[c]]

ImplementsFifo == Fifo!Spec

\* No call spins for ever, so every thread finishes and main, which joins
\* them, finds every key received and prints CORRECT.
Terminates == <>(AllDone /\ flag_verification = Keys)
=============================================================================
