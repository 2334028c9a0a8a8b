-------------------------- MODULE TicketQueueProofs --------------------------
(***************************************************************************)
(* Proofs about TicketQueue, for any number of slots, threads and calls.   *)
(***************************************************************************)
EXTENDS TicketQueue, SequenceTheorems, TLAPS

\* The slot and the round that a ticket names.
Slot(n) == n % QUEUE_SIZE
Rnd(n) == n \div QUEUE_SIZE

LEMMA TicketFacts ==
    ASSUME NEW n \in Nat
    PROVE  Slot(n) \in Slots /\ Rnd(n) \in Nat /\ n = QUEUE_SIZE * Rnd(n) + Slot(n)
<1>1. QUEUE_SIZE \in Nat /\ QUEUE_SIZE > 0
  BY SizeAssumption
<1> QED
  BY <1>1 DEF Slot, Rnd, Slots

\* Two tickets of one slot have different rounds, in the order of the tickets.
LEMMA RoundsFollowTickets ==
    ASSUME NEW m \in Nat, NEW n \in Nat, m < n, Slot(m) = Slot(n)
    PROVE  Rnd(m) < Rnd(n)
<1>1. QUEUE_SIZE \in Nat /\ QUEUE_SIZE > 0
  BY SizeAssumption
<1>2. /\ Rnd(m) \in Nat /\ Rnd(n) \in Nat /\ Slot(m) \in Nat
      /\ m = QUEUE_SIZE * Rnd(m) + Slot(m)
      /\ n = QUEUE_SIZE * Rnd(n) + Slot(m)
  BY TicketFacts DEF Slots
<1>3. \A x, y, z \in Nat : x >= y => z * x >= z * y
  OBVIOUS
<1>4. SUFFICES ASSUME Rnd(m) >= Rnd(n) PROVE FALSE
  BY <1>2
<1>5. QUEUE_SIZE * Rnd(m) >= QUEUE_SIZE * Rnd(n)
  BY <1>1, <1>2, <1>3, <1>4
<1> QED
  BY <1>1, <1>2, <1>5

-----------------------------------------------------------------------------
(* The inductive invariant *)

\* The calls of a thread that hold a ticket.
Active(t) == pc[t] \in {"parity", "round", "key", "clear", "load", "store"}

ProducerLabels == {"call", "parity", "round", "key", "load", "store"}
ConsumerLabels == ProducerLabels \cup {"clear", "mark"}

TypeOK ==
    /\ queue \in [Slots -> [key : Keys \cup {NoKey}, flag : Nat]]
    /\ front \in Nat /\ rear \in Nat
    /\ pc \in [Threads -> ConsumerLabels]
    /\ \A p \in Producers : pc[p] \in ProducerLabels
    /\ ticket \in [Threads -> Nat]
    /\ temp \in [Threads -> Nat]
    /\ ret_key \in [Consumers -> Keys \cup {NoKey}]
    /\ count \in [Threads -> Nat]
    /\ enqueued \in Seq(Keys) /\ Len(enqueued) = rear
    /\ got \in [Consumers -> Seq(Keys)]

\* Two enqueues, or two dequeues, never hold the same ticket, and the history
\* knows the key of an enqueue from its ticket on.
TicketInv ==
    /\ \A p \in Producers : Active(p) =>
          /\ ticket[p] < rear
          /\ enqueued[ticket[p] + 1] = NextKey(p)
          /\ count[p] < Enqueues
    /\ \A c \in Consumers : Active(c) => ticket[c] < front
    /\ \A p, q \in Producers :
          Active(p) /\ Active(q) /\ ticket[p] = ticket[q] => p = q
    /\ \A c, d \in Consumers :
          Active(c) /\ Active(d) /\ ticket[c] = ticket[d] => c = d

\* The turn that the second test saw lasts until the call itself ends it.
TurnInv ==
    \A t \in Threads :
        /\ InSlot(t) => queue[Slot(ticket[t])].flag = 2 * Rnd(ticket[t]) + Parity(t)
        /\ At(t, "store") => temp[t] = queue[Slot(ticket[t])].flag

\* No slot is ahead of the enqueue tickets.
UnissuedInv ==
    \A n \in Nat : n >= rear => queue[Slot(n)].flag <= 2 * Rnd(n)

\* A full slot holds the key of the enqueue of its round, until the dequeue of
\* that round clears it.
FullInv ==
    \A n \in Nat :
        n < rear /\ queue[Slot(n)].flag = 2 * Rnd(n) + 1
        => \/ queue[Slot(n)].key = enqueued[n + 1]
           \/ \E c \in Consumers : pc[c] \in {"load", "store"} /\ ticket[c] = n

\* The key a call has stored into its slot, or taken out of it.
KeyInv ==
    /\ \A p \in Producers :
          pc[p] \in {"load", "store"} => queue[Slot(ticket[p])].key = NextKey(p)
    /\ \A c \in Consumers :
          pc[c] \in {"clear", "load", "store"} => ret_key[c] = enqueued[ticket[c] + 1]

\* Every dequeue ticket that is ahead of the enqueues is held by a call.
HeldInv ==
    \A n \in Nat : rear <= n /\ n < front =>
        \E c \in Consumers : Active(c) /\ ticket[c] = n

RingInv ==
    /\ TypeOK /\ TicketInv /\ TurnInv /\ UnissuedInv /\ FullInv /\ KeyInv /\ HeldInv

LEMMA InitInv == Init => RingInv
<1> SUFFICES ASSUME Init PROVE RingInv
  OBVIOUS
<1>1. TypeOK
  <2>1. enqueued \in Seq(Keys) /\ Len(enqueued) = 0 /\ got \in [Consumers -> Seq(Keys)]
    BY DEF Init
  <2> QED
    BY <2>1 DEF Init, TypeOK, ProducerLabels, ConsumerLabels, Threads
<1>2. TicketInv /\ TurnInv /\ KeyInv
  BY DEF Init, TicketInv, TurnInv, KeyInv, Active, InSlot, At, Threads
<1>3. \A n \in Nat : queue[Slot(n)].flag = 0 /\ Rnd(n) \in Nat
  BY TicketFacts DEF Init
<1>4. UnissuedInv /\ FullInv /\ HeldInv
  <2>1. front = 0 /\ rear = 0
    BY DEF Init
  <2> QED
    BY <1>3, <2>1 DEF UnissuedInv, FullInv, HeldInv
<1> QED
  BY <1>1, <1>2, <1>4 DEF RingInv

\* A slot that a call is in is in no other call.
LEMMA OneCallPerSlot ==
    ASSUME RingInv, NEW t \in Threads, NEW u \in Threads,
           InSlot(t), InSlot(u), Slot(ticket[t]) = Slot(ticket[u])
    PROVE  t = u
<1> DEFINE m == ticket[t]
           n == ticket[u]
<1>1. m \in Nat /\ n \in Nat
  BY DEF RingInv, TypeOK
<1>2. Rnd(m) \in Nat /\ Rnd(n) \in Nat
  BY <1>1, TicketFacts
<1>3. 2 * Rnd(m) + Parity(t) = 2 * Rnd(n) + Parity(u)
  BY DEF RingInv, TurnInv
<1>4. Parity(t) = Parity(u) /\ Rnd(m) = Rnd(n)
  BY <1>2, <1>3 DEF Parity
<1>5. m = n
  BY <1>1, <1>4, RoundsFollowTickets, <1>2
<1>6. Active(t) /\ Active(u)
  BY DEF Active, InSlot
<1>7. (t \in Producers /\ u \in Producers) \/ (t \in Consumers /\ u \in Consumers)
  BY <1>4 DEF Parity, Threads
<1> QED
  BY <1>5, <1>6, <1>7 DEF RingInv, TicketInv

\* The dequeue that is in a slot has a ticket that an enqueue has too.
LEMMA InSlotIssued ==
    ASSUME RingInv, NEW t \in Threads, InSlot(t)
    PROVE  ticket[t] < rear
<1>1. ticket[t] \in Nat /\ rear \in Nat
  BY DEF RingInv, TypeOK
<1>2. Rnd(ticket[t]) \in Nat
  BY <1>1, TicketFacts
<1>3. CASE t \in Producers
  BY <1>3 DEF RingInv, TicketInv, Active, InSlot
<1>4. CASE t \notin Producers
  <2>1. queue[Slot(ticket[t])].flag = 2 * Rnd(ticket[t]) + 1
    BY <1>4 DEF RingInv, TurnInv, Parity
  <2>2. ~ (ticket[t] >= rear)
    BY <1>1, <1>2, <2>1 DEF RingInv, UnissuedInv
  <2> QED
    BY <1>1, <2>2
<1> QED
  BY <1>3, <1>4

LEMMA EnqueueTicketInv ==
    ASSUME RingInv, NEW p \in Producers, EnqueueTicket(p) PROVE RingInv'
<1> USE DEF RingInv
<1>0. /\ pc[p] = "call" /\ count[p] < Enqueues
      /\ ticket' = [ticket EXCEPT ![p] = rear]
      /\ rear' = rear + 1
      /\ enqueued' = Append(enqueued, NextKey(p))
      /\ pc' = [pc EXCEPT ![p] = "parity"]
      /\ UNCHANGED <<queue, front, temp, ret_key, count, flag_verification, got>>
  BY DEF EnqueueTicket, At, Goto
<1>a. p \in Threads /\ p \notin Consumers
  BY ThreadsAssumption DEF Threads
<1>b. NextKey(p) \in Keys
  BY <1>0, <1>a, WorkAssumption DEF NextKey, Keys, TypeOK
<1>c. /\ Len(enqueued') = rear + 1
      /\ enqueued' \in Seq(Keys)
      /\ enqueued'[rear + 1] = NextKey(p)
      /\ \A n \in Nat : n < rear => enqueued'[n + 1] = enqueued[n + 1]
  BY <1>0, <1>b DEF TypeOK
<1>d. \A c \in Consumers : c # p /\ pc'[c] = pc[c] /\ ticket'[c] = ticket[c]
  BY <1>0, <1>a DEF TypeOK, Threads
<1>1. TypeOK'
  BY <1>0, <1>a, <1>c DEF TypeOK, ProducerLabels, ConsumerLabels, Threads
<1>2. TicketInv'
  <2>1. ASSUME NEW q \in Producers, Active(q)'
        PROVE  /\ ticket'[q] < rear'
               /\ enqueued'[ticket'[q] + 1] = NextKey(q)'
               /\ count'[q] < Enqueues
    <3>1. CASE q = p
      BY <3>1, <1>0, <1>a, <1>c DEF TypeOK, NextKey
    <3>2. CASE q # p
      <4>1. Active(q) /\ ticket'[q] = ticket[q] /\ ticket[q] \in Nat
        BY <3>2, <2>1, <1>0, <1>a DEF TypeOK, Active, Threads
      <4> QED
        BY <4>1, <1>0, <1>c DEF TypeOK, TicketInv, NextKey
    <3> QED
      BY <3>1, <3>2
  <2>2. ASSUME NEW q \in Producers, NEW r \in Producers, Active(q)', Active(r)',
               ticket'[q] = ticket'[r]
        PROVE  q = r
    <3>1. \A w \in Producers : w # p /\ Active(w)' =>
              Active(w) /\ ticket'[w] = ticket[w] /\ ticket[w] < rear
      BY <1>0, <1>a DEF TypeOK, TicketInv, Active, Threads
    <3>2. ticket'[p] = rear /\ rear \in Nat
      BY <1>0, <1>a DEF TypeOK
    <3> QED
      BY <2>2, <3>1, <3>2 DEF TicketInv
  <2>3. \A c \in Consumers : Active(c)' => Active(c)
    BY <1>d DEF Active
  <2> QED
    BY <2>1, <2>2, <2>3, <1>0, <1>d DEF TicketInv
<1>3. TurnInv'
  BY <1>0, <1>a DEF TypeOK, TurnInv, InSlot, At
<1>4. UnissuedInv'
  BY <1>0 DEF TypeOK, UnissuedInv
<1>5. FullInv'
  <2> SUFFICES ASSUME NEW n \in Nat, n < rear + 1, queue[Slot(n)].flag = 2 * Rnd(n) + 1
               PROVE  \/ queue[Slot(n)].key = enqueued'[n + 1]
                      \/ \E c \in Consumers : pc'[c] \in {"load", "store"} /\ ticket'[c] = n
    BY <1>0 DEF FullInv
  <2>1. Rnd(n) \in Nat /\ rear \in Nat
    BY TicketFacts DEF TypeOK
  <2>2. n < rear
    BY <2>1 DEF UnissuedInv
  <2> QED
    BY <2>2, <1>c, <1>d DEF FullInv
<1>6. KeyInv'
  <2>1. \A q \in Producers : pc'[q] \in {"load", "store"} =>
            pc[q] \in {"load", "store"} /\ ticket'[q] = ticket[q]
    BY <1>0, <1>a DEF TypeOK, Threads
  <2>2. \A c \in Consumers : pc[c] \in {"clear", "load", "store"} =>
            ticket[c] \in Nat /\ ticket[c] < rear
    BY InSlotIssued DEF InSlot, Threads, TypeOK
  <2>3. ASSUME NEW q \in Producers, pc'[q] \in {"load", "store"}
        PROVE  queue'[Slot(ticket'[q])].key = NextKey(q)'
    BY <2>1, <2>3, <1>0 DEF KeyInv, NextKey
  <2>4. ASSUME NEW c \in Consumers, pc'[c] \in {"clear", "load", "store"}
        PROVE  ret_key'[c] = enqueued'[ticket'[c] + 1]
    <3>1. ret_key[c] = enqueued[ticket[c] + 1] /\ ticket[c] \in Nat /\ ticket[c] < rear
      BY <2>2, <2>4, <1>d DEF KeyInv
    <3> QED
      BY <3>1, <1>0, <1>c, <1>d
  <2> QED
    BY <2>3, <2>4 DEF KeyInv
<1>7. HeldInv'
  <2> SUFFICES ASSUME NEW n \in Nat, rear + 1 <= n, n < front
               PROVE  \E c \in Consumers : Active(c)' /\ ticket'[c] = n
    BY <1>0 DEF HeldInv
  <2>0. rear <= n
    BY DEF TypeOK
  <2>1. PICK c \in Consumers : Active(c) /\ ticket[c] = n
    BY <2>0 DEF HeldInv
  <2> QED
    BY <2>1, <1>d DEF Active
<1> QED
  BY <1>1, <1>2, <1>3, <1>4, <1>5, <1>6, <1>7

LEMMA DequeueTicketInv ==
    ASSUME RingInv, NEW c \in Consumers, DequeueTicket(c) PROVE RingInv'
<1> USE DEF RingInv
<1>0. /\ pc[c] = "call"
      /\ ticket' = [ticket EXCEPT ![c] = front]
      /\ front' = front + 1
      /\ pc' = [pc EXCEPT ![c] = "parity"]
      /\ UNCHANGED <<queue, rear, temp, ret_key, count, flag_verification, enqueued, got>>
  BY DEF DequeueTicket, At, Goto, history
<1>a. c \in Threads /\ c \notin Producers
  BY ThreadsAssumption DEF Threads
<1>b. \A t \in Threads : t # c => pc'[t] = pc[t] /\ ticket'[t] = ticket[t]
  BY <1>0, <1>a DEF TypeOK
<1>c. pc'[c] = "parity" /\ ticket'[c] = front /\ front \in Nat
  BY <1>0, <1>a DEF TypeOK
<1>1. TypeOK'
  BY <1>0, <1>a DEF TypeOK, ProducerLabels, ConsumerLabels, Threads
<1>2. TicketInv'
  <2>1. \A p \in Producers : (Active(p)' <=> Active(p)) /\ ticket'[p] = ticket[p]
    BY <1>a, <1>b DEF Active, Threads
  <2>2. \A d \in Consumers : d # c => (Active(d)' <=> Active(d)) /\ ticket'[d] = ticket[d]
    BY <1>b DEF Active, Threads
  <2>3. \A d \in Consumers : ticket[d] \in Nat
    BY DEF TypeOK, Threads
  <2>4. \A d \in Consumers : Active(d)' => ticket'[d] < front'
    BY <1>0, <1>c, <2>2, <2>3 DEF TicketInv
  <2>5. ASSUME NEW d \in Consumers, NEW e \in Consumers, Active(d)', Active(e)',
               ticket'[d] = ticket'[e]
        PROVE  d = e
    <3>1. \A f \in Consumers : f # c /\ Active(f)' => ticket'[f] < front
      BY <2>2 DEF TicketInv
    <3> QED
      BY <2>2, <2>3, <2>5, <3>1, <1>c DEF TicketInv
  <2>6. \A p \in Producers : NextKey(p)' = NextKey(p)
    BY <1>0 DEF NextKey
  <2> QED
    BY <1>0, <2>1, <2>4, <2>5, <2>6 DEF TicketInv
<1>3. TurnInv'
  BY <1>0, <1>b, <1>c DEF TurnInv, InSlot, At
<1>4. UnissuedInv'
  BY <1>0 DEF UnissuedInv
<1>5. FullInv'
  <2>1. \A d \in Consumers : pc[d] \in {"load", "store"} => d # c
    BY <1>0
  <2> QED
    BY <1>0, <1>b, <2>1 DEF FullInv, Threads
<1>6. KeyInv'
  BY <1>0, <1>a, <1>b, <1>c DEF KeyInv, NextKey, Threads
<1>7. HeldInv'
  <2> SUFFICES ASSUME NEW n \in Nat, rear <= n, n < front + 1
               PROVE  \E d \in Consumers : Active(d)' /\ ticket'[d] = n
    BY <1>0 DEF HeldInv
  <2>1. CASE n = front
    BY <2>1, <1>c DEF Active
  <2>2. CASE n < front
    <3>1. PICK d \in Consumers : Active(d) /\ ticket[d] = n
      BY <2>2 DEF HeldInv
    <3>2. d # c
      BY <3>1, <1>0 DEF Active
    <3> QED
      BY <3>1, <3>2, <1>b DEF Active, Threads
  <2> QED
    BY <2>1, <2>2, <1>c
<1> QED
  BY <1>1, <1>2, <1>3, <1>4, <1>5, <1>6, <1>7

\* A step within a call that changes neither the queue nor the tickets.
LEMMA QuietStep ==
    ASSUME RingInv, NEW t \in Threads, Active(t), Active(t)',
           pc' = [pc EXCEPT ![t] = pc'[t]],
           pc'[t] \in ConsumerLabels, t \in Producers => pc'[t] \in ProducerLabels,
           UNCHANGED <<queue, front, rear, ticket, count, history>>
    PROVE  TicketInv' /\ UnissuedInv' /\ HeldInv'
<1> USE DEF RingInv
<1>1. \A u \in Threads : Active(u)' <=> Active(u)
  BY DEF Active, TypeOK
<1>2. \A p \in Producers : p \in Threads /\ NextKey(p)' = NextKey(p)
  BY DEF NextKey, Threads
<1>3. \A c \in Consumers : c \in Threads
  BY DEF Threads
<1>4. TicketInv'
  BY <1>1, <1>2, <1>3 DEF TicketInv, history
<1>5. UnissuedInv'
  BY DEF UnissuedInv
<1>6. HeldInv'
  BY <1>1, <1>3 DEF HeldInv
<1> QED
  BY <1>4, <1>5, <1>6

LEMMA TestParityInv ==
    ASSUME RingInv, NEW t \in Threads, TestParity(t) PROVE RingInv'
<1> USE DEF RingInv
<1>0. /\ pc[t] = "parity"
      /\ pc' = [pc EXCEPT ![t] = pc'[t]]
      /\ pc'[t] \in {"round", "parity"}
      /\ UNCHANGED <<queue, front, rear, ticket, temp, ret_key, count, flag_verification,
                     enqueued, got>>
  BY DEF TestParity, At, Goto, history, TypeOK
<1>1. TypeOK'
  BY <1>0 DEF TypeOK, ProducerLabels, ConsumerLabels, Threads
<1>2. TicketInv' /\ UnissuedInv' /\ HeldInv'
  BY <1>0, QuietStep DEF Active, ProducerLabels, ConsumerLabels, history
<1>3. TurnInv'
  BY <1>0 DEF TypeOK, TurnInv, InSlot, At
<1>4. \A u \in Threads : pc'[u] \in {"clear", "load", "store"} \/ pc[u] \in {"clear", "load", "store"}
                           => pc'[u] = pc[u]
  BY <1>0 DEF TypeOK
<1>5. FullInv' /\ KeyInv'
  BY <1>0, <1>4 DEF FullInv, KeyInv, NextKey, Threads
<1> QED
  BY <1>1, <1>2, <1>3, <1>5

LEMMA TestRoundInv ==
    ASSUME RingInv, NEW t \in Threads, TestRound(t) PROVE RingInv'
<1> USE DEF RingInv
<1>0. /\ pc[t] = "round"
      /\ pc' = [pc EXCEPT ![t] = pc'[t]]
      /\ pc'[t] \in {"key", "parity"}
      /\ pc'[t] = "key" => queue[Slot(ticket[t])].flag = 2 * Rnd(ticket[t]) + Parity(t)
      /\ UNCHANGED <<queue, front, rear, ticket, temp, ret_key, count, flag_verification,
                     enqueued, got>>
  <2>1. ticket[t] \in Nat
    BY DEF TypeOK
  <2>2. Rnd(ticket[t]) * 2 = 2 * Rnd(ticket[t])
    BY <2>1, TicketFacts
  <2>3. MyTurn(t) <=> queue[Slot(ticket[t])].flag = 2 * Rnd(ticket[t]) + Parity(t)
    BY <2>2 DEF MyTurn, flag, idx, round, Slot, Rnd
  <2> QED
    BY <2>3 DEF TestRound, At, Goto, history, TypeOK
<1>1. TypeOK'
  BY <1>0 DEF TypeOK, ProducerLabels, ConsumerLabels, Threads
<1>2. TicketInv' /\ UnissuedInv' /\ HeldInv'
  BY <1>0, QuietStep DEF Active, ProducerLabels, ConsumerLabels, history
<1>3. TurnInv'
  BY <1>0 DEF TypeOK, TurnInv, InSlot, At
<1>4. \A u \in Threads : pc'[u] \in {"clear", "load", "store"} \/ pc[u] \in {"clear", "load", "store"}
                           => pc'[u] = pc[u]
  BY <1>0 DEF TypeOK
<1>5. FullInv' /\ KeyInv'
  BY <1>0, <1>4 DEF FullInv, KeyInv, NextKey, Threads
<1> QED
  BY <1>1, <1>2, <1>3, <1>5

LEMMA LoadFlagInv ==
    ASSUME RingInv, NEW t \in Threads, LoadFlag(t) PROVE RingInv'
<1> USE DEF RingInv
<1>0. /\ pc[t] = "load"
      /\ pc' = [pc EXCEPT ![t] = pc'[t]]
      /\ pc'[t] = "store"
      /\ temp' = [temp EXCEPT ![t] = queue[Slot(ticket[t])].flag]
      /\ UNCHANGED <<queue, front, rear, ticket, ret_key, count, flag_verification,
                     enqueued, got>>
  BY DEF LoadFlag, At, Goto, history, TypeOK, flag, idx, Slot
<1>a. queue[Slot(ticket[t])].flag \in Nat
  BY TicketFacts DEF TypeOK
<1>1. TypeOK'
  BY <1>0, <1>a DEF TypeOK, ProducerLabels, ConsumerLabels, Threads
<1>2. TicketInv' /\ UnissuedInv' /\ HeldInv'
  BY <1>0, QuietStep DEF Active, ProducerLabels, ConsumerLabels, history
<1>3. TurnInv'
  BY <1>0 DEF TypeOK, TurnInv, InSlot, At
<1>4. \A u \in Threads : /\ pc'[u] \in {"load", "store"} <=> pc[u] \in {"load", "store"}
                         /\ pc'[u] = "clear" <=> pc[u] = "clear"
  BY <1>0 DEF TypeOK
<1>5. FullInv'
  BY <1>0, <1>4 DEF FullInv, Threads
<1>6. KeyInv'
  BY <1>0, <1>4 DEF KeyInv, NextKey, Threads
<1> QED
  BY <1>1, <1>2, <1>3, <1>5, <1>6

\* What a step of t that writes the key of its slot leaves alone.
LEMMA KeyWrite ==
    ASSUME RingInv, NEW t \in Threads, pc[t] \in {"key", "clear"},
           NEW k \in Keys \cup {NoKey},
           queue' = [queue EXCEPT ![idx(t)].key = k]
    PROVE  /\ queue' \in [Slots -> [key : Keys \cup {NoKey}, flag : Nat]]
           /\ \A n \in Nat : queue'[Slot(n)].flag = queue[Slot(n)].flag
           /\ \A n \in Nat : Slot(n) # Slot(ticket[t]) => queue'[Slot(n)].key = queue[Slot(n)].key
           /\ queue'[Slot(ticket[t])].key = k
           /\ \A u \in Threads : u # t /\ InSlot(u) =>
                  queue'[Slot(ticket[u])].key = queue[Slot(ticket[u])].key
<1>1. /\ queue' = [queue EXCEPT ![Slot(ticket[t])].key = k]
      /\ ticket[t] \in Nat /\ queue \in [Slots -> [key : Keys \cup {NoKey}, flag : Nat]]
  BY DEF idx, Slot, RingInv, TypeOK
<1>2. Slot(ticket[t]) \in Slots
  BY <1>1, TicketFacts
<1>3. \A n \in Nat : Slot(n) \in Slots
  BY TicketFacts
<1>4. \A u \in Threads : u # t /\ InSlot(u) => Slot(ticket[u]) # Slot(ticket[t])
  BY OneCallPerSlot DEF InSlot
<1>5. \A u \in Threads : ticket[u] \in Nat
  BY DEF RingInv, TypeOK
<1>6. /\ queue' \in [Slots -> [key : Keys \cup {NoKey}, flag : Nat]]
      /\ queue'[Slot(ticket[t])].key = k
  BY <1>1, <1>2
<1>7. \A x \in Slots : /\ queue'[x].flag = queue[x].flag
                       /\ x # Slot(ticket[t]) => queue'[x].key = queue[x].key
  BY <1>1, <1>2
<1> QED
  BY <1>3, <1>4, <1>5, <1>6, <1>7

LEMMA StoreKeyInv ==
    ASSUME RingInv, NEW p \in Producers, StoreKey(p) PROVE RingInv'
<1> USE DEF RingInv
<1> DEFINE s == Slot(ticket[p])
<1>0. /\ pc[p] = "key"
      /\ queue' = [queue EXCEPT ![idx(p)].key = NextKey(p)]
      /\ pc' = [pc EXCEPT ![p] = pc'[p]]
      /\ pc'[p] = "load"
      /\ UNCHANGED <<front, rear, ticket, temp, ret_key, count, flag_verification,
                     enqueued, got>>
  BY DEF StoreKey, At, Goto, history, TypeOK, Threads
<1>a. p \in Threads /\ p \notin Consumers
  BY ThreadsAssumption DEF Threads
<1>b. NextKey(p) \in Keys
  <2>1. count[p] < Enqueues
    BY <1>0 DEF TicketInv, Active
  <2> QED
    BY <2>1, <1>a, WorkAssumption DEF NextKey, Keys, TypeOK
<1>c. /\ queue' \in [Slots -> [key : Keys \cup {NoKey}, flag : Nat]]
      /\ \A n \in Nat : queue'[Slot(n)].flag = queue[Slot(n)].flag
      /\ \A n \in Nat : Slot(n) # s => queue'[Slot(n)].key = queue[Slot(n)].key
      /\ queue'[s].key = NextKey(p)
      /\ \A u \in Threads : u # p /\ InSlot(u) =>
             queue'[Slot(ticket[u])].key = queue[Slot(ticket[u])].key
  BY <1>0, <1>a, <1>b, KeyWrite
<1>d. \A u \in Threads : ticket[u] \in Nat /\ (u # p => pc'[u] = pc[u])
  BY <1>0 DEF TypeOK
<1>1. TypeOK'
  BY <1>0, <1>a, <1>c DEF TypeOK, ProducerLabels, ConsumerLabels, Threads
<1>2. TicketInv' /\ HeldInv'
  <2>1. \A u \in Threads : Active(u)' <=> Active(u)
    BY <1>0, <1>d DEF Active
  <2>2. \A c \in Consumers : c \in Threads
    BY DEF Threads
  <2>3. \A q \in Producers : q \in Threads /\ NextKey(q)' = NextKey(q)
    BY <1>0 DEF NextKey, Threads
  <2>4. TicketInv'
    BY <1>0, <2>1, <2>2, <2>3 DEF TicketInv
  <2>5. HeldInv'
    BY <1>0, <2>1, <2>2 DEF HeldInv
  <2> QED
    BY <2>4, <2>5
<1>3. TurnInv'
  BY <1>0, <1>c, <1>d DEF TurnInv, InSlot, At
<1>4. UnissuedInv'
  BY <1>0, <1>c DEF UnissuedInv
<1>5. FullInv'
  <2> SUFFICES ASSUME NEW n \in Nat, n < rear, queue[Slot(n)].flag = 2 * Rnd(n) + 1
               PROVE  \/ queue'[Slot(n)].key = enqueued[n + 1]
                      \/ \E c \in Consumers : pc'[c] \in {"load", "store"} /\ ticket[c] = n
    BY <1>0, <1>c DEF FullInv
  <2>1. queue[s].flag = 2 * Rnd(ticket[p]) + 0
    BY <1>0, <1>a DEF TurnInv, InSlot, Parity
  <2>2. Rnd(ticket[p]) \in Nat /\ Rnd(n) \in Nat
    BY <1>a, <1>d, TicketFacts
  <2>3. Slot(n) # s
    BY <2>1, <2>2
  <2>4. \A c \in Consumers : pc'[c] = pc[c]
    BY <1>a, <1>d DEF Threads
  <2> QED
    BY <2>3, <2>4, <1>c DEF FullInv
<1>6. KeyInv'
  <2>1. ASSUME NEW q \in Producers, pc'[q] \in {"load", "store"}
        PROVE  queue'[Slot(ticket'[q])].key = NextKey(q)'
    <3>1. CASE q = p
      BY <3>1, <1>0, <1>c DEF NextKey
    <3>2. CASE q # p
      <4>1. pc[q] \in {"load", "store"} /\ q \in Threads
        BY <3>2, <2>1, <1>d DEF Threads
      <4>2. queue'[Slot(ticket[q])].key = queue[Slot(ticket[q])].key
        BY <4>1, <3>2, <1>c DEF InSlot
      <4> QED
        BY <4>1, <4>2, <1>0 DEF KeyInv, NextKey
    <3> QED
      BY <3>1, <3>2
  <2>2. \A c \in Consumers : pc'[c] = pc[c]
    BY <1>a, <1>d DEF Threads
  <2> QED
    BY <2>1, <2>2, <1>0 DEF KeyInv
<1> QED
  BY <1>1, <1>2, <1>3, <1>4, <1>5, <1>6

LEMMA LoadKeyInv ==
    ASSUME RingInv, NEW c \in Consumers, LoadKey(c) PROVE RingInv'
<1> USE DEF RingInv
<1> DEFINE s == Slot(ticket[c])
<1>0. /\ pc[c] = "key"
      /\ ret_key' = [ret_key EXCEPT ![c] = queue[s].key]
      /\ pc' = [pc EXCEPT ![c] = pc'[c]]
      /\ pc'[c] = "clear"
      /\ UNCHANGED <<queue, front, rear, ticket, temp, count, flag_verification,
                     enqueued, got>>
  BY DEF LoadKey, At, Goto, history, TypeOK, Threads, idx, Slot
<1>a. c \in Threads /\ c \notin Producers
  BY ThreadsAssumption DEF Threads
<1>b. ticket[c] \in Nat /\ s \in Slots
  BY <1>a, TicketFacts DEF TypeOK
<1>c. queue[s].key = enqueued[ticket[c] + 1]
  <2>1. ticket[c] < rear
    BY <1>0, <1>a, InSlotIssued DEF InSlot
  <2>2. queue[s].flag = 2 * Rnd(ticket[c]) + 1
    BY <1>0, <1>a DEF TurnInv, InSlot, Parity
  <2>3. ~ \E d \in Consumers : pc[d] \in {"load", "store"} /\ ticket[d] = ticket[c]
    BY <1>0 DEF TicketInv, Active
  <2> QED
    BY <1>b, <2>1, <2>2, <2>3 DEF FullInv
<1>d. \A u \in Threads : u # c => pc'[u] = pc[u]
  BY <1>0 DEF TypeOK
<1>1. TypeOK'
  <2>1. queue[s].key \in Keys \cup {NoKey}
    BY <1>b DEF TypeOK
  <2> QED
    BY <1>0, <1>a, <2>1 DEF TypeOK, ProducerLabels, ConsumerLabels, Threads
<1>2. TicketInv' /\ UnissuedInv' /\ HeldInv'
  BY <1>0, <1>a, QuietStep DEF Active, ProducerLabels, ConsumerLabels, history
<1>3. TurnInv'
  BY <1>0, <1>d DEF TurnInv, InSlot, At
<1>5. FullInv'
  <2>1. \A d \in Consumers : pc[d] \in {"load", "store"} => pc'[d] = pc[d]
    BY <1>0, <1>d DEF Threads
  <2> QED
    BY <1>0, <2>1 DEF FullInv
<1>6. KeyInv'
  <2>1. \A p \in Producers : pc'[p] = pc[p]
    BY <1>a, <1>d DEF Threads
  <2>2. ASSUME NEW d \in Consumers, pc'[d] \in {"clear", "load", "store"}
        PROVE  ret_key'[d] = enqueued[ticket[d] + 1]
    <3>1. CASE d = c
      BY <3>1, <1>0, <1>c DEF TypeOK
    <3>2. CASE d # c
      BY <3>2, <2>2, <1>0, <1>d DEF TypeOK, KeyInv, Threads
    <3> QED
      BY <3>1, <3>2
  <2> QED
    BY <2>1, <2>2, <1>0 DEF KeyInv, NextKey
<1> QED
  BY <1>1, <1>2, <1>3, <1>5, <1>6

LEMMA ClearKeyInv ==
    ASSUME RingInv, NEW c \in Consumers, ClearKey(c) PROVE RingInv'
<1> USE DEF RingInv
<1> DEFINE s == Slot(ticket[c])
<1>0. /\ pc[c] = "clear"
      /\ queue' = [queue EXCEPT ![idx(c)].key = NoKey]
      /\ pc' = [pc EXCEPT ![c] = pc'[c]]
      /\ pc'[c] = "load"
      /\ UNCHANGED <<front, rear, ticket, temp, ret_key, count, flag_verification,
                     enqueued, got>>
  BY DEF ClearKey, At, Goto, history, TypeOK, Threads
<1>a. c \in Threads /\ c \notin Producers
  BY ThreadsAssumption DEF Threads
<1>c. /\ queue' \in [Slots -> [key : Keys \cup {NoKey}, flag : Nat]]
      /\ \A n \in Nat : queue'[Slot(n)].flag = queue[Slot(n)].flag
      /\ \A n \in Nat : Slot(n) # s => queue'[Slot(n)].key = queue[Slot(n)].key
      /\ \A u \in Threads : u # c /\ InSlot(u) =>
             queue'[Slot(ticket[u])].key = queue[Slot(ticket[u])].key
  BY <1>0, <1>a, KeyWrite
<1>d. \A u \in Threads : ticket[u] \in Nat /\ (u # c => pc'[u] = pc[u])
  BY <1>0 DEF TypeOK
<1>1. TypeOK'
  BY <1>0, <1>a, <1>c DEF TypeOK, ProducerLabels, ConsumerLabels, Threads
<1>2. TicketInv' /\ HeldInv'
  <2>1. \A u \in Threads : Active(u)' <=> Active(u)
    BY <1>0, <1>d DEF Active
  <2>2. \A d \in Consumers : d \in Threads
    BY DEF Threads
  <2>3. \A q \in Producers : q \in Threads /\ NextKey(q)' = NextKey(q)
    BY <1>0 DEF NextKey, Threads
  <2>4. TicketInv'
    BY <1>0, <2>1, <2>2, <2>3 DEF TicketInv
  <2>5. HeldInv'
    BY <1>0, <2>1, <2>2 DEF HeldInv
  <2> QED
    BY <2>4, <2>5
<1>3. TurnInv'
  BY <1>0, <1>c, <1>d DEF TurnInv, InSlot, At
<1>4. UnissuedInv'
  BY <1>0, <1>c DEF UnissuedInv
<1>5. FullInv'
  <2> SUFFICES ASSUME NEW n \in Nat, n < rear, queue[Slot(n)].flag = 2 * Rnd(n) + 1
               PROVE  \/ queue'[Slot(n)].key = enqueued[n + 1]
                      \/ \E d \in Consumers : pc'[d] \in {"load", "store"} /\ ticket[d] = n
    BY <1>0, <1>c DEF FullInv
  <2>1. CASE Slot(n) = s
    <3>1. queue[s].flag = 2 * Rnd(ticket[c]) + 1
      BY <1>0, <1>a DEF TurnInv, InSlot, Parity
    <3>2. Rnd(ticket[c]) \in Nat /\ Rnd(n) \in Nat /\ ticket[c] \in Nat
      BY <1>a, <1>d, TicketFacts
    <3>3. Rnd(ticket[c]) = Rnd(n)
      BY <3>1, <3>2, <2>1
    <3>4. ticket[c] = n
      BY <3>2, <3>3, <2>1, RoundsFollowTickets
    <3> QED
      BY <3>4, <1>0
  <2>2. CASE Slot(n) # s
    <3>1. \A d \in Consumers : pc[d] \in {"load", "store"} => pc'[d] = pc[d]
      BY <1>0, <1>d DEF Threads
    <3> QED
      BY <2>2, <3>1, <1>c DEF FullInv
  <2> QED
    BY <2>1, <2>2
<1>6. KeyInv'
  <2>1. ASSUME NEW p \in Producers, pc'[p] \in {"load", "store"}
        PROVE  queue'[Slot(ticket'[p])].key = NextKey(p)'
    <3>1. pc[p] \in {"load", "store"} /\ p \in Threads /\ p # c
      BY <2>1, <1>a, <1>d DEF Threads
    <3>2. queue'[Slot(ticket[p])].key = queue[Slot(ticket[p])].key
      BY <3>1, <1>c DEF InSlot
    <3> QED
      BY <3>1, <3>2, <1>0 DEF KeyInv, NextKey
  <2>2. \A d \in Consumers : pc'[d] \in {"clear", "load", "store"} => pc[d] \in {"clear", "load", "store"}
    BY <1>0, <1>d DEF Threads
  <2> QED
    BY <2>1, <2>2, <1>0 DEF KeyInv
<1> QED
  BY <1>1, <1>2, <1>3, <1>4, <1>5, <1>6

\* The store of the flag passes the slot on: from the enqueue of a round to
\* the dequeue of the round, or from the dequeue to the next round.
LEMMA StoreFlagInv ==
    ASSUME RingInv, NEW t \in Threads, StoreFlag(t) PROVE RingInv'
<1> USE DEF RingInv
<1> DEFINE m == ticket[t]
           s == Slot(m)
<1>0. /\ pc[t] = "store"
      /\ queue' = [queue EXCEPT ![s].flag = temp[t] + 1]
      /\ count' = [count EXCEPT ![t] = @ + 1]
      /\ pc' = [pc EXCEPT ![t] = IF t \in Producers THEN "call" ELSE "mark"]
      /\ got' = IF t \in Producers THEN got
                ELSE [got EXCEPT ![t] = Append(@, ret_key[t])]
      /\ UNCHANGED <<front, rear, ticket, temp, ret_key, flag_verification, enqueued>>
  BY DEF StoreFlag, At, Goto, idx, Slot
<1>a. m \in Nat /\ s \in Slots /\ Rnd(m) \in Nat
  BY TicketFacts DEF TypeOK
<1>b. queue[s].flag = 2 * Rnd(m) + Parity(t) /\ temp[t] = queue[s].flag
  BY <1>0 DEF TurnInv, InSlot, At
<1>c. m < rear
  BY <1>0, InSlotIssued DEF InSlot
<1>d. \A u \in Threads : u # t => pc'[u] = pc[u] /\ count'[u] = count[u]
  BY <1>0 DEF TypeOK
<1>e. ~ Active(t)' /\ ~ InSlot(t)' /\ Active(t)
  BY <1>0 DEF Active, InSlot, TypeOK
<1>f. /\ queue' \in [Slots -> [key : Keys \cup {NoKey}, flag : Nat]]
      /\ queue'[s].flag = 2 * Rnd(m) + Parity(t) + 1
      /\ \A x \in Slots : queue'[x].key = queue[x].key
      /\ \A x \in Slots : x # s => queue'[x].flag = queue[x].flag
  <2>1. temp[t] \in Nat
    BY DEF TypeOK
  <2>2. queue' \in [Slots -> [key : Keys \cup {NoKey}, flag : Nat]]
    <3>1. /\ queue' = [queue EXCEPT ![s].flag = temp[t] + 1] /\ temp[t] + 1 \in Nat
          /\ queue \in [Slots -> [key : Keys \cup {NoKey}, flag : Nat]]
      BY <2>1, <1>0 DEF TypeOK
    <3> QED
      BY <3>1
  <2>3. queue'[s].flag = temp[t] + 1
    BY <1>0, <1>a DEF TypeOK
  <2> QED
    BY <2>1, <2>2, <2>3, <1>0, <1>a, <1>b DEF TypeOK
<1>g. \A u \in Threads : u # t /\ InSlot(u) => Slot(ticket[u]) # s
  BY <1>0, OneCallPerSlot DEF InSlot
<1>h. \A n \in Nat : Slot(n) \in Slots /\ Rnd(n) \in Nat
  BY TicketFacts
<1>i. \A u \in Threads : ticket[u] \in Nat
  BY DEF TypeOK
<1>j. \A u \in Threads : (InSlot(u)' => InSlot(u) /\ u # t) /\ (Active(u)' <=> Active(u) /\ u # t)
  BY <1>d, <1>e DEF InSlot, Active
<1>1. TypeOK'
  <2>1. count' \in [Threads -> Nat] /\ pc' \in [Threads -> ConsumerLabels]
    BY <1>0 DEF TypeOK, ConsumerLabels, ProducerLabels
  <2>2. \A p \in Producers : pc'[p] \in ProducerLabels
    BY <1>0 DEF TypeOK, ProducerLabels, Threads
  <2>3. got' \in [Consumers -> Seq(Keys)]
    <3>1. CASE t \in Producers
      BY <3>1, <1>0 DEF TypeOK
    <3>2. CASE t \notin Producers
      <4>1. t \in Consumers
        BY <3>2 DEF Threads
      <4>2. ret_key[t] = enqueued[m + 1]
        BY <4>1, <1>0 DEF KeyInv
      <4>3. enqueued[m + 1] \in Keys
        BY <1>a, <1>c DEF TypeOK
      <4>4. Append(got[t], ret_key[t]) \in Seq(Keys)
        BY <4>1, <4>2, <4>3 DEF TypeOK
      <4> QED
        BY <3>2, <4>1, <4>4, <1>0 DEF TypeOK
    <3> QED
      BY <3>1, <3>2
  <2> QED
    BY <2>1, <2>2, <2>3, <1>0, <1>f DEF TypeOK
<1>2. TicketInv'
  <2>1. \A p \in Producers : Active(p)' => Active(p) /\ NextKey(p)' = NextKey(p) /\ count'[p] = count[p]
    BY <1>d, <1>j DEF Threads, NextKey
  <2>2. \A c \in Consumers : Active(c)' => Active(c)
    BY <1>j DEF Threads
  <2> QED
    BY <1>0, <2>1, <2>2 DEF TicketInv
<1>3. TurnInv'
  <2> SUFFICES ASSUME NEW u \in Threads, InSlot(u)'
               PROVE  /\ queue'[Slot(ticket[u])].flag = 2 * Rnd(ticket[u]) + Parity(u)
                      /\ At(u, "store")' => temp[u] = queue'[Slot(ticket[u])].flag
    BY <1>0 DEF TurnInv, InSlot, At
  <2>1. InSlot(u) /\ u # t /\ pc'[u] = pc[u]
    BY <1>d, <1>j
  <2>2. queue'[Slot(ticket[u])].flag = queue[Slot(ticket[u])].flag
    BY <2>1, <1>f, <1>g, <1>h, <1>i
  <2> QED
    BY <2>1, <2>2 DEF TurnInv, At
<1>4. UnissuedInv'
  <2> SUFFICES ASSUME NEW n \in Nat, n >= rear PROVE queue'[Slot(n)].flag <= 2 * Rnd(n)
    BY <1>0 DEF UnissuedInv
  <2>1. CASE Slot(n) = s
    <3>1. Rnd(m) < Rnd(n)
      BY <2>1, <1>a, <1>c, RoundsFollowTickets DEF TypeOK
    <3>2. queue'[Slot(n)].flag = 2 * Rnd(m) + Parity(t) + 1
      BY <2>1, <1>f
    <3> QED
      BY <3>1, <3>2, <1>a, <1>h DEF Parity
  <2>2. CASE Slot(n) # s
    BY <2>2, <1>f, <1>h DEF UnissuedInv
  <2> QED
    BY <2>1, <2>2
<1>5. FullInv'
  <2> SUFFICES ASSUME NEW n \in Nat, n < rear, queue'[Slot(n)].flag = 2 * Rnd(n) + 1
               PROVE  \/ queue'[Slot(n)].key = enqueued[n + 1]
                      \/ \E c \in Consumers : pc'[c] \in {"load", "store"} /\ ticket[c] = n
    BY <1>0 DEF FullInv
  <2>1. CASE Slot(n) = s
    <3>0. 2 * Rnd(m) + Parity(t) + 1 = 2 * Rnd(n) + 1
      BY <2>1, <1>f
    <3>1. Parity(t) = 0 /\ Rnd(m) = Rnd(n)
      BY <3>0, <1>a, <1>h DEF Parity
    <3>2. t \in Producers
      BY <3>1 DEF Parity
    <3>3. m = n
      BY <3>1, <2>1, <1>a, RoundsFollowTickets
    <3>4. queue[s].key = NextKey(t) /\ enqueued[m + 1] = NextKey(t)
      BY <3>2, <1>0, <1>e DEF KeyInv, TicketInv
    <3> QED
      BY <3>3, <3>4, <1>a, <1>f
  <2>2. CASE Slot(n) # s
    <3>1. queue[Slot(n)].flag = 2 * Rnd(n) + 1 /\ queue'[Slot(n)].key = queue[Slot(n)].key
      BY <2>2, <1>f, <1>h
    <3>2. \A c \in Consumers : ticket[c] = n => c # t
      BY <2>2
    <3> QED
      BY <3>1, <3>2, <1>d DEF FullInv, Threads
  <2> QED
    BY <2>1, <2>2
<1>6. KeyInv'
  <2>1. ASSUME NEW p \in Producers, pc'[p] \in {"load", "store"}
        PROVE  queue'[Slot(ticket'[p])].key = NextKey(p)'
    <3>1. p # t /\ p \in Threads /\ pc[p] \in {"load", "store"} /\ count'[p] = count[p]
      BY <2>1, <1>d, <1>e DEF InSlot, Threads
    <3> QED
      BY <3>1, <1>0, <1>f, <1>h, <1>i DEF KeyInv, NextKey
  <2>2. \A c \in Consumers : pc'[c] \in {"clear", "load", "store"} => pc[c] \in {"clear", "load", "store"}
    BY <1>d, <1>e DEF InSlot, Threads
  <2> QED
    BY <2>1, <2>2, <1>0 DEF KeyInv
<1>7. HeldInv'
  <2> SUFFICES ASSUME NEW n \in Nat, rear <= n, n < front
               PROVE  \E c \in Consumers : Active(c)' /\ ticket[c] = n
    BY <1>0 DEF HeldInv
  <2>1. PICK c \in Consumers : Active(c) /\ ticket[c] = n
    BY DEF HeldInv
  <2>2. c # t
    BY <2>1, <1>a, <1>c DEF TypeOK
  <2> QED
    BY <2>1, <2>2, <1>j DEF Threads
<1> QED
  BY <1>1, <1>2, <1>3, <1>4, <1>5, <1>6, <1>7

LEMMA MarkInv ==
    ASSUME RingInv, NEW c \in Consumers, Mark(c) PROVE RingInv'
<1> USE DEF RingInv
<1>0. /\ pc[c] = "mark"
      /\ pc' = [pc EXCEPT ![c] = "call"]
      /\ UNCHANGED <<queue, front, rear, ticket, temp, ret_key, count, enqueued, got>>
  BY DEF Mark, At, Goto
<1>a. c \in Threads /\ c \notin Producers
  BY ThreadsAssumption DEF Threads
<1>d. \A u \in Threads : (u # c => pc'[u] = pc[u]) /\ pc[c] = "mark" /\ pc'[c] = "call"
  BY <1>0, <1>a DEF TypeOK
<1>1. TypeOK'
  BY <1>0, <1>a DEF TypeOK, ProducerLabels, ConsumerLabels, Threads
<1>b. \A u \in Threads : (Active(u)' <=> Active(u)) /\ (InSlot(u)' <=> InSlot(u))
                         /\ (At(u, "store")' <=> At(u, "store"))
  BY <1>d DEF Active, InSlot, At
<1>2. TicketInv'
  BY <1>0, <1>b DEF TicketInv, NextKey, Threads
<1>3. TurnInv'
  BY <1>0, <1>b DEF TurnInv
<1>4. UnissuedInv'
  BY <1>0 DEF UnissuedInv
<1>5. FullInv'
  BY <1>0, <1>d DEF FullInv, Threads
<1>6. KeyInv'
  BY <1>0, <1>d DEF KeyInv, NextKey, Threads
<1>7. HeldInv'
  BY <1>0, <1>b DEF HeldInv, Threads
<1> QED
  BY <1>1, <1>2, <1>3, <1>4, <1>5, <1>6, <1>7

LEMMA NextInv == RingInv /\ [Next]_vars => RingInv'
<1> SUFFICES ASSUME RingInv, [Next]_vars PROVE RingInv'
  OBVIOUS
<1>1. CASE UNCHANGED vars
  BY <1>1 DEF vars, RingInv, TypeOK, TicketInv, TurnInv, UnissuedInv, FullInv, KeyInv,
              HeldInv, Active, InSlot, At, NextKey
<1>2. ASSUME NEW t \in Threads, Step(t) PROVE RingInv'
  BY <1>2, EnqueueTicketInv, StoreKeyInv, DequeueTicketInv, LoadKeyInv, ClearKeyInv,
     MarkInv, TestParityInv, TestRoundInv, LoadFlagInv, StoreFlagInv DEF Step
<1> QED
  BY <1>1, <1>2 DEF Next, Ended

\* concurrent_queue.cpp: whatever the calls interleave to, the tickets, flags
\* and keys of the ring stay consistent.
THEOREM RingInvariant == Spec => []RingInv
<1> QED
  BY InitInv, NextInv, PTL DEF Spec

\* A call that the spinning test has let into a slot is alone in it, so that
\* the plain flag++ of concurrent_queue.cpp loses no increment.
THEOREM SlotIsOwned == Spec => []SlotOwned
<1>1. RingInv => SlotOwned
  BY OneCallPerSlot DEF SlotOwned, idx, Slot
<1> QED
  BY <1>1, RingInvariant, PTL

-----------------------------------------------------------------------------
(* The queue is first in, first out *)

Waiting == SubSeq(enqueued, front + 1, rear)
Received == [c \in Consumers |->
               IF Pending(c) /\ ticket[c] < rear
               THEN Append(got[c], enqueued[ticket[c] + 1]) ELSE got[c]]

LEMMA PendingIsActive ==
    ASSUME RingInv, NEW c \in Consumers PROVE Pending(c) <=> Active(c)
BY DEF RingInv, TypeOK, ConsumerLabels, ProducerLabels, Pending, Active, Threads

\* A key is appended at the rear: SubSeq grows by it, or is empty.
LEMMA EnqueueWaiting ==
    ASSUME RingInv, NEW k \in Keys
    PROVE  /\ front <= rear =>
                SubSeq(Append(enqueued, k), front + 1, rear + 1) = Append(Waiting, k)
           /\ front > rear =>
                Waiting = << >> /\ SubSeq(Append(enqueued, k), front + 1, rear + 1) = << >>
<1>0. front \in Nat /\ rear \in Nat /\ enqueued \in Seq(Keys) /\ Len(enqueued) = rear
  BY DEF RingInv, TypeOK
<1> DEFINE e == Append(enqueued, k)
<1>1. /\ e \in Seq(Keys) /\ Len(e) = rear + 1 /\ e[rear + 1] = k
      /\ \A i \in 1..rear : e[i] = enqueued[i]
  BY <1>0
<1> HIDE DEF e
<1>2. CASE front <= rear
  <2> DEFINE a == SubSeq(e, front + 1, rear + 1)
             b == Append(Waiting, k)
  <2>1. /\ Waiting \in Seq(Keys) /\ Len(Waiting) = rear - front
        /\ \A i \in 1..(rear - front) : Waiting[i] = enqueued[front + i]
    BY <1>0, <1>2 DEF Waiting
  <2>2. /\ a \in Seq(Keys) /\ Len(a) = rear + 1 - front
        /\ \A i \in 1..(rear + 1 - front) : a[i] = e[front + i]
    BY <1>0, <1>1, <1>2
  <2>3. /\ b \in Seq(Keys) /\ Len(b) = rear + 1 - front /\ b[rear + 1 - front] = k
        /\ \A i \in 1..(rear - front) : b[i] = enqueued[front + i]
    BY <2>1, <1>0, <1>2
  <2> HIDE DEF a, b
  <2>4. \A i \in 1..(rear + 1 - front) : a[i] = b[i]
    <3> TAKE i \in 1..(rear + 1 - front)
    <3>1. CASE i = rear + 1 - front
      BY <3>1, <2>2, <2>3, <1>0, <1>1, <1>2
    <3>2. CASE i # rear + 1 - front
      <4>1. i \in 1..(rear - front) /\ front + i \in 1..rear
        BY <3>2, <1>0, <1>2
      <4> QED
        BY <4>1, <2>2, <2>3, <1>1
    <3> QED
      BY <3>1, <3>2
  <2>5. a = b
    BY <2>2, <2>3, <2>4, SeqEqual
  <2> QED
    BY <2>5, <1>0, <1>2 DEF a, b, e
<1>3. CASE front > rear
  BY <1>0, <1>1, <1>3, SubSeqEmpty DEF Waiting, e
<1> QED
  BY <1>0, <1>2, <1>3

LEMMA EnqueueTicketImplements ==
    ASSUME RingInv, NEW p \in Producers, EnqueueTicket(p)
    PROVE  \/ \E k \in Keys : Waiting' = Append(Waiting, k) /\ Received' = Received
           \/ \E c \in Consumers, k \in Keys :
                /\ Waiting = << >> /\ Waiting' = Waiting
                /\ Received' = [Received EXCEPT ![c] = Append(@, k)]
<1> DEFINE k == NextKey(p)
<1>0. /\ count[p] < Enqueues /\ ticket' = [ticket EXCEPT ![p] = rear]
      /\ rear' = rear + 1 /\ enqueued' = Append(enqueued, k)
      /\ pc' = [pc EXCEPT ![p] = "parity"] /\ UNCHANGED <<front, got>>
  BY DEF EnqueueTicket, At, Goto
<1>1. p \in Threads /\ p \notin Consumers
  BY ThreadsAssumption DEF Threads
<1>2. k \in Keys
  BY <1>0, <1>1, WorkAssumption DEF NextKey, Keys, RingInv, TypeOK
<1>3. front \in Nat /\ rear \in Nat /\ Len(enqueued) = rear /\ enqueued \in Seq(Keys)
  BY DEF RingInv, TypeOK
<1>4. enqueued'[rear + 1] = k /\ \A n \in Nat : n < rear => enqueued'[n + 1] = enqueued[n + 1]
  BY <1>0, <1>2, <1>3
<1>5. \A c \in Consumers : /\ Pending(c)' <=> Pending(c)
                           /\ ticket'[c] = ticket[c] /\ ticket[c] \in Nat
  BY <1>0, <1>1 DEF Pending, RingInv, TypeOK, Threads
<1>6. ASSUME NEW c \in Consumers, ~ (Pending(c) /\ ticket[c] = rear)
      PROVE  Received'[c] = Received[c]
  <2>1. Pending(c)' /\ ticket'[c] < rear' <=> Pending(c) /\ ticket[c] < rear
    BY <1>0, <1>3, <1>5, <1>6
  <2>2. ticket[c] < rear => enqueued'[ticket'[c] + 1] = enqueued[ticket[c] + 1]
    BY <1>4, <1>5
  <2>3. got' = got
    BY <1>0
  <2> QED
    BY <2>1, <2>2, <2>3 DEF Received
<1>7. \A c \in Consumers : Pending(c) => Active(c) /\ ticket[c] < front
  BY PendingIsActive DEF RingInv, TicketInv
<1>8. CASE front <= rear
  <2>1. Waiting' = Append(Waiting, k)
    BY <1>0, <1>2, <1>8, EnqueueWaiting DEF Waiting
  <2>2. Received' = Received
    <3>1. \A c \in Consumers : Received'[c] = Received[c]
      BY <1>3, <1>5, <1>6, <1>7, <1>8
    <3> QED
      BY <3>1 DEF Received
  <2> QED
    BY <1>2, <2>1, <2>2
<1>9. CASE front > rear
  <2>1. Waiting = << >> /\ Waiting' = Waiting
    BY <1>0, <1>2, <1>9, EnqueueWaiting DEF Waiting
  <2>2. PICK c \in Consumers : Active(c) /\ ticket[c] = rear
    BY <1>3, <1>9 DEF RingInv, HeldInv
  <2>3. Received'[c] = Append(Received[c], k)
    <3>1. Pending(c) /\ Pending(c)' /\ ticket'[c] = rear
      BY <2>2, <1>5, PendingIsActive
    <3> QED
      BY <3>1, <2>2, <1>0, <1>3, <1>4 DEF Received
  <2>4. \A d \in Consumers : d # c => Received'[d] = Received[d]
    BY <2>2, <1>6, <1>7 DEF RingInv, TicketInv
  <2>5. Received' = [Received EXCEPT ![c] = Append(@, k)]
    BY <2>3, <2>4 DEF Received
  <2> QED
    BY <1>2, <2>1, <2>5
<1> QED
  BY <1>3, <1>8, <1>9

LEMMA DequeueTicketImplements ==
    ASSUME RingInv, NEW c \in Consumers, DequeueTicket(c)
    PROVE  \/ UNCHANGED <<Waiting, Received>>
           \/ /\ Waiting # << >> /\ Waiting' = Tail(Waiting)
              /\ Received' = [Received EXCEPT ![c] = Append(@, Head(Waiting))]
<1>0. /\ pc[c] = "call" /\ ticket' = [ticket EXCEPT ![c] = front] /\ front' = front + 1
      /\ pc' = [pc EXCEPT ![c] = "parity"] /\ UNCHANGED <<rear, enqueued, got>>
  BY DEF DequeueTicket, At, Goto, history
<1>1. c \in Threads
  BY DEF Threads
<1>3. front \in Nat /\ rear \in Nat /\ Len(enqueued) = rear /\ enqueued \in Seq(Keys)
  BY DEF RingInv, TypeOK
<1>4. \A d \in Consumers : d # c => Received'[d] = Received[d]
  BY <1>0 DEF Received, Pending, RingInv, TypeOK, Threads
<1>5. /\ Received[c] = got[c]
      /\ Received'[c] = IF front < rear THEN Append(got[c], enqueued[front + 1]) ELSE got[c]
  <2>1. ~ Pending(c) /\ Pending(c)' /\ ticket'[c] = front
    BY <1>0, <1>1 DEF Pending, RingInv, TypeOK
  <2> QED
    BY <2>1, <1>0 DEF Received
<1>6. CASE front < rear
  <2>1. front + 1 \in 1..Len(enqueued) /\ rear \in (front + 1)..Len(enqueued)
    BY <1>3, <1>6
  <2>2. Head(Waiting) = enqueued[front + 1]
    BY <2>1, <1>3, HeadTailOfSubSeq DEF Waiting
  <2>3. Tail(Waiting) = SubSeq(enqueued, front + 1 + 1, rear)
    BY <2>1, <1>3, HeadTailOfSubSeq DEF Waiting
  <2>4. Waiting' = Tail(Waiting)
    BY <2>3, <1>0 DEF Waiting
  <2>5. Len(Waiting) = rear - front
    BY <1>3, <1>6 DEF Waiting
  <2>6. Waiting # << >>
    BY <2>5, <1>3, <1>6
  <2>7. Received' = [Received EXCEPT ![c] = Append(@, Head(Waiting))]
    BY <2>2, <1>4, <1>5, <1>6 DEF Received
  <2> QED
    BY <2>4, <2>6, <2>7
<1>7. CASE ~ (front < rear)
  <2>1. Waiting = << >> /\ Waiting' = << >>
    BY <1>0, <1>3, <1>7, SubSeqEmpty DEF Waiting
  <2>2. Received' = Received
    BY <1>4, <1>5, <1>7 DEF Received
  <2> QED
    BY <2>1, <2>2
<1> QED
  BY <1>6, <1>7

\* The steps between the tickets and the return do not show.
LEMMA OtherStepsStutter ==
    ASSUME RingInv, NEW t \in Threads,
           \/ t \in Producers /\ StoreKey(t)
           \/ t \in Consumers /\ (LoadKey(t) \/ ClearKey(t) \/ Mark(t))
           \/ TestParity(t) \/ TestRound(t) \/ LoadFlag(t) \/ StoreFlag(t)
    PROVE  UNCHANGED <<Waiting, Received>>
<1>1. UNCHANGED <<front, rear, ticket, enqueued>>
  BY DEF StoreKey, LoadKey, ClearKey, Mark, TestParity, TestRound, LoadFlag, StoreFlag, history
<1>2. Waiting' = Waiting
  BY <1>1 DEF Waiting
<1>3. CASE StoreFlag(t) /\ t \in Consumers
  <2>0. t \notin Producers
    BY <1>3, ThreadsAssumption
  <2>1. /\ pc[t] = "store" /\ pc' = [pc EXCEPT ![t] = "mark"]
        /\ got' = [got EXCEPT ![t] = Append(@, ret_key[t])]
    BY <1>3, <2>0 DEF StoreFlag, At, Goto
  <2>2. ticket[t] < rear
    BY <2>1, InSlotIssued DEF InSlot
  <2>3. ret_key[t] = enqueued[ticket[t] + 1]
    BY <1>3, <2>1 DEF RingInv, KeyInv
  <2>4. Received[t] = Append(got[t], ret_key[t]) /\ Received'[t] = got'[t]
    BY <1>3, <2>1, <2>2, <2>3 DEF Received, Pending, RingInv, TypeOK
  <2>5. got'[t] = Append(got[t], ret_key[t])
    BY <1>3, <2>1 DEF RingInv, TypeOK
  <2>6. \A d \in Consumers : d # t => Received'[d] = Received[d]
    BY <2>1, <1>1 DEF Received, Pending, RingInv, TypeOK, Threads
  <2>7. Received' = Received
    BY <2>4, <2>5, <2>6 DEF Received
  <2> QED
    BY <1>2, <2>7
<1>4. CASE ~ (StoreFlag(t) /\ t \in Consumers)
  <2>1. got' = got
    BY <1>4 DEF StoreKey, LoadKey, ClearKey, Mark, TestParity, TestRound, LoadFlag, StoreFlag,
                history, Threads
  <2>2. \A d \in Consumers : Pending(d)' <=> Pending(d)
    <3>1. \A u \in Threads : u # t => pc'[u] = pc[u]
      BY DEF StoreKey, LoadKey, ClearKey, Mark, TestParity, TestRound, LoadFlag, StoreFlag,
             Goto, RingInv, TypeOK
    <3>2. t \in Consumers => (Pending(t)' <=> Pending(t))
      BY <1>4, ThreadsAssumption
         DEF StoreKey, LoadKey, ClearKey, Mark, TestParity, TestRound, LoadFlag, StoreFlag,
             Goto, At, Pending, RingInv, TypeOK
    <3> QED
      BY <3>1, <3>2 DEF Pending, Threads
  <2>3. Received' = Received
    BY <1>1, <2>1, <2>2 DEF Received
  <2> QED
    BY <1>2, <2>3
<1> QED
  BY <1>3, <1>4

LEMMA NextImplements == RingInv /\ [Next]_vars => [Fifo!Next]_<<Waiting, Received>>
<1> SUFFICES ASSUME RingInv, [Next]_vars PROVE [Fifo!Next]_<<Waiting, Received>>
  OBVIOUS
<1>1. CASE UNCHANGED vars
  BY <1>1 DEF vars, Waiting, Received, Pending
<1>2. ASSUME NEW t \in Threads, Step(t) PROVE [Fifo!Next]_<<Waiting, Received>>
  <2>1. CASE t \in Producers /\ EnqueueTicket(t)
    BY <2>1, EnqueueTicketImplements
       DEF Fifo!Next, Fifo!Enqueue, Fifo!HandOver, Waiting, Received
  <2>2. CASE t \in Consumers /\ DequeueTicket(t)
    BY <2>2, DequeueTicketImplements DEF Fifo!Next, Fifo!Dequeue, Waiting, Received
  <2>3. CASE ~ (t \in Producers /\ EnqueueTicket(t)) /\ ~ (t \in Consumers /\ DequeueTicket(t))
    BY <1>2, <2>3, OtherStepsStutter DEF Step
  <2> QED
    BY <2>1, <2>2, <2>3
<1> QED
  BY <1>1, <1>2 DEF Next, Ended

\* The ring is a first-in first-out queue: the dequeue with ticket n returns
\* the key of the enqueue with ticket n.
THEOREM RingImplementsFifo == Spec => ImplementsFifo
<1>1. Init => Fifo!Init
  BY SubSeqEmpty DEF Init, Fifo!Init, Pending, Threads
<1>2. RingInv /\ [Next]_vars => [Fifo!Next]_<<Waiting, Received>>
  BY NextImplements
<1> QED
  BY <1>1, <1>2, RingInvariant, PTL DEF Spec, ImplementsFifo, Fifo!Spec, Waiting, Received
=============================================================================
