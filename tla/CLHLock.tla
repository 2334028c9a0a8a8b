------------------------------- MODULE CLHLock -------------------------------
(***************************************************************************)
(* The CLH queue lock of lab10 (prac_CLH_lock.cpp) and the threads that    *)
(* count under it.                                                         *)
(*                                                                         *)
(* A node is a bool on the heap.  lock swaps a new node into the tail and  *)
(* spins on the node it got; unlock frees that one and clears its own, for *)
(* the successor to free.  The heap gives a freed address out again.       *)
(***************************************************************************)
EXTENDS Integers, FiniteSets, Sequences

CONSTANTS Threads,
          Nodes,       \* the addresses of the heap
          Null,
          NUM_WORK

ASSUME ThreadsAssumption == IsFiniteSet(Threads)
ASSUME NullAssumption == Null \notin Nodes
ASSUME WorkAssumption == NUM_WORK \in Nat

VARIABLES
    tail,
    live,              \* the allocated nodes
    node,              \* what each node holds
    my_node, my_pred,
    pc,
    temp,              \* cnt_global between its load and its store
    i,                 \* the iterations a thread has made
    cnt_global,
    waiters            \* history: the threads in the order of their swaps

vars == <<tail, live, node, my_node, my_pred, pc, temp, i, cnt_global, waiters>>

\* main makes the first node, which is false.
Init ==
    /\ tail \in Nodes
    /\ live = {tail}
    /\ node = [n \in Nodes |-> FALSE]
    /\ my_node = [t \in Threads |-> Null]
    /\ my_pred = [t \in Threads |-> Null]
    /\ pc = [t \in Threads |-> "loop"]
    /\ temp = [t \in Threads |-> 0]
    /\ i = [t \in Threads |-> 0]
    /\ cnt_global = 0
    /\ waiters = << >>

-----------------------------------------------------------------------------
At(t, label) == pc[t] = label
Goto(t, label) == pc' = [pc EXCEPT ![t] = label]

\* calloc and the store of true: nobody else knows the node yet.
Alloc(t) ==
    /\ At(t, "loop")
    /\ i[t] < NUM_WORK
    /\ \E n \in Nodes \ live :
          /\ live' = live \cup {n}
          /\ my_node' = [my_node EXCEPT ![t] = n]
          /\ node' = [node EXCEPT ![n] = TRUE]
    /\ Goto(t, "swap")
    /\ UNCHANGED <<tail, my_pred, temp, i, cnt_global, waiters>>

\* __sync_lock_test_and_set(tail, my_node)
Swap(t) ==
    /\ At(t, "swap")
    /\ my_pred' = [my_pred EXCEPT ![t] = tail]
    /\ tail' = my_node[t]
    /\ waiters' = Append(waiters, t)
    /\ Goto(t, "spin")
    /\ UNCHANGED <<live, node, my_node, temp, i, cnt_global>>

\* Mutant: lock does not wait.
Spin_Blind(t) ==
    /\ At(t, "spin")
    /\ Goto(t, "load")
    /\ waiters' = Tail(waiters)
    /\ UNCHANGED <<tail, live, node, my_node, my_pred, temp, i, cnt_global>>

\* One look at the predecessor's node.
Spin(t) ==
    /\ At(t, "spin")
    /\ IF node[my_pred[t]] THEN UNCHANGED <<pc, waiters>>
       ELSE Goto(t, "load") /\ waiters' = Tail(waiters)
    /\ UNCHANGED <<tail, live, node, my_node, my_pred, temp, i, cnt_global>>

\* cnt_global++
LoadCount(t) ==
    /\ At(t, "load")
    /\ temp' = [temp EXCEPT ![t] = cnt_global]
    /\ Goto(t, "store")
    /\ UNCHANGED <<tail, live, node, my_node, my_pred, i, cnt_global, waiters>>

StoreCount(t) ==
    /\ At(t, "store")
    /\ cnt_global' = temp[t] + 1
    /\ temp' = [temp EXCEPT ![t] = 0]
    /\ Goto(t, "free")
    /\ UNCHANGED <<tail, live, node, my_node, my_pred, i, waiters>>

\* Mutant: unlock frees its own node, and clears it afterwards.
FreePred_Own(t) ==
    /\ At(t, "free")
    /\ live' = live \ {my_node[t]}
    /\ my_pred' = [my_pred EXCEPT ![t] = Null]
    /\ Goto(t, "release")
    /\ UNCHANGED <<tail, node, my_node, temp, i, cnt_global, waiters>>

\* Mutant: the predecessor is not freed.
FreePred_Leaks(t) ==
    /\ At(t, "free")
    /\ my_pred' = [my_pred EXCEPT ![t] = Null]
    /\ Goto(t, "release")
    /\ UNCHANGED <<tail, live, node, my_node, temp, i, cnt_global, waiters>>

\* unlock: the predecessor's node is freed, then the own one is cleared.
FreePred(t) ==
    /\ At(t, "free")
    /\ live' = live \ {my_pred[t]}
    /\ my_pred' = [my_pred EXCEPT ![t] = Null]
    /\ Goto(t, "release")
    /\ UNCHANGED <<tail, node, my_node, temp, i, cnt_global, waiters>>

\* Mutant: the store that hands the lock over is missing.
Release_Forgets(t) ==
    /\ At(t, "release")
    /\ i' = [i EXCEPT ![t] = @ + 1]
    /\ Goto(t, "loop")
    /\ UNCHANGED <<tail, live, node, my_node, my_pred, temp, cnt_global, waiters>>

Release(t) ==
    /\ At(t, "release")
    /\ node' = [node EXCEPT ![my_node[t]] = FALSE]
    /\ i' = [i EXCEPT ![t] = @ + 1]
    /\ Goto(t, "loop")
    /\ UNCHANGED <<tail, live, my_node, my_pred, temp, cnt_global, waiters>>

AllDone == \A t \in Threads : At(t, "loop") /\ i[t] = NUM_WORK

\* main has joined the threads, and frees the last node.
FreeTail ==
    /\ AllDone
    /\ live' = live \ {tail}
    /\ UNCHANGED <<tail, node, my_node, my_pred, pc, temp, i, cnt_global, waiters>>

Step(t) ==
    \/ Alloc(t) \/ Swap(t) \/ Spin(t) \/ LoadCount(t) \/ StoreCount(t)
    \/ FreePred(t) \/ Release(t)

Next == (\E t \in Threads : Step(t)) \/ FreeTail

Spec == Init /\ [][Next]_vars

\* Every thread keeps running.
FairSpec == Spec /\ (\A t \in Threads : WF_vars(Step(t))) /\ WF_vars(FreeTail)

-----------------------------------------------------------------------------
(* Properties *)

Labels == {"loop", "swap", "spin", "load", "store", "free", "release"}

\* Every variable has its type.
TypeOK ==
    /\ tail \in Nodes /\ live \subseteq Nodes
    /\ node \in [Nodes -> BOOLEAN]
    /\ my_node \in [Threads -> Nodes \cup {Null}]
    /\ my_pred \in [Threads -> Nodes \cup {Null}]
    /\ pc \in [Threads -> Labels]
    /\ temp \in [Threads -> Nat] /\ i \in [Threads -> Nat]
    /\ cnt_global \in Nat
    /\ waiters \in Seq(Threads)

Locked(t) == pc[t] \in {"load", "store", "free", "release"}

\* A node that a thread may still read, write or free is allocated: unlock
\* frees the predecessor's node only when it is neither the tail nor one
\* that somebody spins on, although its address may have been given out
\* again since its owner cleared it.
NoUseAfterFree ==
    \A t \in Threads :
        /\ pc[t] \in {"swap", "spin", "load", "store", "free", "release"} =>
              my_node[t] \in live
        /\ pc[t] \in {"spin", "load", "store", "free"} => my_pred[t] \in live

\* The lock keeps its promise: no two threads hold it, and no increment of
\* the plain counter is lost.
Phase(t) == CASE pc[t] \in {"load", "store"} -> "in"
              [] pc[t] \in {"free", "release"} -> "added"
              [] OTHER -> "out"

Counter == INSTANCE LockedCounter WITH phase <- [t \in Threads |-> Phase(t)]

ImplementsLock == Counter!Spec

\* The nodes in use are never more than one for each thread and one for the
\* tail, and after main has freed the tail there are none.
NothingLeaks ==
    /\ Cardinality(live) <= Cardinality(Threads) + 1
    /\ tail \notin live => live = {}

\* The threads get the lock in the order in which they swapped.
FirstComeFirstServed ==
    [][\A t \in Threads : pc[t] = "spin" /\ pc'[t] = "load" => t = Head(waiters)]_vars

\* No thread starves: all finish, main frees the last node, and the total is
\* right.
Terminates ==
    <>(live = {} /\ cnt_global = Cardinality(Threads) * NUM_WORK)
-----------------------------------------------------------------------------
(* The inductive invariant *)

Owner(t) == pc[t] \in Labels \ {"loop"}
Waits(t) == pc[t] \in {"spin", "load", "store", "free"}
Queued(t) == Waits(t) \/ At(t, "release")

\* The nodes somebody waits on, or will.
Chain == {tail} \cup {my_pred[t] : t \in {u \in Threads : Waits(u)}}

\* The node of a thread is its own, and true.
OwnInv ==
    \A t \in Threads : Owner(t) =>
        /\ my_node[t] \in live /\ node[my_node[t]]
        /\ \A u \in Threads : Owner(u) /\ my_node[u] = my_node[t] => u = t
        /\ At(t, "swap") => my_node[t] \notin Chain
        /\ Queued(t) => my_node[t] \in Chain

\* Nobody shares a predecessor, which is not the tail.
PredInv ==
    \A t \in Threads : Waits(t) =>
        /\ my_pred[t] \in live /\ my_pred[t] # tail
        /\ \A u \in Threads : Waits(u) /\ my_pred[u] = my_pred[t] => u = t
        /\ ~At(t, "spin") => ~node[my_pred[t]]

\* At most one node of the chain is false, and none while the lock is being
\* given back: the false node is the permission to enter.
TokenInv ==
    /\ \A m, n \in Chain : ~node[m] /\ ~node[n] => m = n
    /\ \A t \in Threads : At(t, "release") =>
          /\ \A n \in Chain : node[n]
          /\ \A u \in Threads : At(u, "release") => u = t

\* The allocated nodes: the tail, and one for each thread.
LiveInv ==
    /\ live \subseteq Chain \cup {my_node[t] : t \in {u \in Threads : At(u, "swap")}}
    /\ ~AllDone => tail \in live

\* waiters lists the spinning threads; each spins on the node of the one
\* ahead, and the last one's node is the tail.
QueueInv ==
    /\ \A k \in DOMAIN waiters : At(waiters[k], "spin")
    /\ \A t \in Threads : At(t, "spin") => \E k \in DOMAIN waiters : waiters[k] = t
    /\ \A k, l \in DOMAIN waiters : waiters[k] = waiters[l] => k = l
    /\ \A k \in DOMAIN waiters : k > 1 => my_pred[waiters[k]] = my_node[waiters[k - 1]]
    /\ waiters # << >> => my_node[waiters[Len(waiters)]] = tail

CountInv == \A t \in Threads : At(t, "store") => temp[t] = cnt_global

\* The node behind every thread, the tail and the one false node among them
\* form the queue of the lock; every property of safety follows from this.
ChainInv ==
    TypeOK /\ OwnInv /\ PredInv /\ TokenInv /\ LiveInv /\ QueueInv /\ CountInv
=============================================================================
