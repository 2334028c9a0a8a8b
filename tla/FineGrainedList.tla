--------------------------- MODULE FineGrainedList ---------------------------
(***************************************************************************)
(* The sorted list of lab11 with a mutex in every node                     *)
(* (fine_grained.cpp).  An operation walks the list hand over hand: it     *)
(* holds the mutex of a node until it has the mutex of the next one.       *)
(*                                                                         *)
(* Acquiring a mutex, giving one up, each store of a link and each free is *)
(* a step; loads of a node whose mutex is held are part of the step before.*)
(* The heap gives the address of a freed node out again.                   *)
(***************************************************************************)
EXTENDS Integers, FiniteSets

CONSTANTS Threads,
          Keys,           \* the keys of the workload, integers
          Nodes,          \* the addresses of the heap
          head, tail,     \* the two nodes of list_init
          INT_MIN, INT_MAX,
          None,
          num_work        \* operations of a thread

ASSUME KeysAssumption ==
    /\ INT_MIN \in Int /\ INT_MAX \in Int /\ INT_MIN < INT_MAX
    /\ \A k \in Keys : k \in Int /\ INT_MIN < k /\ k < INT_MAX
ASSUME NodesAssumption == head \notin Nodes /\ tail \notin Nodes /\ head # tail
ASSUME NoneAssumption == None \notin Threads \cup Nodes \cup {head, tail}
ASSUME WorkAssumption == num_work \in Nat

VARIABLES
    live,                 \* the allocated nodes
    key, next, mutex,     \* the fields of the nodes
    pc,
    op,                   \* the operation of a thread: [type, key, result]
    node, prev, curr,     \* its pointers
    i,                    \* the operations it has finished
    set                   \* history: the keys of the set

heapVars == <<live, key, next>>
locals == <<node, prev, curr>>
vars == <<heapVars, mutex, pc, op, locals, i, set>>

All == Nodes \cup {head, tail}
Idle == [type |-> "none"]
Truth(b) == IF b THEN "true" ELSE "false"
Pending == "pending"
Types == {"A", "R", "C"}

\* list_init; the mutexes of its two nodes are taken to be initialised.
Init ==
    /\ live = {head, tail}
    /\ key = [n \in All |-> IF n = head THEN INT_MIN ELSE INT_MAX]
    /\ next = [n \in All |-> IF n = head THEN tail ELSE None]
    /\ mutex = [n \in All |-> None]
    /\ pc = [t \in Threads |-> "call"]
    /\ op = [t \in Threads |-> Idle]
    /\ node = [t \in Threads |-> None]
    /\ prev = [t \in Threads |-> None]
    /\ curr = [t \in Threads |-> None]
    /\ i = [t \in Threads |-> 0]
    /\ set = {}

-----------------------------------------------------------------------------
At(t, label) == pc[t] = label
Goto(t, label) == pc' = [pc EXCEPT ![t] = label]
Answer(t, result) == op' = [op EXCEPT ![t].result = Truth(result)]

\* ThreadFunc calls list_add, list_remove or list_contains; list_add begins
\* with a new node, whose next is not set.
Call(t, type, k) ==
    /\ At(t, "call")
    /\ i[t] < num_work
    /\ op' = [op EXCEPT ![t] = [type |-> type, key |-> k, result |-> Pending]]
    /\ IF type = "A"
       THEN \E n \in Nodes \ live :
              /\ live' = live \cup {n}
              /\ key' = [key EXCEPT ![n] = k]
              /\ next' = [next EXCEPT ![n] = None]
              /\ node' = [node EXCEPT ![t] = n]
       ELSE UNCHANGED <<heapVars, node>>
    /\ Goto(t, "head")
    /\ UNCHANGED <<mutex, prev, curr, i, set>>

LockHead(t) ==
    /\ At(t, "head")
    /\ mutex[head] = None
    /\ mutex' = [mutex EXCEPT ![head] = t]
    /\ prev' = [prev EXCEPT ![t] = head]
    /\ curr' = [curr EXCEPT ![t] = next[head]]
    /\ Goto(t, "lock")
    /\ UNCHANGED <<heapVars, op, node, i, set>>

LockCurr(t) ==
    /\ At(t, "lock")
    /\ mutex[curr[t]] = None
    /\ mutex' = [mutex EXCEPT ![curr[t]] = t]
    /\ Goto(t, "test")
    /\ UNCHANGED <<heapVars, op, locals, i, set>>

\* Mutant: the walk goes past the key.
Before_OrAt(t) == key[curr[t]] <= op[t].key

Before(t) == key[curr[t]] < op[t].key

Found(t) == key[curr[t]] = op[t].key

\* Mutant: curr is given up too, before the mutex of its successor is taken.
Advance_LetsGo(t) ==
    /\ At(t, "test")
    /\ Before(t)
    /\ mutex' = [mutex EXCEPT ![prev[t]] = None, ![curr[t]] = None]
    /\ prev' = [prev EXCEPT ![t] = curr[t]]
    /\ curr' = [curr EXCEPT ![t] = next[curr[t]]]
    /\ Goto(t, "lock")
    /\ UNCHANGED <<heapVars, op, node, i, set>>

\* The body of the loop up to the lock.
Advance(t) ==
    /\ At(t, "test")
    /\ Before(t)
    /\ mutex' = [mutex EXCEPT ![prev[t]] = None]
    /\ prev' = [prev EXCEPT ![t] = curr[t]]
    /\ curr' = [curr EXCEPT ![t] = next[curr[t]]]
    /\ Goto(t, "lock")
    /\ UNCHANGED <<heapVars, op, node, i, set>>

\* The result is known without a change of the list.
Decide(t) ==
    /\ At(t, "test")
    /\ ~Before(t)
    /\ \/ op[t].type = "A" /\ Found(t) /\ Answer(t, FALSE)
       \/ op[t].type = "R" /\ ~Found(t) /\ Answer(t, FALSE)
       \/ op[t].type = "C" /\ Answer(t, Found(t))
    /\ Goto(t, "unlock")
    /\ UNCHANGED <<heapVars, mutex, locals, i, set>>

\* The two stores of list_add.
LinkPrev(t) ==
    /\ At(t, "test")
    /\ ~Before(t) /\ op[t].type = "A" /\ ~Found(t)
    /\ next' = [next EXCEPT ![prev[t]] = node[t]]
    /\ set' = set \cup {op[t].key}
    /\ Answer(t, TRUE)
    /\ Goto(t, "link")
    /\ UNCHANGED <<live, key, mutex, locals, i>>

LinkNode(t) ==
    /\ At(t, "link")
    /\ next' = [next EXCEPT ![node[t]] = curr[t]]
    /\ Goto(t, "unlock")
    /\ UNCHANGED <<live, key, mutex, op, locals, i, set>>

Unlink(t) ==
    /\ At(t, "test")
    /\ ~Before(t) /\ op[t].type = "R" /\ Found(t)
    /\ next' = [next EXCEPT ![prev[t]] = next[curr[t]]]
    /\ set' = set \ {op[t].key}
    /\ Answer(t, TRUE)
    /\ Goto(t, "unlock")
    /\ UNCHANGED <<live, key, mutex, locals, i>>

UnlockPrev(t) ==
    /\ At(t, "unlock")
    /\ mutex' = [mutex EXCEPT ![prev[t]] = None]
    /\ prev' = [prev EXCEPT ![t] = None]
    /\ Goto(t, "unlock2")
    /\ UNCHANGED <<heapVars, op, node, curr, i, set>>

UnlockCurr(t) ==
    /\ At(t, "unlock2")
    /\ mutex' = [mutex EXCEPT ![curr[t]] = None]
    /\ Goto(t, "free")
    /\ UNCHANGED <<heapVars, op, locals, i, set>>

\* Mutant: list_add keeps the node it did not need.
Garbage_Leaks(t) ==
    IF op[t].type = "R" /\ op[t].result = "true" THEN {curr[t]} ELSE {}

\* list_add frees the node it did not need, list_remove the one it unlinked.
Garbage(t) ==
    CASE op[t].type = "A" /\ op[t].result = "false" -> {node[t]}
      [] op[t].type = "R" /\ op[t].result = "true" -> {curr[t]}
      [] OTHER -> {}

Return(t) ==
    /\ At(t, "free")
    /\ live' = live \ Garbage(t)
    /\ node' = [node EXCEPT ![t] = None]
    /\ curr' = [curr EXCEPT ![t] = None]
    /\ op' = [op EXCEPT ![t] = Idle]
    /\ i' = [i EXCEPT ![t] = @ + 1]
    /\ Goto(t, "call")
    /\ UNCHANGED <<key, next, mutex, prev, set>>

Step(t) ==
    \/ \E type \in Types, k \in Keys : Call(t, type, k)
    \/ LockHead(t) \/ LockCurr(t) \/ Advance(t)
    \/ Decide(t) \/ LinkPrev(t) \/ LinkNode(t) \/ Unlink(t)
    \/ UnlockPrev(t) \/ UnlockCurr(t) \/ Return(t)

AllDone == \A t \in Threads : At(t, "call") /\ i[t] = num_work

Ended == AllDone /\ UNCHANGED vars

Next == (\E t \in Threads : Step(t)) \/ Ended

Spec == Init /\ [][Next]_vars

-----------------------------------------------------------------------------
(* Properties *)

Reading(t) == pc[t] \in {"lock", "test", "link", "unlock", "unlock2"}

\* Nobody holds a pointer to a freed node, not even while it waits for the
\* mutex: list_remove may free its node after it has given up both mutexes.
NoUseAfterFree ==
    \A t \in Threads : Reading(t) => {prev[t], curr[t]} \subseteq live \cup {None}

\* Each operation takes effect at one instant, and its result is that of the
\* set at that instant.
Abstract == INSTANCE ConcurrentSet WITH call <- op

ImplementsSet == Abstract!Spec

\* With nobody in the list, it holds the keys of the set in order, each once,
\* in nodes that are allocated; and nothing else is.
Quiet == \A t \in Threads : pc[t] = "call"

InList == live \ {head, tail}

ListIsSet ==
    Quiet =>
        /\ {key[n] : n \in InList} = set
        /\ Cardinality(InList) = Cardinality(set)
        /\ \A n \in InList \cup {head} :
              /\ next[n] \in InList \cup {tail}
              /\ key[n] < key[next[n]]
              /\ \A m \in InList : key[m] <= key[n] \/ key[next[n]] <= key[m]
=============================================================================
