--------------------------- MODULE OptimisticList ----------------------------
(***************************************************************************)
(* The sorted list of lab11 that is walked without locks (optimistic.cpp). *)
(* An operation locks the two nodes it stopped at, and walks again from    *)
(* the head to see whether they are still in the list and still next to    *)
(* each other; if not, it starts over.                                     *)
(*                                                                         *)
(* A load of a link, a store of a link and every change of a mutex is a    *)
(* step.  Nodes are never freed, so the node of the n-th call of thread t  *)
(* is <<t, n>>.  list_add has no way out of its loop after it has linked   *)
(* its node: it goes round again.                                          *)
(***************************************************************************)
EXTENDS Integers

CONSTANTS Threads,
          Keys,           \* the keys of the workload, integers
          INT_MIN, INT_MAX,
          None,
          num_work        \* operations of a thread

VARIABLES
    key, next, mutex,     \* the fields of the nodes
    pc,
    op,                   \* the operation of a thread: [type, key]
    prev, curr,
    it,                   \* the pointer of list_validate
    result,               \* what the operation of a thread returns
    i,                    \* the operations a thread has finished
    set                   \* history: the keys linked and not unlinked since

lists == <<key, next, mutex>>
vars == <<lists, pc, op, prev, curr, it, result, i, set>>

Node(t) == <<t, i[t]>>
Added == Threads \X (0..(num_work - 1))
Head == <<"head", 0>>
Tail == <<"tail", 0>>
All == Added \cup {Head, Tail}

\* What the constants stand for: threads and nodes are told apart, and the
\* keys of the workload lie between those of head and tail.
ConstantsOK ==
    /\ INT_MIN \in Int /\ INT_MAX \in Int /\ INT_MIN < INT_MAX
    /\ \A k \in Keys : k \in Int /\ INT_MIN < k /\ k < INT_MAX
    /\ num_work \in Nat
    /\ "head" \notin Threads /\ "tail" \notin Threads
    /\ None \notin Threads \cup All

Types == {"A", "R", "C"}
Idle == [type |-> "none", key |-> INT_MIN]

Init ==
    /\ key = [n \in All |-> IF n = Head THEN INT_MIN ELSE INT_MAX]
    /\ next = [n \in All |-> IF n = Head THEN Tail ELSE None]
    /\ mutex = [n \in All |-> None]
    /\ pc = [t \in Threads |-> "call"]
    /\ op = [t \in Threads |-> Idle]
    /\ prev = [t \in Threads |-> Head]
    /\ curr = [t \in Threads |-> Head]
    /\ it = [t \in Threads |-> Head]
    /\ result = [t \in Threads |-> FALSE]
    /\ i = [t \in Threads |-> 0]
    /\ set = {}

-----------------------------------------------------------------------------
At(t, label) == pc[t] = label
Goto(t, label) == pc' = [pc EXCEPT ![t] = label]
calls == <<op, result, i, set>>

Call(t, type, k) ==
    /\ At(t, "call")
    /\ i[t] < num_work
    /\ op' = [op EXCEPT ![t] = [type |-> type, key |-> k]]
    /\ key' = IF type = "A" THEN [key EXCEPT ![Node(t)] = k] ELSE key
    /\ Goto(t, "start")
    /\ UNCHANGED <<next, mutex, prev, curr, it, result, i, set>>

Start(t) ==
    /\ At(t, "start")
    /\ prev' = [prev EXCEPT ![t] = Head]
    /\ curr' = [curr EXCEPT ![t] = next[Head]]
    /\ Goto(t, "walk")
    /\ UNCHANGED <<lists, it, calls>>

Walk(t) ==
    /\ At(t, "walk")
    /\ key[curr[t]] < op[t].key
    /\ prev' = [prev EXCEPT ![t] = curr[t]]
    /\ curr' = [curr EXCEPT ![t] = next[curr[t]]]
    /\ UNCHANGED <<lists, pc, it, calls>>

LockPrev(t) ==
    /\ At(t, "walk")
    /\ key[curr[t]] >= op[t].key
    /\ mutex[prev[t]] = None
    /\ mutex' = [mutex EXCEPT ![prev[t]] = t]
    /\ Goto(t, "lock")
    /\ UNCHANGED <<key, next, prev, curr, it, calls>>

LockCurr(t) ==
    /\ At(t, "lock")
    /\ mutex[curr[t]] = None
    /\ mutex' = [mutex EXCEPT ![curr[t]] = t]
    /\ it' = [it EXCEPT ![t] = Head]
    /\ Goto(t, "validate")
    /\ UNCHANGED <<key, next, prev, curr, calls>>

\* One round of the loop of list_validate.
ValidateNext(t) ==
    /\ At(t, "validate")
    /\ it[t] # prev[t] /\ key[it[t]] <= key[prev[t]]
    /\ it' = [it EXCEPT ![t] = next[it[t]]]
    /\ UNCHANGED <<lists, pc, prev, curr, calls>>

\* Mutant: it is enough that the two are still next to each other.
Valid_LinkOnly(t) == next[prev[t]] = curr[t]

Valid(t) == it[t] = prev[t] /\ next[it[t]] = curr[t]

Validated(t) ==
    /\ At(t, "validate")
    /\ it[t] = prev[t] \/ key[it[t]] > key[prev[t]]
    /\ Goto(t, IF Valid(t) THEN "decide" ELSE "retry")
    /\ it' = [it EXCEPT ![t] = Head]
    /\ UNCHANGED <<lists, prev, curr, calls>>

Found(t) == key[curr[t]] = op[t].key

\* The operation is over, but for its two unlocks.
Answer(t, b) ==
    /\ result' = [result EXCEPT ![t] = b]
    /\ Goto(t, "unlock")

Decide(t) ==
    /\ At(t, "decide")
    /\ \/ op[t].type = "A" /\ Found(t) /\ Answer(t, FALSE)
       \/ op[t].type = "R" /\ ~Found(t) /\ Answer(t, FALSE)
       \/ op[t].type = "C" /\ Answer(t, Found(t))
    /\ UNCHANGED <<lists, prev, curr, it, op, i, set>>

\* Mutant: the key is added whether it is in the list or not.
LinkNode_Duplicate(t) ==
    /\ At(t, "decide")
    /\ op[t].type = "A"
    /\ next' = [next EXCEPT ![Node(t)] = curr[t]]
    /\ Goto(t, "link")
    /\ UNCHANGED <<key, mutex, prev, curr, it, calls>>

\* node->next = curr, which nobody but a thread on the unlinked node can see,
\* and prev->next = node.
LinkNode(t) ==
    /\ At(t, "decide")
    /\ op[t].type = "A" /\ ~Found(t)
    /\ next' = [next EXCEPT ![Node(t)] = curr[t]]
    /\ Goto(t, "link")
    /\ UNCHANGED <<key, mutex, prev, curr, it, calls>>

LinkPrev(t) ==
    /\ At(t, "link")
    /\ next' = [next EXCEPT ![prev[t]] = Node(t)]
    /\ set' = set \cup {op[t].key}
    /\ Goto(t, "retry")
    /\ UNCHANGED <<key, mutex, prev, curr, it, op, result, i>>

Unlink(t) ==
    /\ At(t, "decide")
    /\ op[t].type = "R" /\ Found(t)
    /\ next' = [next EXCEPT ![prev[t]] = next[curr[t]]]
    /\ set' = set \ {op[t].key}
    /\ Answer(t, TRUE)
    /\ UNCHANGED <<key, mutex, prev, curr, it, op, i>>

\* The two unlocks, after which list_add and a failed validation start over.
UnlockPrev(t) ==
    /\ pc[t] \in {"unlock", "retry"}
    /\ mutex' = [mutex EXCEPT ![prev[t]] = None]
    /\ Goto(t, IF At(t, "retry") THEN "retry2" ELSE "unlock2")
    /\ UNCHANGED <<key, next, prev, curr, it, calls>>

UnlockCurr(t) ==
    /\ pc[t] \in {"unlock2", "retry2"}
    /\ mutex' = [mutex EXCEPT ![curr[t]] = None]
    /\ Goto(t, IF At(t, "retry2") THEN "start" ELSE "return")
    /\ UNCHANGED <<key, next, prev, curr, it, calls>>

Return(t) ==
    /\ At(t, "return")
    /\ op' = [op EXCEPT ![t] = Idle]
    /\ prev' = [prev EXCEPT ![t] = Head]
    /\ curr' = [curr EXCEPT ![t] = Head]
    /\ i' = [i EXCEPT ![t] = @ + 1]
    /\ result' = [result EXCEPT ![t] = FALSE]
    /\ Goto(t, "call")
    /\ UNCHANGED <<lists, it, set>>

Step(t) ==
    \/ \E type \in Types, k \in Keys : Call(t, type, k)
    \/ Start(t) \/ Walk(t) \/ LockPrev(t) \/ LockCurr(t)
    \/ ValidateNext(t) \/ Validated(t)
    \/ Decide(t) \/ LinkNode(t) \/ LinkPrev(t) \/ Unlink(t)
    \/ UnlockPrev(t) \/ UnlockCurr(t) \/ Return(t)

AllDone == \A t \in Threads : At(t, "call") /\ i[t] = num_work

Ended == AllDone /\ UNCHANGED vars

Next == (\E t \in Threads : Step(t)) \/ Ended

Spec == Init /\ [][Next]_vars

-----------------------------------------------------------------------------
(* Properties *)

\* A set of nodes that no link but that of tail leaves.
Closed(S) == \A n \in S \ {Tail} : next[n] \in S

\* The nodes that a walk from head gets to.
Reached ==
    LET Walks == {S \in SUBSET All : Head \in S /\ Closed(S)}
    IN  {n \in All : \A S \in Walks : n \in S}

InList == Reached \ {Head, Tail}

\* The list is strictly sorted, ends in tail and holds the keys that were
\* linked and not unlinked since, whatever the threads are in the middle of:
\* no change is lost on a node that another thread has taken out.  set follows
\* every link, so this does not say that a call links its key only once.
OptListIsSet ==
    /\ {key[n] : n \in InList} = set
    /\ Tail \in Reached
    /\ \A n \in Reached \ {Tail} : key[n] < key[next[n]]

\* What list_validate finds stays true while the two mutexes are held: prev
\* and curr are in the list and next to each other until the operation acts,
\* so that the answer it takes from the key of curr is that of the set.
OptValidatedIsCurrent ==
    \A t \in Threads : pc[t] \in {"decide", "link"} =>
        /\ prev[t] \in InList \cup {Head} /\ next[prev[t]] = curr[t]
        /\ Found(t) <=> op[t].key \in set
=============================================================================
