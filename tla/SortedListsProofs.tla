-------------------------- MODULE SortedListsProofs --------------------------
(***************************************************************************)
(* Proofs about the two sorted lists of lab11.                             *)
(*                                                                         *)
(* FineGrainedList, for any threads, keys, heap and number of operations:  *)
(* no thread follows a pointer to a freed node, the list is the set, and   *)
(* the operations are linearizable.  The theorems of OptimisticListProofs  *)
(* are carried over to the program that MCSortedLists checks.              *)
(***************************************************************************)
EXTENDS MCSortedLists, FiniteSetTheorems, TLAPS

-----------------------------------------------------------------------------
(* The inductive invariant *)

Labels == {"call", "head", "lock", "test", "link", "unlock", "unlock2", "free"}

OpType == {Idle} \cup [type : Types, key : Keys, result : {Pending, "true", "false"}]

TypeOK ==
    /\ live \in SUBSET All /\ IsFiniteSet(live) /\ head \in live /\ tail \in live
    /\ key \in [All -> Int]
    /\ next \in [All -> All \cup {None}]
    /\ mutex \in [All -> Threads \cup {None}]
    /\ pc \in [Threads -> Labels]
    /\ op \in [Threads -> OpType]
    /\ node \in [Threads -> Nodes \cup {None}]
    /\ prev \in [Threads -> All \cup {None}]
    /\ curr \in [Threads -> All \cup {None}]
    /\ set \in SUBSET Keys

\* The node that only t can free: the one that list_add has not linked, or
\* the one that list_remove has unlinked.
Adds(t) == op[t].type = "A" /\ op[t].result # "true"
Removes(t) == op[t].type = "R" /\ op[t].result = "true"
Owned(t) == IF Adds(t) THEN {node[t]} ELSE IF Removes(t) THEN {curr[t]} ELSE {}

\* The nodes of the list.
List == {n \in live : \A t \in Threads : n \notin Owned(t)}

\* n is the node after m, by their keys.
Adjacent(m, n) ==
    /\ m \in List /\ n \in List /\ key[m] < key[n]
    /\ \A l \in List : key[l] <= key[m] \/ key[n] <= key[l]

\* list_add has linked node n, but not yet set its next.
Linking(n) == \E t \in Threads : pc[t] = "link" /\ node[t] = n

\* Where an operation is says what is known of its call.
OpOK(t) ==
    /\ pc[t] = "call" => op[t] = Idle
    /\ pc[t] # "call" => op[t] # Idle
    /\ pc[t] \in {"head", "lock", "test"} => op[t].result = Pending
    /\ pc[t] \in {"link", "unlock", "unlock2", "free"} => op[t].result # Pending
    /\ pc[t] = "link" => op[t].type = "A" /\ op[t].result = "true"
    /\ pc[t] # "call" /\ Adds(t) => key[node[t]] = op[t].key

OwnedOK ==
    /\ \A t \in Threads : Owned(t) \subseteq live \cap Nodes
    /\ \A t, u \in Threads : t # u => Owned(t) \cap Owned(u) = {}

\* The pointers of an operation are into the list, next to each other.
PointersOK(t) ==
    /\ pc[t] \in {"lock", "test"} => Adjacent(prev[t], curr[t]) /\ key[prev[t]] < op[t].key
    /\ pc[t] = "link" => Adjacent(prev[t], node[t]) /\ Adjacent(node[t], curr[t])
    /\ pc[t] = "unlock" => prev[t] \in List /\ prev[t] # curr[t]
    /\ pc[t] \in {"unlock", "unlock2"} => curr[t] \in List \cup Owned(t)
    /\ pc[t] = "unlock2" => prev[t] = None

HoldsPrev(t) == pc[t] \in {"lock", "test", "link", "unlock"}
HoldsCurr(t) == pc[t] \in {"test", "link", "unlock", "unlock2"}

MutexOK(t) ==
    /\ HoldsPrev(t) => mutex[prev[t]] = t
    /\ HoldsCurr(t) => mutex[curr[t]] = t
    /\ pc[t] = "link" => mutex[node[t]] = None
    /\ pc[t] = "free" /\ Removes(t) => mutex[curr[t]] = None

\* A node that is neither in the list nor just unlinked is unlocked.
LockedNodes ==
    \A n \in All : mutex[n] # None =>
       n \in List \/ \E t \in Threads : Removes(t) /\ n = curr[t]

\* The list is sorted, its keys are those of the set, and its links are the
\* order of the keys.
ListOK ==
    /\ key[head] = INT_MIN /\ key[tail] = INT_MAX
    /\ {key[n] : n \in List \ {head, tail}} = set
    /\ \A m, n \in List : key[m] = key[n] => m = n
    /\ \A n \in List \ {tail} : ~ Linking(n) => Adjacent(n, next[n])

ListInv ==
    /\ TypeOK /\ OwnedOK /\ LockedNodes /\ ListOK
    /\ \A t \in Threads : OpOK(t) /\ PointersOK(t) /\ MutexOK(t)

-----------------------------------------------------------------------------
(* Facts *)

LEMMA OpFacts ==
    ASSUME ListInv, NEW t \in Threads, pc[t] # "call"
    PROVE  /\ op[t] \in [type : Types, key : Keys, result : {Pending, "true", "false"}]
           /\ op[t].key \in Int /\ INT_MIN < op[t].key /\ op[t].key < INT_MAX
<1>1. op[t] \in OpType /\ op[t] # Idle
  BY DEF ListInv, TypeOK, OpOK
<1>2. op[t] \in [type : Types, key : Keys, result : {Pending, "true", "false"}]
  BY <1>1 DEF OpType
<1> QED
  BY <1>2, KeysAssumption

LEMMA ListFacts ==
    ASSUME ListInv
    PROVE  /\ List \subseteq live /\ List \subseteq All /\ \A n \in List : key[n] \in Int
           /\ head \in List /\ tail \in List
           /\ ~ Linking(head) /\ ~ Linking(tail)
<1>1. head \in List /\ tail \in List
  BY NodesAssumption DEF ListInv, TypeOK, OwnedOK, List
<1>2. ~ Linking(head) /\ ~ Linking(tail)
  BY NodesAssumption, NoneAssumption DEF ListInv, TypeOK, Linking
<1> QED
  BY <1>1, <1>2 DEF ListInv, TypeOK, List

\* Two nodes of the list do not have the same successor.
LEMMA AdjacentUnique ==
    ASSUME ListInv, NEW a, NEW b, NEW c, Adjacent(a, c), Adjacent(b, c)
    PROVE  a = b
<1>1. /\ a \in List /\ b \in List /\ key[a] \in Int /\ key[b] \in Int /\ key[c] \in Int
      /\ key[a] < key[c] /\ key[b] < key[c]
      /\ key[b] <= key[a] \/ key[c] <= key[b]
      /\ key[a] <= key[b] \/ key[c] <= key[a]
  BY ListFacts DEF Adjacent
<1>2. key[a] = key[b]
  BY <1>1
<1> QED
  BY <1>1, <1>2 DEF ListInv, ListOK

\* A thread that holds the mutex of a node alone may change its link.
LEMMA HeldIsNotLinking ==
    ASSUME ListInv, NEW t \in Threads, NEW n, mutex[n] = t
    PROVE  ~ Linking(n)
BY NoneAssumption DEF ListInv, MutexOK, Linking

\* A step of t moves no other thread.
Moves(t) ==
    \A u \in Threads : u # t =>
       /\ pc'[u] = pc[u] /\ op'[u] = op[u] /\ node'[u] = node[u]
       /\ prev'[u] = prev[u] /\ curr'[u] = curr[u]

LEMMA OthersSame ==
    ASSUME NEW t, Moves(t), NEW u \in Threads, u # t
    PROVE  /\ Adds(u)' <=> Adds(u)
           /\ Removes(u)' <=> Removes(u)
           /\ Owned(u)' = Owned(u)
<1>1. /\ Adds(u)' <=> Adds(u)
      /\ Removes(u)' <=> Removes(u)
  BY DEF Moves, Adds, Removes
<1> QED
  BY <1>1 DEF Moves, Owned

\* What the other threads know stays true: t changes the list only at nodes
\* that it has locked, and locks only nodes of the list.
LEMMA OthersOK ==
    ASSUME ListInv, NEW t \in Threads, Moves(t),
           \A n \in live : key'[n] = key[n],
           \A n \in List : mutex[n] # t => n \in List',
           \A a \in List, b \in List : Adjacent(a, b) /\ mutex[a] # t => Adjacent(a, b)',
           \A n \in All : \/ mutex'[n] = mutex[n]
                          \/ mutex[n] = t
                          \/ mutex[n] = None /\ n \in List /\ ~ Linking(n),
           NEW u \in Threads, u # t
    PROVE  OpOK(u)' /\ PointersOK(u)' /\ MutexOK(u)'
<1>0. OpOK(u) /\ PointersOK(u) /\ MutexOK(u) /\ Owned(u) \subseteq live
  BY DEF ListInv, OwnedOK
<1>1. /\ pc'[u] = pc[u] /\ op'[u] = op[u] /\ node'[u] = node[u]
      /\ prev'[u] = prev[u] /\ curr'[u] = curr[u]
  BY DEF Moves
<1>2. /\ Adds(u)' <=> Adds(u)
      /\ Removes(u)' <=> Removes(u)
      /\ Owned(u)' = Owned(u)
  BY OthersSame
<1>3. OpOK(u)'
  <2>1. Adds(u) => key'[node[u]] = key[node[u]]
    BY <1>0 DEF Owned
  <2> QED
    BY <1>0, <1>1, <1>2, <2>1 DEF OpOK
<1>4. t # None /\ u # None
  BY NoneAssumption
<1>5. PointersOK(u)'
  <2>1. CASE pc[u] \in {"lock", "test"}
    <3>1. Adjacent(prev[u], curr[u]) /\ key[prev[u]] < op[u].key /\ mutex[prev[u]] # t
      BY <1>0, <2>1 DEF PointersOK, MutexOK, HoldsPrev
    <3>2. prev[u] \in List /\ curr[u] \in List /\ prev[u] \in live
      BY <3>1, ListFacts DEF Adjacent
    <3>a. Adjacent(prev[u], curr[u])' /\ key'[prev[u]] < op[u].key
      <4> DEFINE a == prev[u]
                 b == curr[u]
      <4>1. Adjacent(a, b)'
        BY <3>1, <3>2, <1>1 DEF Adjacent
      <4> QED
        BY <3>1, <3>2, <4>1
    <3> QED
      BY <1>1, <2>1, <3>a DEF PointersOK
  <2>2. CASE pc[u] = "link"
    <3>1. /\ Adjacent(prev[u], node[u]) /\ Adjacent(node[u], curr[u])
          /\ mutex[prev[u]] # t /\ mutex[node[u]] # t
      BY <1>0, <1>4, <2>2 DEF PointersOK, MutexOK, HoldsPrev
    <3>2. prev[u] \in List /\ node[u] \in List /\ curr[u] \in List
      BY <3>1 DEF Adjacent
    <3>3. Adjacent(prev[u], node[u])' /\ Adjacent(node[u], curr[u])'
      BY <3>1, <3>2, <1>1 DEF Adjacent
    <3> QED
      BY <1>1, <2>2, <3>3 DEF PointersOK
  <2>3. CASE pc[u] = "unlock"
    <3>1. /\ prev[u] \in List /\ prev[u] # curr[u] /\ curr[u] \in List \cup Owned(u)
          /\ mutex[prev[u]] # t /\ mutex[curr[u]] # t
      BY <1>0, <2>3 DEF PointersOK, MutexOK, HoldsPrev, HoldsCurr
    <3> QED
      BY <1>1, <1>2, <2>3, <3>1 DEF PointersOK
  <2>4. CASE pc[u] = "unlock2"
    <3>1. prev[u] = None /\ curr[u] \in List \cup Owned(u) /\ mutex[curr[u]] # t
      BY <1>0, <2>4 DEF PointersOK, MutexOK, HoldsCurr
    <3> QED
      BY <1>1, <1>2, <2>4, <3>1 DEF PointersOK
  <2>5. CASE pc[u] \notin {"lock", "test", "link", "unlock", "unlock2"}
    BY <1>1, <2>5 DEF PointersOK
  <2> QED
    BY <2>1, <2>2, <2>3, <2>4, <2>5
<1>6. MutexOK(u)'
  <2>0. List \subseteq All /\ live \subseteq All
    BY ListFacts DEF ListInv, TypeOK
  <2>1. HoldsPrev(u) => prev[u] \in All
    BY <1>0, <2>0 DEF HoldsPrev, PointersOK, Adjacent
  <2>2. HoldsCurr(u) => curr[u] \in All
    BY <1>0, <2>0 DEF HoldsCurr, PointersOK, Adjacent
  <2>3. pc[u] = "link" => node[u] \in All /\ Linking(node[u])
    BY <1>0, <2>0 DEF PointersOK, Adjacent, Linking
  <2>4. Removes(u) => curr[u] \in All /\ curr[u] \notin List
    BY <1>0, <2>0 DEF Owned, Removes, Adds, List
  <2> QED
    BY <1>0, <1>1, <1>2, <1>4, <2>1, <2>2, <2>3, <2>4 DEF MutexOK, HoldsPrev, HoldsCurr
<1> QED
  BY <1>3, <1>5, <1>6

-----------------------------------------------------------------------------
(* The steps that leave the list alone *)

\* t keeps the nodes that it owns.
SameOwner(t) ==
    /\ Adds(t)' <=> Adds(t)
    /\ Removes(t)' <=> Removes(t)
    /\ node'[t] = node[t]
    /\ Removes(t) => curr'[t] = curr[t]

LEMMA ListKept ==
    ASSUME ListInv, NEW t \in Threads, Moves(t), SameOwner(t), live' = live, key' = key
    PROVE  /\ \A u \in Threads : Owned(u)' = Owned(u)
           /\ List' = List /\ OwnedOK'
           /\ \A a \in List, b \in List : Adjacent(a, b)' <=> Adjacent(a, b)
<1>1. Owned(t)' = Owned(t)
  BY DEF SameOwner, Owned
<1>2. \A u \in Threads : Owned(u)' = Owned(u)
  BY <1>1, OthersSame
<1>3. List' = List
  BY <1>2 DEF List
<1>4. OwnedOK'
  BY <1>2 DEF OwnedOK, ListInv
<1>5. \A a \in List, b \in List : Adjacent(a, b)' <=> Adjacent(a, b)
  BY <1>3 DEF Adjacent
<1> QED
  BY <1>2, <1>3, <1>4, <1>5

LEMMA LockedKept ==
    ASSUME ListInv, NEW t \in Threads, Moves(t), SameOwner(t), List' = List,
           \A n \in All : mutex'[n] = mutex[n] \/ mutex'[n] = None \/ n \in List
    PROVE  LockedNodes'
<1> SUFFICES ASSUME NEW n \in All, mutex'[n] # None, n \notin List
             PROVE  \E u \in Threads : Removes(u)' /\ n = curr'[u]
  BY DEF LockedNodes
<1>1. mutex[n] # None
  OBVIOUS
<1>2. PICK u \in Threads : Removes(u) /\ n = curr[u]
  BY <1>1 DEF ListInv, LockedNodes
<1>3. CASE u = t
  BY <1>2, <1>3 DEF SameOwner
<1>4. CASE u # t
  BY <1>2, <1>4, OthersSame DEF Moves
<1> QED
  BY <1>3, <1>4

\* A step that changes only mutexes, the place of t, its pointers and result.
LEMMA WalkStep ==
    ASSUME ListInv, NEW t \in Threads, Moves(t), SameOwner(t), TypeOK',
           UNCHANGED <<heapVars, set>>, pc[t] # "link", pc'[t] # "link",
           \A n \in All : \/ mutex'[n] = mutex[n]
                          \/ mutex[n] = t /\ mutex'[n] = None
                          \/ mutex[n] = None /\ n \in List /\ ~ Linking(n),
           OpOK(t)', PointersOK(t)', MutexOK(t)'
    PROVE  ListInv'
<1>0. live' = live /\ key' = key /\ next' = next /\ set' = set
  BY DEF heapVars
<1>1. /\ List' = List /\ OwnedOK'
      /\ \A a \in List, b \in List : Adjacent(a, b)' <=> Adjacent(a, b)
  BY <1>0, ListKept
<1>2. LockedNodes'
  BY <1>1, LockedKept
<1>3. \A n : Linking(n)' <=> Linking(n)
  BY DEF Linking, Moves
<1>4. ListOK'
  <2>1. \A n \in List \ {tail} : ~ Linking(n)' => Adjacent(n, next[n])'
    <3> SUFFICES ASSUME NEW n \in List \ {tail}, ~ Linking(n) PROVE Adjacent(n, next[n])'
      BY <1>3
    <3>1. Adjacent(n, next[n])
      BY DEF ListInv, ListOK
    <3> QED
      BY <1>0, <1>1, <3>1 DEF Adjacent
  <2> QED
    BY <1>0, <1>1, <2>1 DEF ListOK, ListInv
<1>5. \A u \in Threads : u # t => OpOK(u)' /\ PointersOK(u)' /\ MutexOK(u)'
  BY <1>0, <1>1, OthersOK
<1> QED
  BY <1>1, <1>2, <1>4, <1>5 DEF ListInv

LEMMA LockHeadInv == ASSUME ListInv, NEW t \in Threads, LockHead(t) PROVE ListInv'
<1> USE DEF LockHead, At, Goto
<1>0. TypeOK
  BY DEF ListInv
<1>1. TypeOK'
  BY <1>0 DEF TypeOK, Labels, heapVars, All
<1>2. /\ pc[t] = "head" /\ pc'[t] = "lock" /\ op'[t] = op[t] /\ node'[t] = node[t]
      /\ prev'[t] = head /\ curr'[t] = next[head] /\ mutex'[head] = t
      /\ \A n \in All : n # head => mutex'[n] = mutex[n]
  BY <1>0 DEF TypeOK, All
<1>3. Moves(t)
  BY <1>0 DEF TypeOK, Moves
<1>4. OpOK(t) /\ op[t].result = Pending
  BY <1>2 DEF ListInv, OpOK
<1>5. SameOwner(t)
  BY <1>2, <1>4 DEF SameOwner, Adds, Removes, Pending
<1>6. /\ List' = List /\ \A a \in List, b \in List : Adjacent(a, b)' <=> Adjacent(a, b)
  BY <1>3, <1>5, ListKept DEF heapVars
<1>7. head \in List /\ ~ Linking(head) /\ head # tail
  BY ListFacts, NodesAssumption
<1>8. Adjacent(head, next[head])
  BY <1>7 DEF ListInv, ListOK
<1>9. PointersOK(t)'
  <2>1. Adjacent(head, next[head])'
    BY <1>6, <1>8 DEF Adjacent, heapVars
  <2>2. key'[head] < op'[t].key
    BY <1>2, OpFacts DEF heapVars, ListInv, ListOK
  <2> QED
    BY <1>2, <2>1, <2>2 DEF PointersOK, heapVars, Adjacent
<1>10. OpOK(t)'
  BY <1>2, <1>4, <1>5 DEF OpOK, SameOwner, heapVars
<1>11. MutexOK(t)'
  BY <1>2 DEF MutexOK, HoldsPrev, HoldsCurr
<1> QED
  BY <1>1, <1>2, <1>3, <1>5, <1>7, <1>9, <1>10, <1>11, WalkStep

LEMMA LockCurrInv == ASSUME ListInv, NEW t \in Threads, LockCurr(t) PROVE ListInv'
<1> USE DEF LockCurr, At, Goto
<1>0. TypeOK /\ OpOK(t) /\ PointersOK(t) /\ MutexOK(t)
  BY DEF ListInv
<1>a. Adjacent(prev[t], curr[t]) /\ prev[t] \in List /\ curr[t] \in List /\ curr[t] \in All
  BY <1>0, ListFacts DEF PointersOK, Adjacent
<1>1. TypeOK'
  BY <1>0, <1>a DEF TypeOK, Labels, heapVars, locals
<1>2. /\ pc[t] = "lock" /\ pc'[t] = "test" /\ op' = op /\ node' = node
      /\ prev' = prev /\ curr' = curr /\ mutex'[curr[t]] = t /\ mutex[curr[t]] = None
      /\ \A n \in All : n # curr[t] => mutex'[n] = mutex[n]
  BY <1>0, <1>a DEF TypeOK, locals
<1>3. Moves(t)
  BY <1>0, <1>2 DEF TypeOK, Moves
<1>5. SameOwner(t)
  BY <1>2 DEF SameOwner, Adds, Removes
<1>6. /\ List' = List /\ \A a \in List, b \in List : Adjacent(a, b)' <=> Adjacent(a, b)
  BY <1>3, <1>5, ListKept DEF heapVars
<1>7. ~ Linking(curr[t])
  <2> SUFFICES ASSUME NEW u \in Threads, pc[u] = "link", node[u] = curr[t] PROVE FALSE
    BY DEF Linking
  <2>1. Adjacent(prev[u], curr[t]) /\ mutex[prev[u]] = u
    BY DEF ListInv, PointersOK, MutexOK, HoldsPrev
  <2>2. prev[u] = prev[t]
    BY <1>a, <2>1, AdjacentUnique
  <2> QED
    BY <1>0, <1>2, <2>1, <2>2 DEF MutexOK, HoldsPrev
<1>9. PointersOK(t)'
  <2>1. Adjacent(prev[t], curr[t])'
    BY <1>2, <1>6, <1>a DEF Adjacent, heapVars
  <2>2. key[prev[t]] < op[t].key
    BY <1>0, <1>2 DEF PointersOK
  <2> QED
    BY <1>2, <2>1, <2>2 DEF PointersOK, heapVars
<1>10. OpOK(t)'
  BY <1>0, <1>2, <1>5 DEF OpOK, SameOwner, heapVars
<1>11. MutexOK(t)'
  <2>1. prev[t] \in All /\ mutex[prev[t]] = t
    BY <1>0, <1>2, <1>a, ListFacts DEF MutexOK, HoldsPrev
  <2> QED
    BY <1>2, <2>1, NoneAssumption DEF MutexOK, HoldsPrev, HoldsCurr
<1> QED
  BY <1>1, <1>2, <1>3, <1>5, <1>7, <1>9, <1>10, <1>11, <1>a, WalkStep

LEMMA AdvanceInv == ASSUME ListInv, NEW t \in Threads, Advance(t) PROVE ListInv'
<1> USE DEF Advance, At, Goto, Before
<1>0. TypeOK /\ OpOK(t) /\ PointersOK(t) /\ MutexOK(t) /\ pc[t] = "test"
  BY DEF ListInv
<1>a. /\ Adjacent(prev[t], curr[t]) /\ prev[t] \in List /\ curr[t] \in List /\ prev[t] \in All
      /\ mutex[prev[t]] = t /\ mutex[curr[t]] = t /\ prev[t] # curr[t] /\ curr[t] \in All
  <2>1. Adjacent(prev[t], curr[t]) /\ mutex[prev[t]] = t /\ mutex[curr[t]] = t
    BY <1>0 DEF PointersOK, MutexOK, HoldsPrev, HoldsCurr
  <2>2. prev[t] \in List /\ curr[t] \in List /\ key[prev[t]] < key[curr[t]]
    BY <2>1 DEF Adjacent
  <2> QED
    BY <2>1, <2>2, ListFacts
<1>b. curr[t] # tail
  BY <1>0, OpFacts, KeysAssumption DEF ListInv, ListOK
<1>c. Adjacent(curr[t], next[curr[t]])
  BY <1>a, <1>b, HeldIsNotLinking DEF ListInv, ListOK
<1>1. TypeOK'
  BY <1>0, <1>a DEF TypeOK, Labels, heapVars
<1>2. /\ pc'[t] = "lock" /\ op' = op /\ node' = node
      /\ prev'[t] = curr[t] /\ curr'[t] = next[curr[t]] /\ mutex'[prev[t]] = None
      /\ \A n \in All : n # prev[t] => mutex'[n] = mutex[n]
  BY <1>0, <1>a DEF TypeOK
<1>3. Moves(t)
  BY <1>0, <1>2 DEF TypeOK, Moves
<1>5. SameOwner(t)
  BY <1>0, <1>2 DEF SameOwner, Adds, Removes, OpOK, Pending
<1>6. /\ List' = List /\ \A a \in List, b \in List : Adjacent(a, b)' <=> Adjacent(a, b)
  BY <1>3, <1>5, ListKept DEF heapVars
<1>9. PointersOK(t)'
  <2>1. Adjacent(prev[t], curr[t])'
    BY <1>2, <1>6, <1>c DEF Adjacent, heapVars
  <2> QED
    BY <1>2, <2>1 DEF PointersOK, heapVars
<1>10. OpOK(t)'
  BY <1>0, <1>2, <1>5 DEF OpOK, SameOwner, heapVars
<1>11. MutexOK(t)'
  BY <1>2, <1>a DEF MutexOK, HoldsPrev, HoldsCurr
<1> QED
  BY <1>0, <1>1, <1>2, <1>3, <1>5, <1>9, <1>10, <1>11, <1>a, WalkStep

LEMMA DecideInv == ASSUME ListInv, NEW t \in Threads, Decide(t) PROVE ListInv'
<1> USE DEF Decide, At, Goto
<1>0. TypeOK /\ OpOK(t) /\ PointersOK(t) /\ MutexOK(t) /\ pc[t] = "test"
  BY DEF ListInv
<1>a. /\ Adjacent(prev[t], curr[t]) /\ prev[t] \in List /\ curr[t] \in List
      /\ mutex[prev[t]] = t /\ mutex[curr[t]] = t /\ prev[t] # curr[t]
  <2>1. Adjacent(prev[t], curr[t]) /\ mutex[prev[t]] = t /\ mutex[curr[t]] = t
    BY <1>0 DEF PointersOK, MutexOK, HoldsPrev, HoldsCurr
  <2>2. prev[t] \in List /\ curr[t] \in List /\ key[prev[t]] < key[curr[t]]
    BY <2>1 DEF Adjacent
  <2> QED
    BY <2>1, <2>2, ListFacts
<1>b. /\ op[t] \in [type : Types, key : Keys, result : {Pending, "true", "false"}]
      /\ op[t].result = Pending
  BY <1>0, OpFacts DEF OpOK
<1>c. PICK res \in {"true", "false"} :
        op' = [op EXCEPT ![t].result = res] /\ (op[t].type \in {"A", "R"} => res = "false")
  BY DEF Answer, Truth
<1>d. /\ op'[t] = [op[t] EXCEPT !.result = res]
      /\ \A u \in Threads : u # t => op'[u] = op[u]
  BY <1>0, <1>c DEF TypeOK
<1>e. /\ op'[t].type = op[t].type /\ op'[t].key = op[t].key /\ op'[t].result = res
      /\ op'[t] \in [type : Types, key : Keys, result : {Pending, "true", "false"}]
  BY <1>b, <1>d DEF Pending
<1>f. op' \in [Threads -> OpType]
  BY <1>0, <1>c, <1>d, <1>e DEF TypeOK, OpType
<1>1. TypeOK'
  BY <1>0, <1>f DEF TypeOK, Labels, heapVars, locals
<1>2. /\ pc'[t] = "unlock" /\ mutex' = mutex /\ node' = node /\ prev' = prev /\ curr' = curr
  BY <1>0 DEF TypeOK, locals
<1>3. Moves(t)
  BY <1>0, <1>2, <1>d DEF TypeOK, Moves
<1>5. SameOwner(t)
  BY <1>b, <1>c, <1>2, <1>e DEF SameOwner, Adds, Removes, Pending
<1>6. /\ List' = List /\ \A u \in Threads : Owned(u)' = Owned(u)
  BY <1>3, <1>5, ListKept DEF heapVars
<1>9. PointersOK(t)'
  BY <1>2, <1>6, <1>a DEF PointersOK
<1>10. OpOK(t)'
  <2>1. op'[t] # Idle
    BY <1>e DEF Idle, Types
  <2> QED
    BY <1>0, <1>2, <1>5, <1>e, <2>1 DEF OpOK, SameOwner, heapVars, Pending
<1>11. MutexOK(t)'
  BY <1>2, <1>a DEF MutexOK, HoldsPrev, HoldsCurr
<1> QED
  BY <1>0, <1>1, <1>2, <1>3, <1>5, <1>9, <1>10, <1>11, WalkStep

LEMMA UnlockPrevInv == ASSUME ListInv, NEW t \in Threads, UnlockPrev(t) PROVE ListInv'
<1> USE DEF UnlockPrev, At, Goto
<1>0. TypeOK /\ OpOK(t) /\ PointersOK(t) /\ MutexOK(t) /\ pc[t] = "unlock"
  BY DEF ListInv
<1>a. /\ prev[t] \in List /\ curr[t] \in List \cup Owned(t) /\ prev[t] \in All
      /\ mutex[prev[t]] = t /\ mutex[curr[t]] = t /\ prev[t] # curr[t] /\ curr[t] \in All
  <2>1. /\ prev[t] \in List /\ curr[t] \in List \cup Owned(t) /\ prev[t] # curr[t]
        /\ mutex[prev[t]] = t /\ mutex[curr[t]] = t
    BY <1>0 DEF PointersOK, MutexOK, HoldsPrev, HoldsCurr
  <2>2. List \subseteq All /\ Owned(t) \subseteq All
    BY ListFacts DEF ListInv, OwnedOK, All
  <2> QED
    BY <2>1, <2>2
<1>1. TypeOK'
  BY <1>0, <1>a DEF TypeOK, Labels, heapVars
<1>2. /\ pc'[t] = "unlock2" /\ op' = op /\ node' = node /\ curr' = curr
      /\ prev'[t] = None /\ mutex'[prev[t]] = None
      /\ \A n \in All : n # prev[t] => mutex'[n] = mutex[n]
  BY <1>0, <1>a DEF TypeOK
<1>3. Moves(t)
  BY <1>0, <1>2 DEF TypeOK, Moves
<1>5. SameOwner(t)
  BY <1>2 DEF SameOwner, Adds, Removes
<1>6. /\ List' = List /\ \A u \in Threads : Owned(u)' = Owned(u)
  BY <1>3, <1>5, ListKept DEF heapVars
<1>9. PointersOK(t)'
  BY <1>2, <1>6, <1>a DEF PointersOK
<1>10. OpOK(t)'
  BY <1>0, <1>2, <1>5 DEF OpOK, SameOwner, heapVars
<1>11. MutexOK(t)'
  BY <1>2, <1>a DEF MutexOK, HoldsPrev, HoldsCurr
<1> QED
  BY <1>0, <1>1, <1>2, <1>3, <1>5, <1>9, <1>10, <1>11, <1>a, WalkStep

LEMMA UnlockCurrInv == ASSUME ListInv, NEW t \in Threads, UnlockCurr(t) PROVE ListInv'
<1> USE DEF UnlockCurr, At, Goto
<1>0. TypeOK /\ OpOK(t) /\ PointersOK(t) /\ MutexOK(t) /\ pc[t] = "unlock2"
  BY DEF ListInv
<1>a. mutex[curr[t]] = t /\ curr[t] \in All
  <2>1. curr[t] \in List \cup Owned(t) /\ mutex[curr[t]] = t
    BY <1>0 DEF PointersOK, MutexOK, HoldsCurr
  <2>2. List \subseteq All /\ Owned(t) \subseteq All
    BY ListFacts DEF ListInv, OwnedOK, All
  <2> QED
    BY <2>1, <2>2
<1>1. TypeOK'
  BY <1>0, <1>a DEF TypeOK, Labels, heapVars, locals
<1>2. /\ pc'[t] = "free" /\ op' = op /\ node' = node /\ curr' = curr /\ prev' = prev
      /\ mutex'[curr[t]] = None /\ \A n \in All : n # curr[t] => mutex'[n] = mutex[n]
  BY <1>0, <1>a DEF TypeOK, locals
<1>3. Moves(t)
  BY <1>0, <1>2 DEF TypeOK, Moves
<1>5. SameOwner(t)
  BY <1>2 DEF SameOwner, Adds, Removes
<1>9. PointersOK(t)'
  BY <1>2 DEF PointersOK
<1>10. OpOK(t)'
  BY <1>0, <1>2, <1>5 DEF OpOK, SameOwner, heapVars
<1>11. MutexOK(t)'
  BY <1>2 DEF MutexOK, HoldsPrev, HoldsCurr
<1> QED
  BY <1>0, <1>1, <1>2, <1>3, <1>5, <1>9, <1>10, <1>11, <1>a, WalkStep

\* The second store of list_add makes the link agree with the order.
LEMMA LinkNodeInv == ASSUME ListInv, NEW t \in Threads, LinkNode(t) PROVE ListInv'
<1> USE DEF LinkNode, At, Goto
<1>0. TypeOK /\ OpOK(t) /\ PointersOK(t) /\ MutexOK(t) /\ pc[t] = "link"
  BY DEF ListInv
<1>a. /\ Adjacent(prev[t], node[t]) /\ Adjacent(node[t], curr[t])
      /\ prev[t] \in List /\ node[t] \in List /\ curr[t] \in List
      /\ node[t] \in All /\ curr[t] \in All /\ prev[t] # curr[t]
      /\ mutex[prev[t]] = t /\ mutex[curr[t]] = t
  <2>1. /\ Adjacent(prev[t], node[t]) /\ Adjacent(node[t], curr[t])
        /\ mutex[prev[t]] = t /\ mutex[curr[t]] = t
    BY <1>0 DEF PointersOK, MutexOK, HoldsPrev, HoldsCurr
  <2>2. /\ prev[t] \in List /\ node[t] \in List /\ curr[t] \in List
        /\ key[prev[t]] < key[node[t]] /\ key[node[t]] < key[curr[t]]
    BY <2>1 DEF Adjacent
  <2> QED
    BY <2>1, <2>2, ListFacts
<1>1. TypeOK'
  BY <1>0, <1>a DEF TypeOK, Labels, locals
<1>2. /\ pc'[t] = "unlock" /\ op' = op /\ node' = node /\ curr' = curr /\ prev' = prev
      /\ mutex' = mutex /\ live' = live /\ key' = key /\ set' = set
      /\ next'[node[t]] = curr[t] /\ \A n \in All : n # node[t] => next'[n] = next[n]
  BY <1>0, <1>a DEF TypeOK, locals
<1>3. Moves(t)
  BY <1>0, <1>2 DEF TypeOK, Moves
<1>5. SameOwner(t)
  BY <1>2 DEF SameOwner, Adds, Removes
<1>6. /\ List' = List /\ OwnedOK' /\ \A u \in Threads : Owned(u)' = Owned(u)
      /\ \A a \in List, b \in List : Adjacent(a, b)' <=> Adjacent(a, b)
  BY <1>2, <1>3, <1>5, ListKept
<1>7. LockedNodes'
  BY <1>2, <1>3, <1>5, <1>6, LockedKept
<1>8. ListOK'
  <2>1. ASSUME NEW n \in List \ {tail}, ~ Linking(n)' PROVE Adjacent(n, next[n])'
    <3>1. CASE n = node[t]
      <4>1. next'[n] = curr[t]
        BY <1>2, <3>1
      <4> QED
        BY <1>2, <1>6, <1>a, <3>1, <4>1 DEF Adjacent
    <3>2. CASE n # node[t]
      <4>1. ~ Linking(n)
        BY <1>2, <1>3, <2>1, <3>2 DEF Linking, Moves
      <4>2. Adjacent(n, next[n]) /\ n \in All
        BY <4>1, ListFacts DEF ListInv, ListOK
      <4>3. next'[n] = next[n]
        BY <1>2, <3>2, <4>2
      <4> QED
        BY <1>2, <1>6, <4>2, <4>3 DEF Adjacent
    <3> QED
      BY <3>1, <3>2
  <2> QED
    BY <1>2, <1>6, <2>1 DEF ListOK, ListInv
<1>9. PointersOK(t)'
  BY <1>2, <1>6, <1>a DEF PointersOK
<1>10. OpOK(t)'
  BY <1>0, <1>2, <1>5 DEF OpOK, SameOwner
<1>11. MutexOK(t)'
  BY <1>2, <1>a DEF MutexOK, HoldsPrev, HoldsCurr
<1>12. \A u \in Threads : u # t => OpOK(u)' /\ PointersOK(u)' /\ MutexOK(u)'
  BY <1>2, <1>3, <1>6, OthersOK
<1> QED
  BY <1>1, <1>6, <1>7, <1>8, <1>9, <1>10, <1>11, <1>12 DEF ListInv

-----------------------------------------------------------------------------
(* The steps that change the list *)

\* A thread that has both mutexes and has not decided yet.
LEMMA AtTest ==
    ASSUME ListInv, NEW t \in Threads, pc[t] = "test"
    PROVE  /\ Adjacent(prev[t], curr[t]) /\ prev[t] \in List /\ curr[t] \in List
           /\ mutex[prev[t]] = t /\ mutex[curr[t]] = t /\ prev[t] # curr[t]
           /\ prev[t] \in All /\ curr[t] \in All
           /\ key[prev[t]] < op[t].key /\ op[t].result = Pending
           /\ op[t] \in [type : Types, key : Keys, result : {Pending, "true", "false"}]
           /\ key[prev[t]] \in Int /\ key[curr[t]] \in Int /\ op[t].key \in Int
<1>1. /\ Adjacent(prev[t], curr[t]) /\ mutex[prev[t]] = t /\ mutex[curr[t]] = t
      /\ key[prev[t]] < op[t].key /\ op[t].result = Pending
  BY DEF ListInv, PointersOK, MutexOK, HoldsPrev, HoldsCurr, OpOK
<1>2. prev[t] \in List /\ curr[t] \in List /\ key[prev[t]] < key[curr[t]]
  BY <1>1 DEF Adjacent
<1> QED
  BY <1>1, <1>2, ListFacts, OpFacts

\* The answer of an operation.
LEMMA AnswerFacts ==
    ASSUME ListInv, NEW t \in Threads, pc[t] = "test", NEW res \in {"true", "false"},
           op' = [op EXCEPT ![t].result = res]
    PROVE  /\ op' \in [Threads -> OpType] /\ op'[t] # Idle
           /\ op'[t].type = op[t].type /\ op'[t].key = op[t].key /\ op'[t].result = res
           /\ \A u \in Threads : u # t => op'[u] = op[u]
<1>0. op \in [Threads -> OpType]
  BY DEF ListInv, TypeOK
<1>1. /\ op'[t] = [op[t] EXCEPT !.result = res]
      /\ \A u \in Threads : u # t => op'[u] = op[u]
  BY <1>0
<1>2. /\ op'[t].type = op[t].type /\ op'[t].key = op[t].key /\ op'[t].result = res
      /\ op'[t] \in [type : Types, key : Keys, result : {Pending, "true", "false"}]
  BY <1>1, AtTest DEF Pending
<1>3. op' \in [Threads -> OpType]
  BY <1>0, <1>1, <1>2 DEF OpType
<1>4. op'[t] # Idle
  BY <1>2 DEF Idle, Types
<1> QED
  BY <1>1, <1>2, <1>3, <1>4

\* The first store of list_add puts the node between prev and curr.
LEMMA LinkPrevInv == ASSUME ListInv, NEW t \in Threads, LinkPrev(t) PROVE ListInv'
<1> USE DEF LinkPrev, At, Goto
<1> DEFINE p == prev[t]
           c == curr[t]
           n == node[t]
           k == op[t].key
<1>0. TypeOK /\ OpOK(t) /\ PointersOK(t) /\ MutexOK(t) /\ pc[t] = "test" /\ op[t].type = "A"
  BY DEF ListInv
<1>a. /\ Adjacent(p, c) /\ p \in List /\ c \in List /\ mutex[p] = t /\ mutex[c] = t /\ p # c
      /\ p \in All /\ c \in All /\ key[p] < k /\ op[t].result = Pending /\ k \in Keys
      /\ key[p] \in Int /\ key[c] \in Int /\ k \in Int
  BY <1>0, AtTest
<1>b. Adds(t) /\ ~ Removes(t) /\ Owned(t) = {n} /\ key[n] = k
  BY <1>0, <1>a DEF Adds, Removes, Owned, OpOK, Pending
<1>c. n \in live /\ n \in Nodes /\ n \in All /\ n \notin List
  BY <1>b DEF ListInv, OwnedOK, All, List
<1>d. k < key[c]
  BY <1>a DEF Before, Found
<1>e. /\ op' \in [Threads -> OpType] /\ op'[t] # Idle
      /\ op'[t].type = "A" /\ op'[t].key = k /\ op'[t].result = "true"
      /\ \A u \in Threads : u # t => op'[u] = op[u]
  BY <1>0, AnswerFacts DEF Answer, Truth
<1>1. TypeOK'
  <2>1. next' \in [All -> All \cup {None}]
    BY <1>0, <1>c DEF TypeOK
  <2>2. set' \in SUBSET Keys
    BY <1>0, <1>a DEF TypeOK
  <2> QED
    BY <1>0, <1>e, <2>1, <2>2 DEF TypeOK, Labels, locals
<1>2. /\ pc'[t] = "link" /\ node' = node /\ curr' = curr /\ prev' = prev
      /\ mutex' = mutex /\ live' = live /\ key' = key /\ set' = set \cup {k}
      /\ next'[p] = n /\ \A m \in All : m # p => next'[m] = next[m]
  BY <1>0, <1>a DEF TypeOK, locals
<1>3. Moves(t)
  BY <1>0, <1>2, <1>e DEF TypeOK, Moves
<1>4. ~ Adds(t)' /\ ~ Removes(t)' /\ Owned(t)' = {}
  BY <1>e DEF Adds, Removes, Owned
<1>5. \A u \in Threads : u # t => Owned(u)' = Owned(u) /\ n \notin Owned(u)
  BY <1>3, <1>b, OthersSame DEF ListInv, OwnedOK
<1>6. List' = List \cup {n}
  BY <1>2, <1>4, <1>5, <1>b, <1>c DEF List
<1>7. OwnedOK'
  BY <1>2, <1>4, <1>5 DEF OwnedOK, ListInv
<1>8. LockedNodes'
  <2> SUFFICES ASSUME NEW m \in All, mutex'[m] # None, m \notin List'
               PROVE  \E u \in Threads : Removes(u)' /\ m = curr'[u]
    BY DEF LockedNodes
  <2>1. PICK u \in Threads : Removes(u) /\ m = curr[u]
    BY <1>2, <1>6 DEF ListInv, LockedNodes
  <2> QED
    BY <1>2, <1>3, <1>b, <2>1, OthersSame
\* An interval that does not begin at prev does not hold the new key.
<1>9. ASSUME NEW a \in List, NEW b \in List, Adjacent(a, b), a # p PROVE Adjacent(a, b)'
  <2>1. /\ key[a] \in Int /\ key[b] \in Int /\ key[a] < key[b]
        /\ \A l \in List : key[l] <= key[a] \/ key[b] <= key[l]
    BY <1>9, ListFacts DEF Adjacent
  <2>2. key[a] <= key[p] \/ key[c] <= key[a]
    BY <1>a DEF Adjacent
  <2>3. key[a] # key[p]
    BY <1>9, <1>a DEF ListInv, ListOK
  <2>4. k <= key[a] \/ key[b] <= k
    BY <1>a, <1>d, <2>1, <2>2, <2>3
  <2> QED
    BY <1>2, <1>6, <1>b, <2>1, <2>4 DEF Adjacent
<1>10. Adjacent(p, n)' /\ Adjacent(n, c)'
  <2>1. \A l \in List : key[l] <= key[p] \/ key[c] <= key[l]
    BY <1>a DEF Adjacent
  <2>2. \A l \in List : key[l] \in Int
    BY ListFacts
  <2>3. \A l \in List \cup {n} : /\ key[l] <= key[p] \/ key[n] <= key[l]
                                 /\ key[l] <= key[n] \/ key[c] <= key[l]
    BY <2>1, <2>2, <1>a, <1>b, <1>d
  <2> QED
    BY <1>2, <1>6, <1>a, <1>b, <1>d, <2>3 DEF Adjacent
<1>11. ListOK'
  <2>1. key'[head] = INT_MIN /\ key'[tail] = INT_MAX
    BY <1>2 DEF ListInv, ListOK
  <2>2. n # head /\ n # tail
    BY <1>c, NodesAssumption
  <2>3. List' \ {head, tail} = (List \ {head, tail}) \cup {n}
    BY <1>6, <2>2
  <2>4. {key'[m] : m \in List' \ {head, tail}} = set'
    <3>1. {key[m] : m \in List \ {head, tail}} = set
      BY DEF ListInv, ListOK
    <3>2. {key'[m] : m \in List' \ {head, tail}} = {key[m] : m \in List \ {head, tail}} \cup {key[n]}
      BY <1>2, <2>3
    <3> QED
      BY <1>2, <1>b, <3>1, <3>2
  <2>5. \A m \in List : key[m] # k
    <3> SUFFICES ASSUME NEW m \in List, key[m] = k PROVE FALSE
      OBVIOUS
    <3>1. key[m] <= key[p] \/ key[c] <= key[m]
      BY <1>a DEF Adjacent
    <3> QED
      BY <3>1, <1>a, <1>d
  <2>6. \A l, m \in List' : key'[l] = key'[m] => l = m
    <3>1. \A l, m \in List : key[l] = key[m] => l = m
      BY DEF ListInv, ListOK
    <3> QED
      BY <1>2, <1>6, <1>b, <2>5, <3>1
  <2>7. ASSUME NEW m \in List' \ {tail}, ~ Linking(m)' PROVE Adjacent(m, next[m])'
    <3>1. m # n
      BY <1>2, <2>7 DEF Linking
    <3>2. CASE m = p
      BY <1>2, <1>10, <3>2 DEF Adjacent
    <3>3. CASE m # p
      <4>1. m \in List /\ m \in All
        BY <1>6, <2>7, <3>1, ListFacts
      <4>2. ~ Linking(m)
        BY <1>0, <1>3, <2>7 DEF Linking, Moves
      <4>3. Adjacent(m, next[m]) /\ next[m] \in List
        BY <2>7, <4>1, <4>2 DEF ListInv, ListOK, Adjacent
      <4>4. next'[m] = next[m]
        BY <1>2, <3>3, <4>1
      <4>5. ASSUME NEW b \in List, b = next[m] PROVE Adjacent(m, b)'
        BY <1>9, <3>3, <4>1, <4>3, <4>5
      <4> QED
        BY <4>3, <4>4, <4>5 DEF Adjacent
    <3> QED
      BY <3>2, <3>3
  <2> QED
    BY <2>1, <2>4, <2>6, <2>7 DEF ListOK
<1>12. PointersOK(t)'
  BY <1>2, <1>10 DEF PointersOK, Adjacent
<1>13. OpOK(t)'
  BY <1>2, <1>4, <1>e DEF OpOK, Pending
<1>14. MutexOK(t)'
  <2>1. mutex[n] = None
    <3>1. \A u \in Threads : Removes(u) => n # curr[u]
      BY <1>5, <1>b DEF Owned, Adds, Removes
    <3> QED
      BY <1>c, <3>1 DEF ListInv, LockedNodes
  <2> QED
    BY <1>2, <1>a, <1>4, <2>1 DEF MutexOK, HoldsPrev, HoldsCurr
<1>15. \A u \in Threads : u # t => OpOK(u)' /\ PointersOK(u)' /\ MutexOK(u)'
  BY <1>2, <1>3, <1>6, <1>9, <1>a, OthersOK
<1> QED
  BY <1>1, <1>7, <1>8, <1>11, <1>12, <1>13, <1>14, <1>15 DEF ListInv

\* list_remove takes curr out from between its neighbours.
LEMMA UnlinkInv == ASSUME ListInv, NEW t \in Threads, Unlink(t) PROVE ListInv'
<1> USE DEF Unlink, At, Goto
<1> DEFINE p == prev[t]
           c == curr[t]
           d == next[curr[t]]
           k == op[t].key
<1>0. TypeOK /\ OpOK(t) /\ PointersOK(t) /\ MutexOK(t) /\ pc[t] = "test" /\ op[t].type = "R"
  BY DEF ListInv
<1>a. /\ Adjacent(p, c) /\ p \in List /\ c \in List /\ mutex[p] = t /\ mutex[c] = t /\ p # c
      /\ p \in All /\ c \in All /\ key[p] < k /\ op[t].result = Pending /\ k \in Keys
      /\ key[p] \in Int /\ key[c] \in Int /\ k \in Int
  BY <1>0, AtTest
<1>b. key[c] = k /\ c # head /\ c # tail
  <2>1. key[c] = k
    BY DEF Found
  <2>2. INT_MIN < k /\ k < INT_MAX /\ k \in Int
    BY <1>0, OpFacts
  <2> QED
    BY <2>1, <2>2, KeysAssumption DEF ListInv, ListOK
<1>c. c \in live /\ c \in Nodes
  BY <1>a, <1>b, ListFacts DEF All
<1>d. Adjacent(c, d) /\ d \in List /\ d # c /\ d \in All
  <2>1. Adjacent(c, d)
    BY <1>a, <1>b, HeldIsNotLinking DEF ListInv, ListOK
  <2> QED
    BY <2>1, <1>a, ListFacts DEF Adjacent
<1>e. /\ op' \in [Threads -> OpType] /\ op'[t] # Idle
      /\ op'[t].type = "R" /\ op'[t].key = k /\ op'[t].result = "true"
      /\ \A u \in Threads : u # t => op'[u] = op[u]
  BY <1>0, AnswerFacts DEF Answer, Truth
<1>1. TypeOK'
  <2>1. next' \in [All -> All \cup {None}]
    BY <1>0, <1>d DEF TypeOK
  <2>2. set' \in SUBSET Keys
    BY <1>0 DEF TypeOK
  <2> QED
    BY <1>0, <1>e, <2>1, <2>2 DEF TypeOK, Labels, locals
<1>2. /\ pc'[t] = "unlock" /\ node' = node /\ curr' = curr /\ prev' = prev
      /\ mutex' = mutex /\ live' = live /\ key' = key /\ set' = set \ {k}
      /\ next'[p] = d /\ \A m \in All : m # p => next'[m] = next[m]
  BY <1>0, <1>a DEF TypeOK, locals
<1>3. Moves(t)
  BY <1>0, <1>2, <1>e DEF TypeOK, Moves
<1>4. ~ Removes(t) /\ Owned(t) = {} /\ ~ Adds(t)' /\ Removes(t)' /\ Owned(t)' = {c}
  BY <1>0, <1>2, <1>a, <1>e DEF Adds, Removes, Owned, Pending
<1>5. \A u \in Threads : u # t => Owned(u)' = Owned(u) /\ c \notin Owned(u)
  BY <1>3, <1>a, OthersSame DEF List
<1>6. List' = List \ {c}
  BY <1>2, <1>4, <1>5 DEF List
<1>7. OwnedOK'
  BY <1>2, <1>4, <1>5, <1>c DEF OwnedOK, ListInv
<1>8. LockedNodes'
  <2> SUFFICES ASSUME NEW m \in All, mutex'[m] # None, m \notin List'
               PROVE  \E u \in Threads : Removes(u)' /\ m = curr'[u]
    BY DEF LockedNodes
  <2>1. CASE m = c
    BY <1>2, <1>4, <2>1
  <2>2. CASE m # c
    <3>1. PICK u \in Threads : Removes(u) /\ m = curr[u]
      BY <1>2, <1>6, <2>2 DEF ListInv, LockedNodes
    <3> QED
      BY <1>2, <1>3, <1>4, <3>1, OthersSame
  <2> QED
    BY <2>1, <2>2
<1>9. ASSUME NEW a \in List, NEW b \in List, Adjacent(a, b), a # p, a # c PROVE Adjacent(a, b)'
  <2>1. b # c
    BY <1>9, <1>a, AdjacentUnique
  <2> QED
    BY <1>2, <1>6, <1>9, <2>1 DEF Adjacent
<1>10. ASSUME NEW b \in List, b = d PROVE Adjacent(p, b)'
  <2>1. /\ key[p] < key[c] /\ key[c] < key[d]
        /\ \A l \in List : key[l] <= key[p] \/ key[c] <= key[l]
        /\ \A l \in List : key[l] <= key[c] \/ key[d] <= key[l]
    BY <1>a, <1>d DEF Adjacent
  <2>2. key[d] \in Int /\ \A l \in List : key[l] \in Int
    BY <1>d, ListFacts
  <2>3. \A l \in List : l # c => key[l] # key[c]
    BY <1>a DEF ListInv, ListOK
  <2>4. \A l \in List \ {c} : key[l] <= key[p] \/ key[d] <= key[l]
    BY <2>1, <2>2, <2>3, <1>a
  <2>5. key[p] < key[d]
    BY <2>1, <2>2, <1>a
  <2> QED
    BY <1>2, <1>6, <1>10, <1>a, <1>d, <2>4, <2>5 DEF Adjacent
<1>11. ListOK'
  <2>1. key'[head] = INT_MIN /\ key'[tail] = INT_MAX
    BY <1>2 DEF ListInv, ListOK
  <2>2. \A l, m \in List : key[l] = key[m] => l = m
    BY DEF ListInv, ListOK
  <2>4. {key'[m] : m \in List' \ {head, tail}} = set'
    <3>1. {key[m] : m \in List \ {head, tail}} = set
      BY DEF ListInv, ListOK
    <3>2. \A m \in List : key[m] = k => m = c
      BY <1>a, <1>b, <2>2
    <3>3. {key'[m] : m \in List' \ {head, tail}} = {key[m] : m \in List \ {head, tail}} \ {k}
      BY <1>2, <1>6, <1>b, <3>2
    <3> QED
      BY <1>2, <3>1, <3>3
  <2>6. \A l, m \in List' : key'[l] = key'[m] => l = m
    BY <1>2, <1>6, <2>2
  <2>7. ASSUME NEW m \in List' \ {tail}, ~ Linking(m)' PROVE Adjacent(m, next[m])'
    <3>2. CASE m = p
      BY <1>2, <1>10, <1>d, <3>2 DEF Adjacent
    <3>3. CASE m # p
      <4>1. m \in List /\ m \in All /\ m # c
        BY <1>6, <2>7, ListFacts
      <4>2. ~ Linking(m)
        BY <1>0, <1>3, <2>7 DEF Linking, Moves
      <4>3. Adjacent(m, next[m]) /\ next[m] \in List
        BY <2>7, <4>1, <4>2 DEF ListInv, ListOK, Adjacent
      <4>4. next'[m] = next[m]
        BY <1>2, <3>3, <4>1
      <4>5. ASSUME NEW b \in List, b = next[m] PROVE Adjacent(m, b)'
        BY <1>9, <3>3, <4>1, <4>3, <4>5
      <4> QED
        BY <4>3, <4>4, <4>5 DEF Adjacent
    <3> QED
      BY <3>2, <3>3
  <2> QED
    BY <2>1, <2>4, <2>6, <2>7 DEF ListOK
<1>12. PointersOK(t)'
  BY <1>2, <1>4, <1>6, <1>a DEF PointersOK
<1>13. OpOK(t)'
  BY <1>2, <1>4, <1>e DEF OpOK, Pending
<1>14. MutexOK(t)'
  BY <1>2, <1>a DEF MutexOK, HoldsPrev, HoldsCurr
<1>15. \A u \in Threads : u # t => OpOK(u)' /\ PointersOK(u)' /\ MutexOK(u)'
  BY <1>2, <1>3, <1>6, <1>9, <1>a, OthersOK
<1> QED
  BY <1>1, <1>7, <1>8, <1>11, <1>12, <1>13, <1>14, <1>15 DEF ListInv

-----------------------------------------------------------------------------
(* The heap *)

\* A new node, or one that goes back to the heap, is not in the list.
LEMMA HeapStep ==
    ASSUME ListInv, NEW t \in Threads, Moves(t), TypeOK', OwnedOK', List' = List,
           \A n \in live : key'[n] = key[n] /\ next'[n] = next[n],
           mutex' = mutex, set' = set, pc[t] # "link", pc'[t] # "link",
           LockedNodes', OpOK(t)', PointersOK(t)', MutexOK(t)'
    PROVE  ListInv'
<1>0. /\ List \subseteq live /\ \A n \in List : key'[n] = key[n] /\ next'[n] = next[n]
      /\ head \in List /\ tail \in List
  BY ListFacts
<1>1. \A a \in List, b \in List : Adjacent(a, b)' <=> Adjacent(a, b)
  BY <1>0 DEF Adjacent
<1>2. \A n : Linking(n)' <=> Linking(n)
  BY DEF Linking, Moves
<1>3. ListOK'
  <2>1. ASSUME NEW n \in List \ {tail}, ~ Linking(n) PROVE Adjacent(n, next[n])'
    <3>1. Adjacent(n, next[n]) /\ next[n] \in List
      BY <2>1 DEF ListInv, ListOK, Adjacent
    <3>2. next'[n] = next[n]
      BY <1>0
    <3> QED
      BY <1>0, <1>1, <3>1, <3>2 DEF Adjacent
  <2>2. {key'[n] : n \in List \ {head, tail}} = {key[n] : n \in List \ {head, tail}}
    BY <1>0
  <2> QED
    BY <1>0, <1>2, <2>1, <2>2 DEF ListInv, ListOK
<1>4. \A u \in Threads : u # t => OpOK(u)' /\ PointersOK(u)' /\ MutexOK(u)'
  BY <1>0, <1>1, OthersOK
<1> QED
  BY <1>3, <1>4 DEF ListInv

LEMMA CallInv ==
    ASSUME ListInv, NEW t \in Threads, NEW type \in Types, NEW k \in Keys, Call(t, type, k)
    PROVE  ListInv'
<1> DEFINE o == [type |-> type, key |-> k, result |-> Pending]
<1>0. TypeOK /\ OpOK(t) /\ pc[t] = "call" /\ op[t] = Idle
  BY DEF ListInv, Call, At, OpOK
<1>a. /\ pc' = [pc EXCEPT ![t] = "head"] /\ op' = [op EXCEPT ![t] = o]
      /\ mutex' = mutex /\ prev' = prev /\ curr' = curr /\ set' = set
  BY DEF Call, Goto
<1>b. /\ o \in [type : Types, key : Keys, result : {Pending, "true", "false"}]
      /\ o.type = type /\ o.key = k /\ o.result = Pending /\ o # Idle
  BY DEF Idle, Types
<1> HIDE DEF o
<1>1. /\ pc'[t] = "head" /\ op'[t] = o /\ op' \in [Threads -> OpType]
      /\ \A u \in Threads : u # t => pc'[u] = pc[u] /\ op'[u] = op[u]
  BY <1>0, <1>a, <1>b DEF TypeOK, OpType
<1>2. ~ Adds(t) /\ ~ Removes(t) /\ Owned(t) = {} /\ ~ Removes(t)'
  BY <1>0, <1>1, <1>b DEF Adds, Removes, Owned, Idle, Pending
<1>3. PointersOK(t)' /\ MutexOK(t)'
  BY <1>1 DEF PointersOK, MutexOK, HoldsPrev, HoldsCurr
<1>4. ASSUME Moves(t), List' = List PROVE LockedNodes'
  <2> SUFFICES ASSUME NEW m \in All, mutex[m] # None, m \notin List
               PROVE  \E u \in Threads : Removes(u)' /\ m = curr[u]
    BY <1>a, <1>4 DEF LockedNodes
  <2>1. PICK u \in Threads : Removes(u) /\ m = curr[u]
    BY DEF ListInv, LockedNodes
  <2> QED
    BY <1>2, <1>4, <2>1, OthersSame
<1>5. CASE type = "A"
  <2>1. PICK n \in Nodes \ live :
          /\ live' = live \cup {n}
          /\ key' = [key EXCEPT ![n] = k]
          /\ next' = [next EXCEPT ![n] = None]
          /\ node' = [node EXCEPT ![t] = n]
    BY <1>5 DEF Call
  <2>2. n \in All /\ k \in Int
    BY KeysAssumption DEF All
  <2>3. IsFiniteSet(live')
    BY <1>0, <2>1, FS_AddElement DEF TypeOK
  <2>4. TypeOK'
    BY <1>0, <1>1, <1>a, <2>1, <2>2, <2>3 DEF TypeOK, Labels
  <2>5. node'[t] = n /\ key'[n] = k /\ \A u \in Threads : u # t => node'[u] = node[u]
    BY <1>0, <2>1, <2>2 DEF TypeOK
  <2>6. \A m \in live : key'[m] = key[m] /\ next'[m] = next[m]
    BY <1>0, <2>1, <2>2 DEF TypeOK
  <2>7. Moves(t)
    BY <1>1, <1>a, <2>5 DEF Moves
  <2>8. Adds(t)' /\ Owned(t)' = {n}
    BY <1>1, <1>5, <1>b, <2>5 DEF Adds, Owned, Pending
  <2>9. \A u \in Threads : u # t => Owned(u)' = Owned(u) /\ n \notin Owned(u)
    BY <2>1, <2>7, OthersSame DEF ListInv, OwnedOK
  <2>10. List' = List
    BY <2>1, <2>8, <2>9, <1>2 DEF List
  <2>11. OwnedOK'
    BY <2>1, <2>8, <2>9 DEF ListInv, OwnedOK
  <2>12. OpOK(t)'
    BY <1>1, <1>b, <2>5 DEF OpOK
  <2> QED
    BY <1>0, <1>1, <1>3, <1>4, <1>a, <2>4, <2>6, <2>7, <2>10, <2>11, <2>12, HeapStep
<1>6. CASE type # "A"
  <2>1. live' = live /\ key' = key /\ next' = next /\ node' = node
    BY <1>6 DEF Call, heapVars
  <2>4. TypeOK'
    BY <1>0, <1>1, <1>a, <2>1 DEF TypeOK, Labels
  <2>7. Moves(t)
    BY <1>1, <1>a, <2>1 DEF Moves
  <2>8. ~ Adds(t)' /\ Owned(t)' = {}
    BY <1>1, <1>2, <1>6, <1>b DEF Adds, Owned
  <2>9. \A u \in Threads : Owned(u)' = Owned(u)
    BY <1>2, <2>7, <2>8, OthersSame
  <2>10. List' = List
    BY <2>1, <2>9 DEF List
  <2>11. OwnedOK'
    BY <2>1, <2>9 DEF ListInv, OwnedOK
  <2>12. OpOK(t)'
    BY <1>1, <1>b, <2>8 DEF OpOK
  <2> QED
    BY <1>0, <1>1, <1>3, <1>4, <1>a, <2>1, <2>4, <2>7, <2>10, <2>11, <2>12, HeapStep
<1> QED
  BY <1>5, <1>6

LEMMA ReturnInv == ASSUME ListInv, NEW t \in Threads, Return(t) PROVE ListInv'
<1> USE DEF Return, At, Goto
<1>0. TypeOK /\ OpOK(t) /\ MutexOK(t) /\ pc[t] = "free" /\ op[t].result # Pending
  BY DEF ListInv, OpOK
<1>a. op[t] \in [type : Types, key : Keys, result : {Pending, "true", "false"}]
  BY <1>0, OpFacts
<1>b. Garbage(t) = Owned(t)
  BY <1>0, <1>a DEF Garbage, Owned, Adds, Removes, Pending
<1>c. head \notin Owned(t) /\ tail \notin Owned(t)
  BY NodesAssumption DEF ListInv, OwnedOK
<1>1. TypeOK'
  <2>1. live' \in SUBSET All /\ head \in live' /\ tail \in live'
    BY <1>0, <1>b, <1>c DEF TypeOK
  <2>2. IsFiniteSet(live')
    BY <1>0, FS_Subset DEF TypeOK
  <2> QED
    BY <1>0, <2>1, <2>2 DEF TypeOK, Labels, OpType
<1>2. /\ pc'[t] = "call" /\ op'[t] = Idle /\ key' = key /\ next' = next /\ mutex' = mutex
      /\ prev' = prev /\ set' = set /\ live' = live \ Owned(t)
  BY <1>0, <1>b DEF TypeOK
<1>3. Moves(t)
  BY <1>0 DEF TypeOK, Moves
<1>4. ~ Adds(t)' /\ ~ Removes(t)' /\ Owned(t)' = {}
  BY <1>2 DEF Adds, Removes, Owned, Idle
<1>5. \A u \in Threads : u # t => Owned(u)' = Owned(u) /\ Owned(u) \cap Owned(t) = {}
  BY <1>3, OthersSame DEF ListInv, OwnedOK
<1>6. List' = List
  BY <1>2, <1>4, <1>5 DEF List
<1>7. OwnedOK'
  BY <1>2, <1>4, <1>5 DEF ListInv, OwnedOK
<1>8. LockedNodes'
  <2> SUFFICES ASSUME NEW m \in All, mutex[m] # None, m \notin List
               PROVE  \E u \in Threads : Removes(u)' /\ m = curr'[u]
    BY <1>2, <1>6 DEF LockedNodes
  <2>1. PICK u \in Threads : Removes(u) /\ m = curr[u]
    BY DEF ListInv, LockedNodes
  <2>2. u # t
    BY <1>0, <2>1 DEF MutexOK
  <2> QED
    BY <1>3, <2>1, <2>2, OthersSame DEF Moves
<1>9. OpOK(t)' /\ PointersOK(t)' /\ MutexOK(t)'
  BY <1>2 DEF OpOK, PointersOK, MutexOK, HoldsPrev, HoldsCurr
<1> QED
  BY <1>0, <1>1, <1>2, <1>3, <1>6, <1>7, <1>8, <1>9, HeapStep

-----------------------------------------------------------------------------
LEMMA InitInv == Init => ListInv
<1> SUFFICES ASSUME Init PROVE ListInv
  OBVIOUS
<1>1. TypeOK
  <2>1. IsFiniteSet(live)
    <3>1. IsFiniteSet({head})
      BY FS_Singleton
    <3>2. IsFiniteSet({head} \cup {tail})
      BY <3>1, FS_AddElement
    <3>3. live = {head} \cup {tail}
      BY DEF Init
    <3> QED
      BY <3>2, <3>3
  <2> QED
    BY <2>1, KeysAssumption DEF Init, TypeOK, All, Labels, OpType
<1>2. \A t \in Threads : pc[t] = "call" /\ op[t] = Idle
  BY DEF Init
<1>3. \A t \in Threads : ~ Adds(t) /\ ~ Removes(t) /\ Owned(t) = {}
  BY <1>2 DEF Adds, Removes, Owned, Idle
<1>4. List = {head, tail}
  BY <1>3 DEF List, Init
<1>5. OwnedOK
  BY <1>3 DEF OwnedOK
<1>6. LockedNodes
  BY DEF LockedNodes, Init
<1>7. ListOK
  <2>1. /\ key[head] = INT_MIN /\ key[tail] = INT_MAX /\ next[head] = tail /\ set = {}
    BY NodesAssumption DEF Init, All
  <2>2. Adjacent(head, tail)
    BY <1>4, <2>1, KeysAssumption DEF Adjacent
  <2>3. {key[n] : n \in List \ {head, tail}} = {}
    BY <1>4
  <2> QED
    BY <1>4, <2>1, <2>2, <2>3, KeysAssumption DEF ListOK
<1>8. \A t \in Threads : OpOK(t) /\ PointersOK(t) /\ MutexOK(t)
  BY <1>2 DEF OpOK, PointersOK, MutexOK, HoldsPrev, HoldsCurr
<1> QED
  BY <1>1, <1>5, <1>6, <1>7, <1>8 DEF ListInv

LEMMA NextInv == ListInv /\ [Next]_vars => ListInv'
<1> SUFFICES ASSUME ListInv, [Next]_vars PROVE ListInv'
  OBVIOUS
<1>1. CASE UNCHANGED vars
  <2>0. UNCHANGED <<live, key, next, mutex, pc, op, node, prev, curr, set>>
    BY <1>1 DEF vars, heapVars, locals
  <2>1. TypeOK'
    BY <2>0 DEF ListInv, TypeOK
  <2>2. \A t \in Threads : /\ Adds(t)' <=> Adds(t)
                           /\ Removes(t)' <=> Removes(t)
    BY <2>0 DEF Adds, Removes
  <2>3. \A t \in Threads : Owned(t)' = Owned(t)
    BY <2>0, <2>2 DEF Owned
  <2>4. List' = List
    BY <2>0, <2>3 DEF List
  <2>5. \A a, b : Adjacent(a, b)' <=> Adjacent(a, b)
    BY <2>0, <2>4 DEF Adjacent
  <2>6. \A n : Linking(n)' <=> Linking(n)
    BY <2>0 DEF Linking
  <2>7. OwnedOK' /\ LockedNodes'
    BY <2>0, <2>2, <2>3, <2>4 DEF ListInv, OwnedOK, LockedNodes
  <2>8. ListOK'
    BY <2>0, <2>4, <2>5, <2>6 DEF ListInv, ListOK
  <2>9. ASSUME NEW t \in Threads PROVE OpOK(t)' /\ PointersOK(t)' /\ MutexOK(t)'
    <3>1. OpOK(t) /\ PointersOK(t) /\ MutexOK(t)
      BY DEF ListInv
    <3>2. OpOK(t)'
      BY <2>0, <2>2, <3>1 DEF OpOK
    <3>3. PointersOK(t)'
      BY <2>0, <2>3, <2>4, <2>5, <3>1 DEF PointersOK
    <3>4. MutexOK(t)'
      BY <2>0, <2>2, <3>1 DEF MutexOK, HoldsPrev, HoldsCurr
    <3> QED
      BY <3>2, <3>3, <3>4
  <2> QED
    BY <2>1, <2>7, <2>8, <2>9 DEF ListInv
<1>2. ASSUME NEW t \in Threads, Step(t) PROVE ListInv'
  BY <1>2, CallInv, LockHeadInv, LockCurrInv, AdvanceInv, DecideInv, LinkPrevInv, LinkNodeInv,
     UnlinkInv, UnlockPrevInv, UnlockCurrInv, ReturnInv
  DEF Step
<1> QED
  BY <1>1, <1>2 DEF Next, Ended

\* The list of fine_grained.cpp is sorted whatever the threads are in the
\* middle of, its links follow the order of the keys, and the two pointers of
\* every operation are next to each other and locked.
THEOREM ListInvariant == Spec => []ListInv
<1> QED
  BY InitInv, NextInv, PTL DEF Spec

\* A thread of fine_grained.cpp never holds a pointer to a node that
\* list_remove or list_add has freed.
THEOREM NoDanglingPointer == Spec => []NoUseAfterFree
<1>1. ListInv => NoUseAfterFree
  <2> SUFFICES ASSUME ListInv, NEW t \in Threads, Reading(t)
               PROVE  {prev[t], curr[t]} \subseteq live \cup {None}
    BY DEF NoUseAfterFree
  <2>1. PointersOK(t) /\ List \subseteq live /\ Owned(t) \subseteq live
    BY ListFacts DEF ListInv, OwnedOK
  <2> QED
    BY <2>1 DEF Reading, PointersOK, Adjacent
<1> QED
  BY <1>1, ListInvariant, PTL

\* Whenever no operation is running, the list of fine_grained.cpp holds the
\* keys that were added and not removed since, in order and each once, and no
\* node has leaked.
THEOREM ListHoldsSet == Spec => []ListIsSet
<1>1. ListInv => ListIsSet
  <2> SUFFICES ASSUME ListInv, Quiet
               PROVE  /\ {key[n] : n \in InList} = set
                      /\ Cardinality(InList) = Cardinality(set)
                      /\ \A n \in InList \cup {head} :
                            /\ next[n] \in InList \cup {tail}
                            /\ key[n] < key[next[n]]
                            /\ \A m \in InList : key[m] <= key[n] \/ key[next[n]] <= key[m]
    BY DEF ListIsSet
  <2>1. \A t \in Threads : Owned(t) = {}
    BY DEF ListInv, OpOK, Quiet, Owned, Adds, Removes, Idle
  <2>2. List = live /\ InList = List \ {head, tail}
    BY <2>1 DEF List, InList
  <2>3. {key[n] : n \in InList} = set
    BY <2>2 DEF ListInv, ListOK
  <2>4. Cardinality(InList) = Cardinality(set)
    <3> DEFINE f == [n \in InList |-> key[n]]
    <3>1. IsFiniteSet(InList)
      BY FS_Subset DEF ListInv, TypeOK, InList
    <3>2. \A m, n \in InList : key[m] = key[n] => m = n
      BY <2>2 DEF ListInv, ListOK
    <3>3. f \in [InList -> set]
      BY <2>3
    <3>4. \A a, b \in InList : f[a] = f[b] => a = b
      BY <3>2
    <3>5. \A v \in set : \E a \in InList : f[a] = v
      BY <2>3
    <3> HIDE DEF f
    <3>6. f \in Injection(InList, set) /\ f \in Surjection(InList, set)
      BY <3>3, <3>4, <3>5 DEF Injection, Surjection, IsInjective
    <3>7. ExistsBijection(InList, set)
      BY <3>6 DEF ExistsBijection, Bijection
    <3> QED
      BY <3>1, <3>7, FS_Bijection
  <2>5. ASSUME NEW n \in InList \cup {head}
        PROVE  /\ next[n] \in InList \cup {tail}
               /\ key[n] < key[next[n]]
               /\ \A m \in InList : key[m] <= key[n] \/ key[next[n]] <= key[m]
    <3>1. n \in List \ {tail}
      BY <2>2, ListFacts, NodesAssumption
    <3>2. ~ Linking(n)
      BY DEF Linking, Quiet
    <3>3. Adjacent(n, next[n])
      BY <3>1, <3>2 DEF ListInv, ListOK
    <3>4. next[n] # head
      <4>1. key[n] \in Int /\ INT_MIN \in Int /\ INT_MIN <= key[n]
        <5>1. CASE n = head
          BY <5>1, KeysAssumption DEF ListInv, ListOK
        <5>2. CASE n # head
          <6>1. key[n] \in Keys
            BY <2>3, <5>2 DEF ListInv, TypeOK
          <6> QED
            BY <6>1, KeysAssumption
        <5> QED
          BY <5>1, <5>2
      <4> QED
        BY <3>3, <4>1 DEF Adjacent, ListInv, ListOK
    <3> QED
      BY <2>2, <3>3, <3>4 DEF Adjacent
  <2> QED
    BY <2>3, <2>4, <2>5
<1> QED
  BY <1>1, ListInvariant, PTL

-----------------------------------------------------------------------------
(* The list implements the set *)

\* The two nodes at which an operation stops tell whether its key is in the
\* set.
LEMMA FoundIsMember ==
    ASSUME ListInv, NEW t \in Threads, pc[t] = "test", ~ Before(t)
    PROVE  Found(t) <=> op[t].key \in set
<1>1. /\ Adjacent(prev[t], curr[t]) /\ curr[t] \in List /\ key[prev[t]] < op[t].key
      /\ op[t].key \in Int /\ key[prev[t]] \in Int /\ key[curr[t]] \in Int
  BY AtTest
<1>2. op[t].key <= key[curr[t]]
  BY <1>1 DEF Before
<1>3. {key[n] : n \in List \ {head, tail}} = set
  BY DEF ListInv, ListOK
<1>4. ASSUME Found(t) PROVE op[t].key \in set
  <2>1. INT_MIN < op[t].key /\ op[t].key < INT_MAX
    BY OpFacts
  <2>2. curr[t] # head /\ curr[t] # tail
    BY <1>1, <1>4, <2>1, KeysAssumption DEF Found, ListInv, ListOK
  <2> QED
    BY <1>1, <1>3, <1>4, <2>2 DEF Found
<1>5. ASSUME op[t].key \in set PROVE Found(t)
  <2>1. PICK n \in List : key[n] = op[t].key
    BY <1>3, <1>5
  <2>2. key[n] <= key[prev[t]] \/ key[curr[t]] <= key[n]
    BY <1>1 DEF Adjacent
  <2> QED
    BY <1>1, <1>2, <2>1, <2>2 DEF Found
<1> QED
  BY <1>4, <1>5

\* The instant at which an operation takes effect.
LEMMA EffectStep ==
    ASSUME ListInv, NEW t \in Threads, Decide(t) \/ LinkPrev(t) \/ Unlink(t)
    PROVE  Abstract!TakeEffect(t)
<1>0. pc[t] = "test" /\ ~ Before(t)
  BY DEF Decide, LinkPrev, Unlink, At
<1>1. Found(t) <=> op[t].key \in set
  BY <1>0, FoundIsMember
<1>2. /\ op[t] \in [type : Types, key : Keys, result : {Pending, "true", "false"}]
      /\ op[t].result = Pending /\ op[t].type \in {"A", "R", "C"}
  BY <1>0, AtTest DEF Types
<1>3. op[t] # Idle
  BY <1>2 DEF Idle
<1>a. CASE Decide(t)
  <2>1. set' = set
    BY <1>a DEF Decide
  <2>2. CASE op[t].type = "A"
    <3>1. Found(t) /\ op' = [op EXCEPT ![t].result = "false"]
      BY <1>a, <2>2 DEF Decide, Answer, Truth
    <3>2. set \cup {op[t].key} = set
      BY <1>1, <3>1
    <3>3. ((op[t].type = "A") # (op[t].key \in set)) = FALSE
      BY <1>1, <2>2, <3>1
    <3> QED
      BY <1>2, <1>3, <2>1, <2>2, <3>1, <3>2, <3>3
      DEF Abstract!TakeEffect, Abstract!Effect, Abstract!Idle, Abstract!Pending, Abstract!Truth,
          Idle, Pending
  <2>3. CASE op[t].type = "R"
    <3>1. ~ Found(t) /\ op' = [op EXCEPT ![t].result = "false"]
      BY <1>a, <2>3 DEF Decide, Answer, Truth
    <3>2. set \ {op[t].key} = set
      BY <1>1, <3>1
    <3>3. ((op[t].type = "A") # (op[t].key \in set)) = FALSE
      BY <1>1, <2>3, <3>1
    <3> QED
      BY <1>2, <1>3, <2>1, <2>3, <3>1, <3>2, <3>3
      DEF Abstract!TakeEffect, Abstract!Effect, Abstract!Idle, Abstract!Pending, Abstract!Truth,
          Idle, Pending
  <2>4. CASE op[t].type = "C"
    <3>1. op' = [op EXCEPT ![t].result = IF Found(t) THEN "true" ELSE "false"]
      BY <1>a, <2>4 DEF Decide, Answer, Truth
    <3>2. ((op[t].type = "A") # (op[t].key \in set)) = (op[t].key \in set)
      BY <2>4
    <3> QED
      BY <1>1, <1>2, <1>3, <2>1, <2>4, <3>1, <3>2
      DEF Abstract!TakeEffect, Abstract!Effect, Abstract!Idle, Abstract!Pending, Abstract!Truth,
          Idle, Pending
  <2> QED
    BY <1>2, <2>2, <2>3, <2>4
<1>b. CASE LinkPrev(t)
  <2>1. /\ op[t].type = "A" /\ ~ Found(t) /\ op' = [op EXCEPT ![t].result = "true"]
        /\ set' = set \cup {op[t].key}
    BY <1>b DEF LinkPrev, Answer, Truth
  <2>2. ((op[t].type = "A") # (op[t].key \in set)) = TRUE
    BY <1>1, <2>1
  <2> QED
    BY <1>2, <1>3, <2>1, <2>2
    DEF Abstract!TakeEffect, Abstract!Effect, Abstract!Idle, Abstract!Pending, Abstract!Truth,
        Idle, Pending
<1>c. CASE Unlink(t)
  <2>1. /\ op[t].type = "R" /\ Found(t) /\ op' = [op EXCEPT ![t].result = "true"]
        /\ set' = set \ {op[t].key}
    BY <1>c DEF Unlink, Answer, Truth
  <2>2. ((op[t].type = "A") # (op[t].key \in set)) = TRUE
    BY <1>1, <2>1
  <2> QED
    BY <1>2, <1>3, <2>1, <2>2
    DEF Abstract!TakeEffect, Abstract!Effect, Abstract!Idle, Abstract!Pending, Abstract!Truth,
        Idle, Pending
<1> QED
  BY <1>a, <1>b, <1>c

\* The operations of fine_grained.cpp are linearizable: each takes effect at
\* one instant between its call and its return, list_add at the store of
\* prev->next, list_remove at the store that unlinks the node, the others at
\* their test of the key.
THEOREM ListImplementsSet == Spec => ImplementsSet
<1>1. Init => Abstract!Init
  BY DEF Init, Abstract!Init, Idle, Abstract!Idle
<1>2. ListInv /\ [Next]_vars => [Abstract!Next]_(Abstract!vars)
  <2> SUFFICES ASSUME ListInv, [Next]_vars, UNCHANGED <<set, op>> => FALSE
               PROVE  Abstract!Next
    BY DEF Abstract!vars
  <2>1. PICK t \in Threads : Step(t)
    BY DEF Next, Ended, vars
  <2>2. ASSUME NEW type \in Types, NEW k \in Keys, Call(t, type, k) PROVE Abstract!Call(t)
    <3>1. op[t] = Idle
      BY <2>2 DEF ListInv, OpOK, Call, At
    <3> QED
      BY <2>2, <3>1 DEF Call, Abstract!Call, Abstract!Idle, Abstract!Types, Abstract!Pending,
                        Idle, Types, Pending
  <2>3. CASE Return(t)
    <3>1. op[t] # Idle /\ op[t].result # Pending
      BY <2>3 DEF ListInv, OpOK, Return, At
    <3> QED
      BY <2>3, <3>1 DEF Return, Abstract!Next, Abstract!Return, Abstract!Idle,
                        Abstract!Pending, Idle, Pending
  <2>4. CASE Decide(t) \/ LinkPrev(t) \/ Unlink(t)
    BY <2>4, EffectStep DEF Abstract!Next
  <2>5. CASE \/ LockHead(t) \/ LockCurr(t) \/ Advance(t) \/ LinkNode(t)
             \/ UnlockPrev(t) \/ UnlockCurr(t)
    BY <2>5 DEF LockHead, LockCurr, Advance, LinkNode, UnlockPrev, UnlockCurr
  <2> QED
    BY <2>1, <2>2, <2>3, <2>4, <2>5 DEF Step, Abstract!Next
<1> QED
  BY <1>1, <1>2, ListInvariant, PTL DEF Spec, ImplementsSet, Abstract!Spec

-----------------------------------------------------------------------------
(* The list of optimistic.cpp *)

LEMMA OptRuns == MCSpec => Opt!Spec
<1>1. MCInit => Opt!Init
  BY DEF MCInit
<1>2. [MCNext]_<<program, vars, optVars>> => [Opt!Next]_(Opt!vars)
  BY DEF MCNext, optVars, Opt!vars, Opt!lists
<1> QED
  BY <1>1, <1>2, PTL DEF MCSpec, Opt!Spec

\* Whichever of the two programs runs, the list of optimistic.cpp is sorted,
\* ends in tail and holds the keys that were added and not removed since.
THEOREM OptProgramHoldsSet == MCSpec => []OptListIsSet
<1>1. Opt!ConstantsOK => (Opt!Spec => []Opt!OptListIsSet)
  BY Opt!OptListHoldsSet
<1> QED
  BY <1>1, OptRuns, OptAssumption, PTL DEF OptListIsSet

\* Whichever of the two programs runs, what list_validate of optimistic.cpp
\* finds stays true while the mutexes of prev and curr are held.
THEOREM OptProgramValidates == MCSpec => []OptValidatedIsCurrent
<1>1. Opt!ConstantsOK => (Opt!Spec => []Opt!OptValidatedIsCurrent)
  BY Opt!ValidationLasts
<1> QED
  BY <1>1, OptRuns, OptAssumption, PTL DEF OptValidatedIsCurrent
=============================================================================
