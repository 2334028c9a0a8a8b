------------------------ MODULE OptimisticListProofs -------------------------
(***************************************************************************)
(* Proofs about OptimisticList for any threads, keys and number of         *)
(* operations: what list_validate has found stays true until it is used,   *)
(* and the list is sorted and is the set in every state.                   *)
(***************************************************************************)
EXTENDS OptimisticList, TLAPS

-----------------------------------------------------------------------------
(* The inductive invariant *)

Labels == {"call", "start", "walk", "lock", "validate", "decide", "link",
           "unlock", "unlock2", "retry", "retry2", "return"}

TypeOK ==
    /\ key \in [All -> Int]
    /\ next \in [All -> All \cup {None}]
    /\ mutex \in [All -> Threads \cup {None}]
    /\ pc \in [Threads -> Labels]
    /\ op \in [Threads -> {Idle} \cup [type : Types, key : Keys]]
    /\ prev \in [Threads -> All]
    /\ curr \in [Threads -> All]
    /\ it \in [Threads -> All]
    /\ i \in [Threads -> Nat]

\* The nodes that are or were in the list, or are about to be: all that a
\* thread can get to, from wherever it stands.
Linked == {n \in All : next[n] # None} \cup {Tail}

\* Links never go down, also those of nodes that were taken out.
LinksOK ==
    /\ Head \in Linked /\ key[Head] = INT_MIN /\ key[Tail] = INT_MAX
    /\ \A n \in Linked \ {Tail} : next[n] \in Linked /\ key[n] < key[next[n]]

\* The list ends in tail, its keys are those of the set, and its links are
\* the order of the keys.
ListOK ==
    /\ Tail \in Reached
    /\ \A m, n \in Reached : key[m] = key[n] => m = n
    /\ \A m \in Reached \ {Tail}, n \in Reached : key[n] <= key[m] \/ key[next[m]] <= key[n]
    /\ {key[n] : n \in InList} = set

\* A node that is not made yet has no link.
FreshOK(t) ==
    \A n \in 0..(num_work - 1) :
        n > i[t] \/ (n = i[t] /\ At(t, "call")) => next[<<t, n>>] = None

OpOK(t) ==
    ~ At(t, "call") =>
        /\ op[t] \in [type : Types, key : Keys]
        /\ i[t] < num_work
        /\ op[t].type = "A" => key[Node(t)] = op[t].key

HoldsPrev(t) == pc[t] \in {"lock", "validate", "decide", "link", "unlock", "retry"}
HoldsCurr(t) == pc[t] \in {"validate", "decide", "link", "unlock", "unlock2", "retry", "retry2"}

\* The walk stops at the key of the operation; the mutexes are those of the
\* two nodes it stopped at.
PointersOK(t) ==
    /\ At(t, "walk") \/ HoldsPrev(t) \/ HoldsCurr(t) =>
          /\ prev[t] \in Linked /\ curr[t] \in Linked
          /\ key[prev[t]] < op[t].key
    /\ HoldsPrev(t) \/ HoldsCurr(t) => key[curr[t]] >= op[t].key
    /\ HoldsPrev(t) => mutex[prev[t]] = t
    /\ HoldsCurr(t) => mutex[curr[t]] = t

\* list_validate gets to prev only if prev is in the list: otherwise prev is
\* outside of a set of nodes that the walk cannot leave.
Unreachable(t) ==
    \E S \in SUBSET All : /\ Reached \subseteq S /\ Closed(S)
                          /\ it[t] \in S /\ prev[t] \notin S

ValidOK(t) ==
    /\ At(t, "validate") => it[t] \in Linked /\ (prev[t] \in Reached \/ Unreachable(t))
    /\ pc[t] \in {"decide", "link"} => prev[t] \in Reached /\ next[prev[t]] = curr[t]
    /\ At(t, "link") => /\ op[t].type = "A" /\ key[curr[t]] # op[t].key
                        /\ Node(t) \notin Reached /\ next[Node(t)] = curr[t]

OptInv ==
    /\ TypeOK /\ LinksOK /\ ListOK
    /\ \A t \in Threads : FreshOK(t) /\ OpOK(t) /\ PointersOK(t) /\ ValidOK(t)

-----------------------------------------------------------------------------
(* What a walk from head gets to, for any links f *)

ReachedBy(f) ==
    {n \in All : \A S \in SUBSET All :
                    Head \in S /\ (\A m \in S \ {Tail} : f[m] \in S) => n \in S}

LEMMA ReachedIs == Reached = ReachedBy(next) /\ Reached' = ReachedBy(next')
BY DEF Reached, ReachedBy, Closed

LEMMA ReachedLeast ==
    ASSUME NEW f, NEW S \in SUBSET All, Head \in S, \A m \in S \ {Tail} : f[m] \in S
    PROVE  /\ Head \in ReachedBy(f) /\ ReachedBy(f) \subseteq S
           /\ \A m \in ReachedBy(f) \ {Tail} : f[m] \in ReachedBy(f)
<1>1. Head \in ReachedBy(f) /\ ReachedBy(f) \subseteq S
  BY DEF ReachedBy, All
<1>2. ASSUME NEW m \in ReachedBy(f) \ {Tail} PROVE f[m] \in ReachedBy(f)
  <2>1. f[m] \in All
    BY <1>1
  <2>2. ASSUME NEW T \in SUBSET All, Head \in T, \A l \in T \ {Tail} : f[l] \in T
        PROVE  f[m] \in T
    <3>1. m \in T
      BY <2>2 DEF ReachedBy
    <3> QED
      BY <2>2, <3>1
  <2> QED
    BY <2>1, <2>2 DEF ReachedBy
<1> QED
  BY <1>1, <1>2

\* The links of the other nodes do not matter.
LEMMA ReachedSame ==
    ASSUME NEW f, NEW g, Head \in ReachedBy(f),
           \A m \in ReachedBy(f) \ {Tail} : f[m] \in ReachedBy(f) /\ g[m] = f[m]
    PROVE  ReachedBy(g) = ReachedBy(f)
<1> DEFINE R == ReachedBy(f)
<1>0. R \in SUBSET All
  BY DEF ReachedBy
<1>1. ReachedBy(g) \subseteq R
  BY <1>0, ReachedLeast
<1>2. ASSUME NEW S \in SUBSET All, Head \in S, \A m \in S \ {Tail} : g[m] \in S
      PROVE  R \subseteq S
  <2>1. /\ S \cap R \in SUBSET All /\ Head \in S \cap R
        /\ \A m \in (S \cap R) \ {Tail} : f[m] \in S \cap R
    BY <1>2
  <2>2. R \subseteq S \cap R
    <3> HIDE DEF R
    <3> QED
      BY <2>1, ReachedLeast DEF R
  <2> QED
    BY <2>2
<1>3. R \subseteq ReachedBy(g)
  <2> SUFFICES ASSUME NEW n \in R PROVE n \in ReachedBy(g)
    OBVIOUS
  <2> HIDE DEF R
  <2> QED
    BY <1>0, <1>2 DEF ReachedBy
<1> QED
  BY <1>1, <1>3

\* A node p of the list gets the successor n, whose successor is that of p.
LEMMA ReachedLink ==
    ASSUME NEW f, NEW p \in ReachedBy(f) \ {Tail}, NEW n \in All, n # Tail, n # p,
           f[n] = f[p],
           NEW g, g[p] = n, \A m \in All \ {p} : g[m] = f[m],
           Head \in ReachedBy(f),
           \A m \in ReachedBy(f) \ {Tail} : f[m] \in ReachedBy(f)
    PROVE  ReachedBy(g) = ReachedBy(f) \cup {n}
<1> DEFINE R == ReachedBy(f)
<1>0. R \in SUBSET All
  BY DEF ReachedBy
<1>1. ReachedBy(g) \subseteq R \cup {n}
  <2> HIDE DEF R
  <2>1. /\ R \cup {n} \in SUBSET All /\ Head \in R \cup {n}
        /\ \A m \in (R \cup {n}) \ {Tail} : g[m] \in R \cup {n}
    BY <1>0 DEF R
  <2> QED
    BY <2>1, ReachedLeast
<1>2. ASSUME NEW S \in SUBSET All, Head \in S, \A m \in S \ {Tail} : g[m] \in S
      PROVE  R \cup {n} \subseteq S
  <2>1. \A m \in S \ {Tail} : f[m] \in S
    BY <1>2
  <2>2. R \subseteq S
    BY <1>2, <2>1, ReachedLeast
  <2> QED
    BY <1>2, <2>2
<1>3. R \cup {n} \subseteq ReachedBy(g)
  <2> SUFFICES ASSUME NEW m \in R \cup {n} PROVE m \in ReachedBy(g)
    OBVIOUS
  <2> HIDE DEF R
  <2> QED
    BY <1>0, <1>2 DEF ReachedBy
<1> QED
  BY <1>1, <1>3

\* A node p of the list gets the successor of its successor c, to which no
\* other link of the list goes.
LEMMA ReachedUnlink ==
    ASSUME NEW f, NEW p \in ReachedBy(f) \ {Tail}, NEW c \in ReachedBy(f) \ {Head, Tail, p},
           f[p] = c, f[c] # c,
           \A m \in ReachedBy(f) \ {Tail} : f[m] = c => m = p,
           NEW g, g[p] = f[c], \A m \in All \ {p} : g[m] = f[m],
           Head \in ReachedBy(f),
           \A m \in ReachedBy(f) \ {Tail} : f[m] \in ReachedBy(f)
    PROVE  ReachedBy(g) = ReachedBy(f) \ {c}
<1> DEFINE R == ReachedBy(f)
<1>0. R \in SUBSET All
  BY DEF ReachedBy
<1>1. ReachedBy(g) \subseteq R \ {c}
  <2> DEFINE Rest == R \ {c}
  <2> HIDE DEF R
  <2>1. /\ Rest \in SUBSET All /\ Head \in Rest
        /\ \A m \in Rest \ {Tail} : g[m] \in Rest
    BY <1>0 DEF R
  <2> HIDE DEF Rest
  <2>2. ReachedBy(g) \subseteq Rest
    BY <2>1, ReachedLeast
  <2> QED
    BY <2>2 DEF Rest
<1>2. ASSUME NEW S \in SUBSET All, Head \in S, \A m \in S \ {Tail} : g[m] \in S
      PROVE  R \ {c} \subseteq S
  <2>1. CASE p \in S
    <3>1. /\ S \cup {c} \in SUBSET All /\ Head \in S \cup {c}
          /\ \A m \in (S \cup {c}) \ {Tail} : f[m] \in S \cup {c}
      BY <1>0, <1>2, <2>1
    <3>2. R \subseteq S \cup {c}
      BY <3>1, ReachedLeast
    <3> QED
      BY <3>2
  <2>2. CASE p \notin S
    <3>1. \A m \in S \ {Tail} : f[m] \in S
      BY <1>2, <2>2
    <3>2. R \subseteq S
      BY <1>2, <3>1, ReachedLeast
    <3> QED
      BY <3>2
  <2> QED
    BY <2>1, <2>2
<1>3. R \ {c} \subseteq ReachedBy(g)
  <2> SUFFICES ASSUME NEW m \in R \ {c} PROVE m \in ReachedBy(g)
    OBVIOUS
  <2> HIDE DEF R
  <2> QED
    BY <1>0, <1>2 DEF ReachedBy
<1> QED
  BY <1>1, <1>3

-----------------------------------------------------------------------------
(* Facts *)

\* The list is made of linked nodes, and a walk does not leave it.
LEMMA ListFacts ==
    ASSUME ConstantsOK, OptInv
    PROVE  /\ Head \in Reached /\ Tail \in Reached
           /\ Reached \subseteq Linked /\ Linked \subseteq All
           /\ \A n \in Reached \ {Tail} : next[n] \in Reached
<1>1. /\ Linked \in SUBSET All /\ Head \in Linked
      /\ \A m \in Linked \ {Tail} : next[m] \in Linked
  BY DEF OptInv, LinksOK, Linked, All
<1> QED
  BY <1>1, ReachedLeast, ReachedIs DEF OptInv, ListOK

LEMMA NodeFacts ==
    ASSUME ConstantsOK, OptInv, NEW t \in Threads, ~ At(t, "call")
    PROVE  /\ Node(t) \in All /\ Node(t) # Head /\ Node(t) # Tail
           /\ i[t] \in Nat
           /\ op[t].type \in Types /\ op[t].key \in Keys
           /\ op[t].key \in Int /\ INT_MIN < op[t].key /\ op[t].key < INT_MAX
BY DEF OptInv, OpOK, TypeOK, Node, All, Added, Head, Tail, ConstantsOK

\* The two nodes at which a thread stands.
LEMMA StandFacts ==
    ASSUME ConstantsOK, OptInv, NEW t \in Threads,
           At(t, "walk") \/ HoldsPrev(t) \/ HoldsCurr(t)
    PROVE  /\ prev[t] \in Linked \ {Tail} /\ curr[t] \in Linked
           /\ prev[t] \in All /\ curr[t] \in All
           /\ key[prev[t]] \in Int /\ key[curr[t]] \in Int
           /\ next[prev[t]] \in Linked
           /\ key[prev[t]] < op[t].key
           /\ HoldsPrev(t) \/ HoldsCurr(t) => key[curr[t]] >= op[t].key /\ prev[t] # curr[t]
<1>1. ~ At(t, "call")
  BY DEF At, HoldsPrev, HoldsCurr
<1>2. /\ prev[t] \in Linked /\ curr[t] \in Linked /\ key[prev[t]] < op[t].key
      /\ HoldsPrev(t) \/ HoldsCurr(t) => key[curr[t]] >= op[t].key
  BY DEF OptInv, PointersOK
<1>3. op[t].key \in Int /\ op[t].key < INT_MAX /\ INT_MAX \in Int
  BY <1>1, NodeFacts DEF ConstantsOK
<1>4. prev[t] \in All /\ curr[t] \in All /\ key \in [All -> Int]
  BY DEF OptInv, TypeOK
<1>5. key[Tail] = INT_MAX
  BY DEF OptInv, LinksOK
<1>6. prev[t] # Tail
  BY <1>2, <1>3, <1>4, <1>5
<1> QED
  BY <1>2, <1>3, <1>4, <1>6 DEF OptInv, LinksOK

\* Between two neighbours of the list there is no key.
LEMMA NoKeyBetween ==
    ASSUME ConstantsOK, OptInv, NEW p \in Reached \ {Tail}, NEW k \in Int,
           key[p] < k, k < key[next[p]]
    PROVE  \A n \in Reached : key[n] # k
<1>1. p \in All /\ next[p] \in All /\ Reached \subseteq All
  BY ListFacts
<1>2. \A n \in Reached : key[n] \in Int
  BY <1>1 DEF OptInv, TypeOK
<1>3. key[p] \in Int /\ key[next[p]] \in Int
  BY <1>1, <1>2, ListFacts
<1> SUFFICES ASSUME NEW n \in Reached, key[n] = k PROVE FALSE
  OBVIOUS
<1>4. key[n] <= key[p] \/ key[next[p]] <= key[n]
  BY DEF OptInv, ListOK
<1> QED
  BY <1>2, <1>3, <1>4

LEMMA InitInv == ConstantsOK /\ Init => OptInv
<1> SUFFICES ASSUME ConstantsOK, Init PROVE OptInv
  OBVIOUS
<1>1. Head \in All /\ Tail \in All /\ Head # Tail /\ None \notin All
  BY DEF All, Head, Tail, ConstantsOK
<1>2. TypeOK
  BY <1>1 DEF Init, TypeOK, Labels, ConstantsOK
<1>3. Linked = {Head, Tail}
  BY <1>1 DEF Init, Linked
<1>4. LinksOK
  BY <1>1, <1>3 DEF Init, LinksOK, ConstantsOK
<1>5. Reached = {Head, Tail}
  <2>1. /\ {Head, Tail} \in SUBSET All /\ Head \in {Head, Tail}
        /\ \A m \in {Head, Tail} \ {Tail} : next[m] \in {Head, Tail}
    BY <1>1 DEF Init
  <2>2. /\ Head \in Reached /\ Reached \subseteq {Head, Tail}
        /\ \A m \in Reached \ {Tail} : next[m] \in Reached
    BY <2>1, ReachedLeast, ReachedIs
  <2>3. next[Head] = Tail
    BY <1>1 DEF Init
  <2> QED
    BY <1>1, <2>2, <2>3
<1>6. ListOK
  <2>1. key[Head] = INT_MIN /\ key[Tail] = INT_MAX /\ next[Head] = Tail /\ set = {}
    BY <1>1 DEF Init
  <2>2. InList = {}
    BY <1>5 DEF InList
  <2> QED
    BY <1>1, <1>5, <2>1, <2>2 DEF ListOK, ConstantsOK
<1>7. ASSUME NEW t \in Threads
      PROVE  FreshOK(t) /\ OpOK(t) /\ PointersOK(t) /\ ValidOK(t)
  <2>1. FreshOK(t)
    <3> SUFFICES ASSUME NEW n \in 0..(num_work - 1) PROVE next[<<t, n>>] = None
      BY DEF FreshOK
    <3>1. <<t, n>> \in All /\ <<t, n>> # Head
      BY DEF All, Added, Head, ConstantsOK
    <3> QED
      BY <3>1 DEF Init
  <2> QED
    BY <2>1 DEF Init, OpOK, PointersOK, ValidOK, At, HoldsPrev, HoldsCurr
<1> QED
  BY <1>2, <1>4, <1>6, <1>7 DEF OptInv

-----------------------------------------------------------------------------
(* Steps that leave the links alone *)

\* Thread u is where it was, and has the mutexes it had.
Stays(u) ==
    /\ pc'[u] = pc[u] /\ op'[u] = op[u] /\ prev'[u] = prev[u] /\ curr'[u] = curr[u]
    /\ it'[u] = it[u] /\ i'[u] = i[u]
    /\ \A n \in All : mutex[n] = u => mutex'[n] = u

ThreadOK(t) == FreshOK(t) /\ OpOK(t) /\ PointersOK(t) /\ ValidOK(t)

LEMMA KeepLinks ==
    ASSUME UNCHANGED next
    PROVE  Reached' = Reached /\ Linked' = Linked /\ InList' = InList
BY DEF Reached, Closed, Linked, InList

\* What t does without a store to a link or to the key of a linked node
\* concerns t only.
LEMMA KeepInv ==
    ASSUME ConstantsOK, OptInv, NEW t \in Threads,
           UNCHANGED <<next, set>>,
           \A n \in Linked : key'[n] = key[n],
           \A u \in Threads \ {t} : Stays(u) /\ key'[Node(u)] = key[Node(u)],
           TypeOK', ThreadOK(t)'
    PROVE  OptInv'
<1>1. Reached' = Reached /\ Linked' = Linked /\ InList' = InList
  BY KeepLinks
<1>2. Head \in Linked /\ Tail \in Linked /\ Reached \subseteq Linked
      /\ \A n \in Reached \ {Tail} : next[n] \in Reached
  BY ListFacts
<1>3. LinksOK'
  BY <1>1, <1>2 DEF OptInv, LinksOK
<1>4. ListOK'
  <2>1. {key'[n] : n \in InList} = {key[n] : n \in InList}
    BY <1>2 DEF InList
  <2> QED
    BY <1>1, <1>2, <2>1 DEF OptInv, ListOK
<1>5. ASSUME NEW u \in Threads \ {t}
      PROVE  FreshOK(u)' /\ OpOK(u)' /\ PointersOK(u)' /\ ValidOK(u)'
  <2>1. Stays(u) /\ key'[Node(u)] = key[Node(u)] /\ Node(u)' = Node(u)
    BY DEF Stays, Node
  <2>2. FreshOK(u) /\ OpOK(u) /\ PointersOK(u) /\ ValidOK(u)
    BY DEF OptInv
  <2>3. FreshOK(u)'
    BY <2>1, <2>2 DEF Stays, FreshOK, At
  <2>4. OpOK(u)'
    BY <2>1, <2>2 DEF Stays, OpOK, At
  <2>5. PointersOK(u)'
    <3>1. prev[u] \in All /\ curr[u] \in All
      BY DEF OptInv, TypeOK
    <3> QED
      BY <1>1, <2>1, <2>2, <3>1 DEF Stays, PointersOK, At, HoldsPrev, HoldsCurr
  <2>6. ValidOK(u)'
    <3>1. Unreachable(u) => Unreachable(u)'
      BY <1>1, <2>1 DEF Stays, Unreachable, Closed
    <3>2. At(u, "link") => key'[curr[u]] = key[curr[u]]
      BY <2>2 DEF PointersOK, At, HoldsPrev
    <3> QED
      BY <1>1, <2>1, <2>2, <3>1, <3>2 DEF Stays, ValidOK, At
  <2> QED
    BY <2>3, <2>4, <2>5, <2>6
<1> QED
  BY <1>3, <1>4, <1>5 DEF OptInv, ThreadOK

\* The same when t stays in its call and changes nothing but its pc, its
\* pointers and mutexes.
LEMMA LocalInv ==
    ASSUME ConstantsOK, OptInv, NEW t \in Threads, NEW label \in Labels,
           ~ At(t, "call"), label # "call", Goto(t, label),
           UNCHANGED <<key, next, op, i, set>>,
           \A u \in Threads \ {t} : prev'[u] = prev[u] /\ curr'[u] = curr[u] /\ it'[u] = it[u],
           \A u \in Threads \ {t} : \A n \in All : mutex[n] = u => mutex'[n] = u,
           TypeOK', PointersOK(t)', ValidOK(t)'
    PROVE  OptInv'
<1>1. pc'[t] = label /\ \A u \in Threads \ {t} : pc'[u] = pc[u]
  BY DEF Goto, OptInv, TypeOK
<1>2. Node(t)' = Node(t)
  BY DEF Node
<1>3. FreshOK(t)'
  BY <1>1 DEF OptInv, FreshOK, At
<1>4. OpOK(t)'
  BY <1>1, <1>2 DEF OptInv, OpOK, At
<1>5. \A u \in Threads \ {t} : Stays(u) /\ key'[Node(u)] = key[Node(u)]
  BY <1>1 DEF Stays
<1> QED
  BY <1>3, <1>4, <1>5, KeepInv DEF ThreadOK

LEMMA CallInv ==
    ASSUME ConstantsOK, OptInv, NEW t \in Threads, NEW type \in Types, NEW k \in Keys,
           Call(t, type, k)
    PROVE  OptInv'
<1>1. /\ pc[t] = "call" /\ pc'[t] = "start" /\ i[t] < num_work
      /\ op'[t] = [type |-> type, key |-> k]
      /\ UNCHANGED <<next, mutex, prev, curr, it, result, i, set>>
      /\ \A u \in Threads \ {t} : pc'[u] = pc[u] /\ op'[u] = op[u]
      /\ key' = IF type = "A" THEN [key EXCEPT ![Node(t)] = k] ELSE key
  BY DEF Call, Goto, At, OptInv, TypeOK
<1>2. /\ Node(t) \in All /\ Node(t) # Head /\ Node(t) # Tail
      /\ i[t] \in 0..(num_work - 1) /\ k \in Int
  BY <1>1 DEF OptInv, TypeOK, Node, All, Added, Head, Tail, ConstantsOK
<1>3. next[Node(t)] = None /\ Node(t) \notin Linked
  BY <1>1, <1>2 DEF OptInv, FreshOK, Linked, Node, At
<1>4. TypeOK'
  BY <1>1, <1>2 DEF Call, Goto, OptInv, TypeOK, Labels
<1>5. key \in [All -> Int] /\ Linked \subseteq All
  BY ListFacts DEF OptInv, TypeOK
<1>6. \A n \in Linked : key'[n] = key[n]
  BY <1>1, <1>3, <1>5
<1>7. ASSUME NEW u \in Threads \ {t} PROVE Stays(u) /\ key'[Node(u)] = key[Node(u)]
  <2>1. Node(u) # Node(t)
    BY DEF Node
  <2>2. key'[Node(u)] = key[Node(u)]
    BY <1>1, <1>5, <2>1
  <2> QED
    BY <1>1, <2>2 DEF Stays
<1>8. FreshOK(t)'
  BY <1>1 DEF OptInv, FreshOK, At
<1>9. OpOK(t)'
  <2>1. Node(t)' = Node(t)
    BY <1>1 DEF Node
  <2>2. type = "A" => key'[Node(t)] = k
    BY <1>1, <1>2, <1>5
  <2> QED
    BY <1>1, <2>1, <2>2 DEF OpOK, At
<1>10. PointersOK(t)' /\ ValidOK(t)'
  BY <1>1 DEF PointersOK, ValidOK, At, HoldsPrev, HoldsCurr
<1> QED
  BY <1>1, <1>4, <1>6, <1>7, <1>8, <1>9, <1>10, KeepInv DEF ThreadOK

LEMMA ReturnInv ==
    ASSUME ConstantsOK, OptInv, NEW t \in Threads, Return(t)
    PROVE  OptInv'
<1>1. /\ pc[t] = "return" /\ pc'[t] = "call" /\ i'[t] = i[t] + 1 /\ i[t] \in Nat
      /\ UNCHANGED <<key, next, mutex, it, set>>
      /\ \A u \in Threads \ {t} : /\ pc'[u] = pc[u] /\ op'[u] = op[u] /\ i'[u] = i[u]
                                  /\ prev'[u] = prev[u] /\ curr'[u] = curr[u]
  BY DEF Return, Goto, At, OptInv, TypeOK, lists
<1>2. TypeOK'
  BY DEF Return, Goto, OptInv, TypeOK, Labels, lists, All
<1>3. FreshOK(t)'
  BY <1>1 DEF OptInv, FreshOK, At, ConstantsOK
<1>4. OpOK(t)' /\ PointersOK(t)' /\ ValidOK(t)'
  BY <1>1 DEF OpOK, PointersOK, ValidOK, At, HoldsPrev, HoldsCurr
<1>5. \A u \in Threads \ {t} : Stays(u) /\ key'[Node(u)] = key[Node(u)]
  BY <1>1 DEF Stays
<1> QED
  BY <1>1, <1>2, <1>3, <1>4, <1>5, KeepInv DEF ThreadOK

LEMMA StartInv ==
    ASSUME ConstantsOK, OptInv, NEW t \in Threads, Start(t)
    PROVE  OptInv'
<1>1. /\ pc[t] = "start" /\ Goto(t, "walk") /\ pc'[t] = "walk"
      /\ prev'[t] = Head /\ curr'[t] = next[Head]
      /\ UNCHANGED <<key, next, mutex, it, op, i, set>>
      /\ \A u \in Threads \ {t} : prev'[u] = prev[u] /\ curr'[u] = curr[u]
  BY DEF Start, Goto, At, OptInv, TypeOK, lists, calls
<1>2. /\ Head \in Linked /\ next[Head] \in Linked /\ Head \in All /\ next[Head] \in All
      /\ key[Head] = INT_MIN
  BY ListFacts DEF OptInv, LinksOK, Head, Tail
<1>3. INT_MIN < op[t].key
  BY <1>1, NodeFacts DEF At
<1>4. TypeOK'
  BY <1>2 DEF Start, Goto, OptInv, TypeOK, Labels, lists, calls
<1>5. PointersOK(t)'
  BY <1>1, <1>2, <1>3, KeepLinks DEF PointersOK, At, HoldsPrev, HoldsCurr
<1>6. ValidOK(t)'
  BY <1>1 DEF ValidOK, At
<1> QED
  BY <1>1, <1>4, <1>5, <1>6, LocalInv DEF At, Labels

LEMMA WalkInv ==
    ASSUME ConstantsOK, OptInv, NEW t \in Threads, Walk(t)
    PROVE  OptInv'
<1>1. /\ pc[t] = "walk" /\ pc' = pc /\ key[curr[t]] < op[t].key
      /\ prev'[t] = curr[t] /\ curr'[t] = next[curr[t]]
      /\ UNCHANGED <<key, next, mutex, it, op, i, set>>
      /\ \A u \in Threads \ {t} : prev'[u] = prev[u] /\ curr'[u] = curr[u]
  BY DEF Walk, At, OptInv, TypeOK, lists, calls
<1>2. curr[t] \in Linked /\ curr[t] \in All /\ key[curr[t]] \in Int
  BY <1>1, StandFacts DEF At
<1>3. op[t].key < INT_MAX /\ op[t].key \in Int
  BY <1>1, NodeFacts DEF At
<1>4. curr[t] # Tail
  BY <1>1, <1>2, <1>3 DEF OptInv, LinksOK, ConstantsOK
<1>5. next[curr[t]] \in Linked /\ next[curr[t]] \in All
  BY <1>2, <1>4, ListFacts DEF OptInv, LinksOK
<1>6. TypeOK'
  BY <1>2, <1>5 DEF Walk, OptInv, TypeOK, lists, calls
<1>7. PointersOK(t)'
  BY <1>1, <1>2, <1>5, KeepLinks DEF PointersOK, At, HoldsPrev, HoldsCurr
<1>8. ValidOK(t)'
  BY <1>1 DEF ValidOK, At
<1>9. Goto(t, "walk")
  BY <1>1 DEF Goto, OptInv, TypeOK
<1> QED
  BY <1>1, <1>6, <1>7, <1>8, <1>9, LocalInv DEF At, Labels

LEMMA LockPrevInv ==
    ASSUME ConstantsOK, OptInv, NEW t \in Threads, LockPrev(t)
    PROVE  OptInv'
<1>1. /\ pc[t] = "walk" /\ Goto(t, "lock") /\ pc'[t] = "lock"
      /\ key[curr[t]] >= op[t].key /\ mutex[prev[t]] = None
      /\ mutex' = [mutex EXCEPT ![prev[t]] = t]
      /\ UNCHANGED <<key, next, prev, curr, it, op, i, set>>
  BY DEF LockPrev, Goto, At, OptInv, TypeOK, calls
<1>2. prev[t] \in Linked /\ curr[t] \in Linked /\ prev[t] \in All /\ key[prev[t]] < op[t].key
  BY <1>1, StandFacts DEF At
<1>3. TypeOK'
  BY <1>1, <1>2 DEF LockPrev, Goto, OptInv, TypeOK, Labels, calls
<1>4. mutex'[prev[t]] = t
  BY <1>1, <1>2 DEF OptInv, TypeOK
<1>5. \A u \in Threads \ {t} : \A n \in All : mutex[n] = u => mutex'[n] = u
  BY <1>1 DEF OptInv, TypeOK, ConstantsOK
<1>6. PointersOK(t)'
  BY <1>1, <1>2, <1>4, KeepLinks DEF PointersOK, At, HoldsPrev, HoldsCurr
<1>7. ValidOK(t)'
  BY <1>1 DEF ValidOK, At
<1> QED
  BY <1>1, <1>3, <1>5, <1>6, <1>7, LocalInv DEF At, Labels

\* The validation begins at head, from where no walk gets to a prev that is
\* not in the list.
LEMMA LockCurrInv ==
    ASSUME ConstantsOK, OptInv, NEW t \in Threads, LockCurr(t)
    PROVE  OptInv'
<1>1. /\ pc[t] = "lock" /\ Goto(t, "validate") /\ pc'[t] = "validate"
      /\ mutex[curr[t]] = None
      /\ mutex' = [mutex EXCEPT ![curr[t]] = t]
      /\ it'[t] = Head /\ \A u \in Threads \ {t} : it'[u] = it[u]
      /\ UNCHANGED <<key, next, prev, curr, op, i, set>>
  BY DEF LockCurr, Goto, At, OptInv, TypeOK, calls
<1>2. /\ prev[t] \in Linked /\ curr[t] \in Linked /\ prev[t] \in All /\ curr[t] \in All
      /\ key[prev[t]] < op[t].key /\ key[curr[t]] >= op[t].key
  BY <1>1, StandFacts DEF At, HoldsPrev
<1>3. TypeOK'
  BY <1>1, <1>2 DEF LockCurr, Goto, OptInv, TypeOK, Labels, calls, All
<1>4. mutex[prev[t]] = t
  BY <1>1 DEF OptInv, PointersOK, HoldsPrev
<1>5. mutex'[curr[t]] = t /\ mutex'[prev[t]] = t
  BY <1>1, <1>2, <1>4 DEF OptInv, TypeOK
<1>6. \A u \in Threads \ {t} : \A n \in All : mutex[n] = u => mutex'[n] = u
  BY <1>1 DEF OptInv, TypeOK, ConstantsOK
<1>7. PointersOK(t)'
  BY <1>1, <1>2, <1>5, KeepLinks DEF PointersOK, At, HoldsPrev, HoldsCurr
<1>8. ValidOK(t)'
  <2>1. Reached' = Reached /\ Linked' = Linked
    BY <1>1, KeepLinks
  <2>2. /\ Head \in Linked /\ Head \in Reached /\ Reached \in SUBSET All
        /\ \A n \in Reached \ {Tail} : next[n] \in Reached
    BY ListFacts
  <2>3. prev[t] \notin Reached => Unreachable(t)'
    BY <1>1, <2>1, <2>2 DEF Unreachable, Closed
  <2> QED
    BY <1>1, <2>1, <2>2, <2>3 DEF ValidOK, At
<1> QED
  BY <1>1, <1>3, <1>6, <1>7, <1>8, LocalInv DEF At, Labels

LEMMA ValidateNextInv ==
    ASSUME ConstantsOK, OptInv, NEW t \in Threads, ValidateNext(t)
    PROVE  OptInv'
<1>1. /\ pc[t] = "validate" /\ pc' = pc /\ key[it[t]] <= key[prev[t]]
      /\ it'[t] = next[it[t]] /\ \A u \in Threads \ {t} : it'[u] = it[u]
      /\ UNCHANGED <<key, next, mutex, prev, curr, op, i, set>>
  BY DEF ValidateNext, At, OptInv, TypeOK, lists, calls
<1>2. /\ key[prev[t]] \in Int /\ key[prev[t]] < op[t].key
      /\ op[t].key < INT_MAX /\ op[t].key \in Int
  BY <1>1, StandFacts, NodeFacts DEF At, HoldsPrev
<1>3. it[t] \in Linked /\ it[t] \in All /\ (prev[t] \in Reached \/ Unreachable(t))
  BY <1>1 DEF OptInv, ValidOK, At, TypeOK
<1>4. it[t] # Tail
  BY <1>1, <1>2, <1>3 DEF OptInv, LinksOK, ConstantsOK
<1>5. next[it[t]] \in Linked /\ next[it[t]] \in All
  BY <1>3, <1>4, ListFacts DEF OptInv, LinksOK
<1>6. TypeOK'
  BY <1>5 DEF ValidateNext, OptInv, TypeOK, lists, calls
<1>7. PointersOK(t)'
  BY <1>1, KeepLinks DEF OptInv, PointersOK, At, HoldsPrev, HoldsCurr
<1>8. ValidOK(t)'
  <2>1. Reached' = Reached /\ Linked' = Linked
    BY <1>1, KeepLinks
  <2>2. Unreachable(t) => Unreachable(t)'
    BY <1>1, <1>4, <2>1 DEF Unreachable, Closed
  <2> QED
    BY <1>1, <1>3, <1>5, <2>1, <2>2 DEF ValidOK, At
<1>9. Goto(t, "validate")
  BY <1>1 DEF Goto, OptInv, TypeOK
<1> QED
  BY <1>1, <1>6, <1>7, <1>8, <1>9, LocalInv DEF At, Labels

\* The validation has got to prev, so prev is in the list.
LEMMA ValidatedInv ==
    ASSUME ConstantsOK, OptInv, NEW t \in Threads, Validated(t)
    PROVE  OptInv'
<1> DEFINE label == IF Valid(t) THEN "decide" ELSE "retry"
<1>1. /\ pc[t] = "validate" /\ Goto(t, label) /\ pc'[t] = label
      /\ it'[t] = Head /\ \A u \in Threads \ {t} : it'[u] = it[u]
      /\ UNCHANGED <<key, next, mutex, prev, curr, op, i, set>>
  BY DEF Validated, Goto, At, OptInv, TypeOK, lists, calls
<1>2. TypeOK'
  BY DEF Validated, Goto, OptInv, TypeOK, lists, calls, Labels, All
<1>3. PointersOK(t)'
  BY <1>1, KeepLinks DEF OptInv, PointersOK, At, HoldsPrev, HoldsCurr
<1>4. ValidOK(t)'
  <2>1. Valid(t) => prev[t] \in Reached /\ next[prev[t]] = curr[t]
    BY <1>1 DEF OptInv, ValidOK, Valid, At, Unreachable
  <2> QED
    BY <1>1, <2>1, KeepLinks DEF ValidOK, At
<1> QED
  BY <1>1, <1>2, <1>3, <1>4, LocalInv DEF At, Labels

LEMMA DecideInv ==
    ASSUME ConstantsOK, OptInv, NEW t \in Threads, Decide(t)
    PROVE  OptInv'
<1>1. /\ pc[t] = "decide" /\ Goto(t, "unlock") /\ pc'[t] = "unlock"
      /\ UNCHANGED <<key, next, mutex, prev, curr, it, op, i, set>>
  BY DEF Decide, Answer, Goto, At, OptInv, TypeOK, lists
<1>2. TypeOK'
  BY <1>1 DEF Goto, OptInv, TypeOK, Labels
<1>3. PointersOK(t)' /\ ValidOK(t)'
  BY <1>1, KeepLinks DEF OptInv, PointersOK, ValidOK, At, HoldsPrev, HoldsCurr
<1> QED
  BY <1>1, <1>2, <1>3, LocalInv DEF At, Labels

LEMMA UnlockPrevInv ==
    ASSUME ConstantsOK, OptInv, NEW t \in Threads, UnlockPrev(t)
    PROVE  OptInv'
<1> DEFINE label == IF At(t, "retry") THEN "retry2" ELSE "unlock2"
<1>1. /\ pc[t] \in {"unlock", "retry"} /\ Goto(t, label) /\ pc'[t] = label
      /\ mutex' = [mutex EXCEPT ![prev[t]] = None]
      /\ UNCHANGED <<key, next, prev, curr, it, op, i, set>>
  BY DEF UnlockPrev, Goto, At, OptInv, TypeOK, calls
<1>2. prev[t] \in All /\ curr[t] \in All /\ prev[t] # curr[t]
  BY <1>1, StandFacts DEF HoldsPrev
<1>3. mutex[prev[t]] = t /\ mutex[curr[t]] = t
  BY <1>1 DEF OptInv, PointersOK, HoldsPrev, HoldsCurr
<1>4. TypeOK'
  BY <1>1 DEF Goto, OptInv, TypeOK, Labels
<1>5. /\ \A u \in Threads \ {t} : \A n \in All : mutex[n] = u => mutex'[n] = u
      /\ mutex'[curr[t]] = t
  BY <1>1, <1>2, <1>3 DEF OptInv, TypeOK
<1>6. PointersOK(t)' /\ ValidOK(t)'
  BY <1>1, <1>5, KeepLinks DEF OptInv, PointersOK, ValidOK, At, HoldsPrev, HoldsCurr
<1> QED
  BY <1>1, <1>4, <1>5, <1>6, LocalInv DEF At, Labels

LEMMA UnlockCurrInv ==
    ASSUME ConstantsOK, OptInv, NEW t \in Threads, UnlockCurr(t)
    PROVE  OptInv'
<1> DEFINE label == IF At(t, "retry2") THEN "start" ELSE "return"
<1>1. /\ pc[t] \in {"unlock2", "retry2"} /\ Goto(t, label) /\ pc'[t] = label
      /\ mutex' = [mutex EXCEPT ![curr[t]] = None]
      /\ UNCHANGED <<key, next, prev, curr, it, op, i, set>>
  BY DEF UnlockCurr, Goto, At, OptInv, TypeOK, calls
<1>2. mutex[curr[t]] = t /\ curr[t] \in All
  BY <1>1 DEF OptInv, PointersOK, HoldsCurr, TypeOK
<1>3. TypeOK'
  BY <1>1 DEF Goto, OptInv, TypeOK, Labels
<1>4. \A u \in Threads \ {t} : \A n \in All : mutex[n] = u => mutex'[n] = u
  BY <1>1, <1>2 DEF OptInv, TypeOK
<1>5. PointersOK(t)' /\ ValidOK(t)'
  BY <1>1 DEF PointersOK, ValidOK, At, HoldsPrev, HoldsCurr
<1> QED
  BY <1>1, <1>3, <1>4, <1>5, LocalInv DEF At, Labels

-----------------------------------------------------------------------------
(* Stores of links *)

\* A store to a link by t, seen by another thread: what remains to be shown
\* is what depends on the list.
LEMMA StoreInv ==
    ASSUME ConstantsOK, OptInv, NEW t \in Threads, NEW label \in Labels,
           ~ At(t, "call"), label # "call", Goto(t, label),
           UNCHANGED <<key, mutex, prev, curr, it, op, i>>,
           TypeOK', LinksOK', ListOK', Linked \subseteq Linked',
           \A u \in Threads : FreshOK(u)' /\ ValidOK(u)',
           PointersOK(t)'
    PROVE  OptInv'
<1>1. pc'[t] = label /\ \A u \in Threads \ {t} : pc'[u] = pc[u]
  BY DEF Goto, OptInv, TypeOK
<1>2. \A u \in Threads : Node(u)' = Node(u)
  BY DEF Node
<1>3. \A u \in Threads : OpOK(u)'
  BY <1>1, <1>2 DEF OptInv, OpOK, At
<1>4. \A u \in Threads \ {t} : PointersOK(u)'
  BY <1>1 DEF OptInv, PointersOK, At, HoldsPrev, HoldsCurr
<1> QED
  BY <1>3, <1>4 DEF OptInv

\* The node of t gets its link: it is not in the list yet, so the list is as
\* it was; threads that stand on it, from an earlier time, walk back into
\* the list.
LEMMA LinkNodeInv ==
    ASSUME ConstantsOK, OptInv, NEW t \in Threads, LinkNode(t)
    PROVE  OptInv'
<1> DEFINE N == Node(t)
           c == curr[t]
<1>1. /\ pc[t] = "decide" /\ Goto(t, "link") /\ pc'[t] = "link"
      /\ \A u \in Threads \ {t} : pc'[u] = pc[u]
      /\ op[t].type = "A" /\ key[c] # op[t].key
      /\ next' = [next EXCEPT ![N] = c]
      /\ UNCHANGED <<key, mutex, prev, curr, it, op, i, set>>
  BY DEF LinkNode, Found, Goto, At, OptInv, TypeOK, calls
<1>2. /\ N \in All /\ N # Head /\ N # Tail /\ op[t].key \in Int
      /\ key[N] = op[t].key
  BY <1>1, NodeFacts DEF At, OptInv, OpOK
<1>3. /\ prev[t] \in Reached \ {Tail} /\ next[prev[t]] = c /\ c \in Reached
      /\ key[prev[t]] < op[t].key /\ op[t].key < key[c]
      /\ c \in Linked /\ c \in All
  <2>1. prev[t] \in Reached /\ next[prev[t]] = c
    BY <1>1 DEF OptInv, ValidOK
  <2>2. /\ prev[t] # Tail /\ key[prev[t]] < op[t].key /\ key[c] >= op[t].key
        /\ key[c] \in Int /\ c \in Linked /\ c \in All
    BY <1>1, StandFacts DEF HoldsPrev
  <2> QED
    BY <1>1, <1>2, <2>1, <2>2, ListFacts
<1>4. N \notin Reached
  BY <1>2, <1>3, NoKeyBetween
<1>5. next'[N] = c /\ \A n \in All \ {N} : next'[n] = next[n]
  BY <1>1, <1>2 DEF OptInv, TypeOK
<1>6. Reached' = Reached /\ InList' = InList
  <2>1. /\ Head \in Reached /\ Reached \subseteq All
        /\ \A n \in Reached \ {Tail} : next[n] \in Reached
    BY ListFacts
  <2>2. \A n \in Reached \ {Tail} : next'[n] = next[n]
    BY <1>4, <1>5, <2>1
  <2>3. Reached' = Reached
    BY <2>1, <2>2, ReachedSame, ReachedIs
  <2> QED
    BY <2>3 DEF InList
<1>7. Linked' = Linked \cup {N}
  BY <1>2, <1>3, <1>5 DEF Linked, ConstantsOK
<1>8. TypeOK'
  BY <1>1, <1>3 DEF Goto, OptInv, TypeOK, Labels
<1>9. LinksOK'
  <2>1. Linked \subseteq All
    BY ListFacts
  <2>2. ASSUME NEW n \in Linked' \ {Tail}
        PROVE  next'[n] \in Linked' /\ key[n] < key[next'[n]]
    <3>1. CASE n = N
      BY <1>2, <1>3, <1>5, <1>7, <3>1
    <3>2. CASE n # N
      BY <1>5, <1>7, <2>1, <3>2 DEF OptInv, LinksOK
    <3> QED
      BY <3>1, <3>2
  <2> QED
    BY <1>1, <1>7, <2>2 DEF OptInv, LinksOK
<1>10. ListOK'
  <2>1. \A n \in Reached \ {Tail} : next'[n] = next[n]
    BY <1>4, <1>5, ListFacts
  <2> QED
    BY <1>1, <1>6, <2>1 DEF OptInv, ListOK
<1>11. ASSUME NEW u \in Threads PROVE FreshOK(u)'
  <2> SUFFICES ASSUME NEW n \in 0..(num_work - 1),
                      n > i[u] \/ (n = i[u] /\ pc'[u] = "call")
               PROVE  next'[<<u, n>>] = None
    BY <1>1 DEF FreshOK, At
  <2>1. next[<<u, n>>] = None
    BY <1>1 DEF OptInv, FreshOK, At
  <2>2. i[u] \in Nat
    BY DEF OptInv, TypeOK
  <2>3. <<u, n>> # N /\ <<u, n>> \in All
    BY <1>1, <2>2 DEF Node, All, Added
  <2> QED
    BY <1>5, <2>1, <2>3
<1>12. ASSUME NEW u \in Threads PROVE ValidOK(u)'
  <2>1. Node(u)' = Node(u)
    BY <1>1 DEF Node
  <2>2. CASE u = t
    BY <1>1, <1>3, <1>4, <1>5, <1>6, <2>1, <2>2, ListFacts DEF ValidOK, At
  <2>3. CASE u # t
    <3>1. Node(u) # N
      BY <2>3 DEF Node
    <3>2. pc[u] \in {"decide", "link"} => /\ prev[u] \in Reached /\ next'[prev[u]] = curr[u]
      BY <1>4, <1>5, ListFacts DEF OptInv, ValidOK
    <3>3. pc[u] = "link" => next'[Node(u)] = curr[u] /\ Node(u) \notin Reached
      BY <1>5, <3>1, NodeFacts DEF OptInv, ValidOK, At
    <3>4. Unreachable(u) => Unreachable(u)'
      BY <1>1, <1>3, <1>5, <1>6 DEF Unreachable, Closed
    <3> QED
      BY <1>1, <1>6, <1>7, <2>1, <2>3, <3>2, <3>3, <3>4 DEF OptInv, ValidOK, At
  <2> QED
    BY <2>2, <2>3
<1>13. PointersOK(t)'
  BY <1>1, <1>7 DEF OptInv, PointersOK, At, HoldsPrev, HoldsCurr
<1> QED
  BY <1>1, <1>7, <1>8, <1>9, <1>10, <1>11, <1>12, <1>13, StoreInv DEF At, Labels

\* The node of t enters the list, after prev.
LEMMA LinkPrevInv ==
    ASSUME ConstantsOK, OptInv, NEW t \in Threads, LinkPrev(t)
    PROVE  OptInv'
<1> DEFINE N == Node(t)
           p == prev[t]
           c == curr[t]
<1>1. /\ pc[t] = "link" /\ Goto(t, "retry") /\ pc'[t] = "retry"
      /\ \A u \in Threads \ {t} : pc'[u] = pc[u]
      /\ next' = [next EXCEPT ![p] = N]
      /\ set' = set \cup {op[t].key}
      /\ UNCHANGED <<key, mutex, prev, curr, it, op, i>>
  BY DEF LinkPrev, Goto, At, OptInv, TypeOK
<1>2. /\ op[t].type = "A" /\ key[c] # op[t].key
      /\ p \in Reached /\ next[p] = c
      /\ N \notin Reached /\ next[N] = c
  BY <1>1 DEF OptInv, ValidOK, At
<1>3. /\ N \in All /\ N # Head /\ N # Tail /\ op[t].key \in Int
      /\ key[N] = op[t].key
  BY <1>1, <1>2, NodeFacts DEF At, OptInv, OpOK
<1>4. /\ p # Tail /\ p \in All /\ c \in Reached /\ c \in All /\ c \in Linked
      /\ key[p] < op[t].key /\ op[t].key < key[c]
      /\ key[p] \in Int /\ key[c] \in Int
  BY <1>1, <1>2, <1>3, StandFacts, ListFacts DEF HoldsPrev
<1>5. next'[p] = N /\ \A n \in All \ {p} : next'[n] = next[n]
  BY <1>1, <1>4 DEF OptInv, TypeOK
<1>6. N # p /\ N # c
  BY <1>2, <1>4
<1>7. /\ Head \in Reached /\ Tail \in Reached /\ Reached \subseteq Linked /\ Linked \subseteq All
      /\ \A n \in Reached \ {Tail} : next[n] \in Reached
  BY ListFacts
<1>8. Reached' = Reached \cup {N}
  BY <1>2, <1>3, <1>4, <1>5, <1>6, <1>7, ReachedLink, ReachedIs
<1>9. N \in Linked
  BY <1>2, <1>3, <1>4 DEF Linked, ConstantsOK
<1>10. Linked' = Linked
  BY <1>2, <1>3, <1>4, <1>5, <1>7 DEF Linked, ConstantsOK
<1>11. TypeOK'
  BY <1>1, <1>3 DEF Goto, OptInv, TypeOK, Labels
<1>12. LinksOK'
  <2>1. ASSUME NEW n \in Linked \ {Tail} PROVE next'[n] \in Linked /\ key[n] < key[next'[n]]
    <3>1. CASE n = p
      BY <1>3, <1>4, <1>5, <1>9, <3>1
    <3>2. CASE n # p
      BY <1>5, <1>7, <3>2 DEF OptInv, LinksOK
    <3> QED
      BY <3>1, <3>2
  <2> QED
    BY <1>1, <1>10, <2>1 DEF OptInv, LinksOK
<1>13. ListOK'
  <2>1. \A n \in Reached : key[n] \in Int /\ key[n] # op[t].key
    <3>1. \A n \in Reached : key[n] \in Int
      BY <1>7 DEF OptInv, TypeOK
    <3> QED
      BY <1>2, <1>3, <1>4, <3>1, NoKeyBetween
  <2>2. \A m, n \in Reached' : key[m] = key[n] => m = n
    BY <1>3, <1>8, <2>1 DEF OptInv, ListOK
  <2>3. \A n \in Reached : key[n] <= key[p] \/ key[c] <= key[n]
    BY <1>2, <1>4 DEF OptInv, ListOK
  <2>4. ASSUME NEW m \in Reached' \ {Tail}, NEW n \in Reached'
        PROVE  key[n] <= key[m] \/ key[next'[m]] <= key[n]
    <3>1. CASE m = p
      BY <1>3, <1>4, <1>5, <1>8, <2>1, <2>3, <3>1
    <3>2. CASE m = N
      BY <1>2, <1>3, <1>4, <1>5, <1>6, <1>8, <2>1, <2>3, <3>2
    <3>3. CASE m \in Reached \ {p, Tail}
      <4>1. next'[m] = next[m] /\ next[m] \in Reached
        BY <1>5, <1>7, <3>3
      <4>2. \A l \in Reached : key[l] <= key[m] \/ key[next[m]] <= key[l]
        BY <3>3 DEF OptInv, ListOK
      <4>3. CASE n \in Reached
        BY <4>1, <4>2, <4>3
      <4>4. CASE n = N
        <5>1. key[p] <= key[m] \/ key[next[m]] <= key[p]
          BY <1>2, <4>2
        <5>2. key[m] <= key[p] \/ key[c] <= key[m]
          BY <2>3, <3>3
        <5>3. key[m] # key[p]
          BY <1>2, <3>3 DEF OptInv, ListOK
        <5>4. key[m] \in Int /\ key[next[m]] \in Int
          BY <2>1, <3>3, <4>1
        <5> QED
          BY <1>3, <1>4, <4>1, <4>4, <5>1, <5>2, <5>3, <5>4
      <4> QED
        BY <1>8, <4>3, <4>4
    <3> QED
      BY <1>8, <3>1, <3>2, <3>3
  <2>5. {key[n] : n \in InList'} = set'
    <3>1. InList' = InList \cup {N}
      BY <1>3, <1>8 DEF InList
    <3>2. {key[n] : n \in InList} = set
      BY DEF OptInv, ListOK
    <3> QED
      BY <1>1, <1>3, <3>1, <3>2
  <2> QED
    BY <1>1, <1>7, <1>8, <2>2, <2>4, <2>5 DEF ListOK
<1>14. ASSUME NEW u \in Threads PROVE FreshOK(u)'
  <2> SUFFICES ASSUME NEW n \in 0..(num_work - 1),
                      n > i[u] \/ (n = i[u] /\ pc'[u] = "call")
               PROVE  next'[<<u, n>>] = None
    BY <1>1 DEF FreshOK, At
  <2>1. next[<<u, n>>] = None /\ <<u, n>> \in All
    BY <1>1 DEF OptInv, FreshOK, At, All, Added
  <2>2. <<u, n>> # p
    BY <1>2, <1>4, <2>1 DEF ConstantsOK
  <2> QED
    BY <1>5, <2>1, <2>2
<1>15. ASSUME NEW u \in Threads PROVE ValidOK(u)'
  <2>1. Node(u)' = Node(u)
    BY <1>1 DEF Node
  <2>2. CASE u = t
    BY <1>1, <2>2 DEF ValidOK, At
  <2>3. CASE u # t
    <3>1. Node(u) # N /\ mutex[p] = t
      BY <1>1, <2>3 DEF Node, OptInv, PointersOK, HoldsPrev
    <3>2. pc[u] \in {"decide", "link"} => /\ prev[u] \in Reached /\ next'[prev[u]] = curr[u]
      <4> SUFFICES ASSUME pc[u] \in {"decide", "link"}
                   PROVE  prev[u] \in Reached /\ next'[prev[u]] = curr[u]
        OBVIOUS
      <4>1. mutex[prev[u]] = u /\ prev[u] \in Reached /\ next[prev[u]] = curr[u]
        BY DEF OptInv, PointersOK, ValidOK, HoldsPrev
      <4> QED
        BY <1>5, <1>7, <2>3, <3>1, <4>1
    <3>3. pc[u] = "link" => next'[Node(u)] = curr[u] /\ Node(u) \notin Reached'
      BY <1>2, <1>5, <1>8, <3>1, NodeFacts DEF OptInv, ValidOK, At
    <3>4. prev[u] \in Reached' \/ (Unreachable(u) => Unreachable(u)')
      <4> SUFFICES ASSUME prev[u] # N, Unreachable(u) PROVE Unreachable(u)'
        BY <1>8
      <4>1. PICK S \in SUBSET All : /\ Reached \subseteq S /\ Closed(S)
                                    /\ it[u] \in S /\ prev[u] \notin S
        BY DEF Unreachable
      <4> DEFINE T == S \cup {N}
      <4>2. T \in SUBSET All /\ Reached' \subseteq T /\ it'[u] \in T /\ prev'[u] \notin T
        BY <1>1, <1>3, <1>8, <4>1
      <4>3. \A n \in T \ {Tail} : next'[n] \in T
        BY <1>2, <1>3, <1>4, <1>5, <1>6, <4>1 DEF Closed
      <4> HIDE DEF T
      <4> QED
        BY <4>2, <4>3 DEF Unreachable, Closed
    <3>5. prev[u] \in Reached => prev[u] \in Reached'
      BY <1>8
    <3> QED
      BY <1>1, <1>10, <2>1, <2>3, <3>2, <3>3, <3>4, <3>5 DEF OptInv, ValidOK, At
  <2> QED
    BY <2>2, <2>3
<1>16. PointersOK(t)'
  BY <1>1, <1>10 DEF OptInv, PointersOK, At, HoldsPrev, HoldsCurr
<1> QED
  BY <1>1, <1>10, <1>11, <1>12, <1>13, <1>14, <1>15, <1>16, StoreInv DEF At, Labels

\* curr leaves the list; its own link stays, and leads back into the list.
LEMMA UnlinkInv ==
    ASSUME ConstantsOK, OptInv, NEW t \in Threads, Unlink(t)
    PROVE  OptInv'
<1> DEFINE p == prev[t]
           c == curr[t]
           d == next[c]
<1>1. /\ pc[t] = "decide" /\ Goto(t, "unlock") /\ pc'[t] = "unlock"
      /\ \A u \in Threads \ {t} : pc'[u] = pc[u]
      /\ key[c] = op[t].key
      /\ next' = [next EXCEPT ![p] = d]
      /\ set' = set \ {op[t].key}
      /\ UNCHANGED <<key, mutex, prev, curr, it, op, i>>
  BY DEF Unlink, Answer, Found, Goto, At, OptInv, TypeOK
<1>2. p \in Reached /\ next[p] = c
  BY <1>1 DEF OptInv, ValidOK
<1>3. /\ p # Tail /\ p \in All /\ c \in Reached /\ c \in All /\ p # c
      /\ key[p] < key[c] /\ key[p] \in Int /\ key[c] \in Int
  BY <1>1, <1>2, StandFacts, ListFacts DEF HoldsPrev
<1>4. c # Head /\ c # Tail
  <2>1. INT_MIN < op[t].key /\ op[t].key < INT_MAX
    BY <1>1, NodeFacts DEF At
  <2> QED
    BY <1>1, <2>1 DEF OptInv, LinksOK, ConstantsOK
<1>5. /\ Head \in Reached /\ Tail \in Reached /\ Reached \subseteq Linked /\ Linked \subseteq All
      /\ \A n \in Reached \ {Tail} : next[n] \in Reached
  BY ListFacts
<1>6. /\ d \in Reached /\ d \in All /\ key[c] < key[d] /\ key[d] \in Int /\ d # c
  <2>1. d \in Reached /\ key[c] < key[d]
    BY <1>3, <1>4, <1>5 DEF OptInv, LinksOK
  <2>2. d \in All /\ key[d] \in Int
    BY <1>5, <2>1 DEF OptInv, TypeOK
  <2> QED
    BY <1>3, <2>1, <2>2
<1>7. next'[p] = d /\ \A n \in All \ {p} : next'[n] = next[n]
  BY <1>1, <1>3 DEF OptInv, TypeOK
<1>8. \A n \in Reached : key[n] \in Int
  BY <1>5 DEF OptInv, TypeOK
<1>9. ASSUME NEW m \in Reached \ {Tail}, next[m] = c PROVE m = p
  <2>1. key[p] <= key[m] \/ key[c] <= key[p]
    BY <1>2, <1>9 DEF OptInv, ListOK
  <2>2. key[m] <= key[p] \/ key[c] <= key[m]
    BY <1>2, <1>3 DEF OptInv, ListOK
  <2>3. key[m] < key[c]
    BY <1>5, <1>9 DEF OptInv, LinksOK
  <2>4. key[m] = key[p]
    BY <1>3, <1>8, <2>1, <2>2, <2>3
  <2> QED
    BY <1>2, <2>4 DEF OptInv, ListOK
<1>10. Reached' = Reached \ {c}
  BY <1>2, <1>3, <1>4, <1>5, <1>6, <1>7, <1>9, ReachedUnlink, ReachedIs
<1>11. Linked' = Linked
  BY <1>2, <1>3, <1>6, <1>7 DEF Linked, ConstantsOK
<1>12. TypeOK'
  BY <1>1, <1>6 DEF Goto, OptInv, TypeOK, Labels
<1>13. LinksOK'
  <2>1. ASSUME NEW n \in Linked \ {Tail} PROVE next'[n] \in Linked /\ key[n] < key[next'[n]]
    <3>1. CASE n = p
      BY <1>3, <1>5, <1>6, <1>7, <3>1
    <3>2. CASE n # p
      BY <1>5, <1>7, <3>2 DEF OptInv, LinksOK
    <3> QED
      BY <3>1, <3>2
  <2> QED
    BY <1>1, <1>11, <2>1 DEF OptInv, LinksOK
<1>14. ListOK'
  <2>1. \A m, n \in Reached' : key[m] = key[n] => m = n
    BY <1>10 DEF OptInv, ListOK
  <2>2. ASSUME NEW m \in Reached' \ {Tail}, NEW n \in Reached'
        PROVE  key[n] <= key[m] \/ key[next'[m]] <= key[n]
    <3>0. m \in Reached \ {Tail} /\ n \in Reached /\ n # c
      BY <1>10
    <3>1. CASE m = p
      <4>1. key[n] <= key[p] \/ key[c] <= key[n]
        BY <1>2, <1>3, <3>0 DEF OptInv, ListOK
      <4>2. key[n] <= key[c] \/ key[d] <= key[n]
        BY <1>3, <1>4, <3>0 DEF OptInv, ListOK
      <4>3. key[n] # key[c]
        BY <1>3, <3>0 DEF OptInv, ListOK
      <4> QED
        BY <1>3, <1>6, <1>7, <1>8, <3>0, <3>1, <4>1, <4>2, <4>3
    <3>2. CASE m # p
      <4>1. next'[m] = next[m]
        BY <1>5, <1>7, <3>0, <3>2
      <4> QED
        BY <3>0, <4>1 DEF OptInv, ListOK
    <3> QED
      BY <3>1, <3>2
  <2>3. {key[n] : n \in InList'} = set'
    <3>1. InList' = InList \ {c} /\ c \in InList
      BY <1>3, <1>4, <1>10 DEF InList
    <3>2. {key[n] : n \in InList} = set
      BY DEF OptInv, ListOK
    <3>3. \A n \in InList : key[n] = key[c] => n = c
      BY <1>3 DEF OptInv, ListOK, InList
    <3> QED
      BY <1>1, <3>1, <3>2, <3>3
  <2> QED
    BY <1>1, <1>4, <1>5, <1>10, <2>1, <2>2, <2>3 DEF ListOK
<1>15. ASSUME NEW u \in Threads PROVE FreshOK(u)'
  <2> SUFFICES ASSUME NEW n \in 0..(num_work - 1),
                      n > i[u] \/ (n = i[u] /\ pc'[u] = "call")
               PROVE  next'[<<u, n>>] = None
    BY <1>1 DEF FreshOK, At
  <2>1. next[<<u, n>>] = None /\ <<u, n>> \in All
    BY <1>1 DEF OptInv, FreshOK, At, All, Added
  <2>2. <<u, n>> # p
    BY <1>2, <1>3, <2>1 DEF ConstantsOK
  <2> QED
    BY <1>7, <2>1, <2>2
<1>16. ASSUME NEW u \in Threads PROVE ValidOK(u)'
  <2>1. Node(u)' = Node(u)
    BY <1>1 DEF Node
  <2>2. CASE u = t
    BY <1>1, <2>2 DEF ValidOK, At
  <2>3. CASE u # t
    <3>1. mutex[p] = t /\ mutex[c] = t
      BY <1>1 DEF OptInv, PointersOK, HoldsPrev, HoldsCurr
    <3>2. HoldsPrev(u) => prev[u] # p /\ prev[u] # c
      BY <2>3, <3>1 DEF OptInv, PointersOK
    <3>3. pc[u] \in {"decide", "link"} => /\ prev[u] \in Reached' /\ next'[prev[u]] = curr[u]
      BY <1>5, <1>7, <1>10, <3>2 DEF OptInv, ValidOK, HoldsPrev
    <3>4. pc[u] = "link" => next'[Node(u)] = curr[u] /\ Node(u) \notin Reached'
      BY <1>2, <1>7, <1>10, NodeFacts DEF OptInv, ValidOK, At
    <3>5. Unreachable(u) => Unreachable(u)'
      BY <1>1, <1>3, <1>6, <1>7, <1>10 DEF Unreachable, Closed
    <3>6. pc[u] = "validate" /\ prev[u] \in Reached => prev[u] \in Reached'
      BY <1>10, <3>2 DEF HoldsPrev
    <3> QED
      BY <1>1, <1>11, <2>1, <2>3, <3>3, <3>4, <3>5, <3>6 DEF OptInv, ValidOK, At
  <2> QED
    BY <2>2, <2>3
<1>17. PointersOK(t)'
  BY <1>1, <1>11 DEF OptInv, PointersOK, At, HoldsPrev, HoldsCurr
<1> QED
  BY <1>1, <1>11, <1>12, <1>13, <1>14, <1>15, <1>16, <1>17, StoreInv DEF At, Labels

LEMMA StepInv == ConstantsOK /\ OptInv /\ [Next]_vars => OptInv'
<1> SUFFICES ASSUME ConstantsOK, OptInv, [Next]_vars PROVE OptInv'
  OBVIOUS
<1>1. ASSUME NEW t \in Threads, Step(t) PROVE OptInv'
  BY <1>1, CallInv, StartInv, WalkInv, LockPrevInv, LockCurrInv, ValidateNextInv,
     ValidatedInv, DecideInv, LinkNodeInv, LinkPrevInv, UnlinkInv, UnlockPrevInv,
     UnlockCurrInv, ReturnInv DEF Step
<1>2. CASE UNCHANGED vars
  <2>1. Reached' = Reached /\ Linked' = Linked /\ InList' = InList
    BY <1>2, KeepLinks DEF vars, lists
  <2>2. TypeOK' /\ LinksOK' /\ ListOK'
    BY <1>2, <2>1 DEF vars, lists, OptInv, TypeOK, LinksOK, ListOK
  <2>3. ASSUME NEW t \in Threads PROVE FreshOK(t)' /\ OpOK(t)' /\ PointersOK(t)' /\ ValidOK(t)'
    <3>1. FreshOK(t)' /\ OpOK(t)'
      BY <1>2 DEF vars, lists, OptInv, FreshOK, OpOK, At, Node
    <3>2. PointersOK(t)'
      BY <1>2, <2>1 DEF vars, lists, OptInv, PointersOK, At, HoldsPrev, HoldsCurr
    <3>3. Unreachable(t) => Unreachable(t)'
      BY <1>2, <2>1 DEF vars, lists, Unreachable, Closed
    <3>4. ValidOK(t)'
      BY <1>2, <2>1, <3>3 DEF vars, lists, OptInv, ValidOK, At, Node
    <3> QED
      BY <3>1, <3>2, <3>4
  <2> QED
    BY <2>2, <2>3 DEF OptInv
<1> QED
  BY <1>1, <1>2 DEF Next, Ended

-----------------------------------------------------------------------------
(* Theorems *)

\* The list of optimistic.cpp keeps its invariant: links go up, also from
\* nodes that were taken out; the list is the order of the keys of the set;
\* and a walk of list_validate gets to prev only while prev is in the list.
THEOREM OptInvariant == ConstantsOK => (Spec => []OptInv)
<1> HAVE ConstantsOK
<1>1. Init => OptInv
  BY InitInv
<1>2. OptInv /\ [Next]_vars => OptInv'
  BY StepInv
<1> QED
  BY <1>1, <1>2, PTL DEF Spec

\* The list of optimistic.cpp is sorted, ends in tail and holds the keys that
\* were added and not removed since, in every state and for any threads.
THEOREM OptListHoldsSet == ConstantsOK => (Spec => []OptListIsSet)
<1> HAVE ConstantsOK
<1>1. OptInv => OptListIsSet
  <2> SUFFICES ASSUME OptInv PROVE OptListIsSet
    OBVIOUS
  <2>1. \A n \in Reached \ {Tail} : key[n] < key[next[n]]
    BY ListFacts DEF OptInv, LinksOK
  <2> QED
    BY <2>1 DEF OptInv, ListOK, OptListIsSet
<1> QED
  BY <1>1, OptInvariant, PTL

\* What list_validate of optimistic.cpp finds stays true while the mutexes of
\* prev and curr are held, whatever the others add and remove around them, and
\* the key of curr tells whether the key of the operation is in the set.
THEOREM ValidationLasts == ConstantsOK => (Spec => []OptValidatedIsCurrent)
<1> HAVE ConstantsOK
<1>1. OptInv => OptValidatedIsCurrent
  <2> SUFFICES ASSUME OptInv, NEW t \in Threads, pc[t] \in {"decide", "link"}
               PROVE  /\ prev[t] \in InList \cup {Head} /\ next[prev[t]] = curr[t]
                      /\ Found(t) <=> op[t].key \in set
    BY DEF OptValidatedIsCurrent
  <2>1. /\ prev[t] # Tail /\ key[prev[t]] < op[t].key /\ op[t].key <= key[curr[t]]
        /\ key[prev[t]] \in Int /\ key[curr[t]] \in Int
    BY StandFacts DEF HoldsPrev
  <2>2. prev[t] \in Reached /\ next[prev[t]] = curr[t]
    BY DEF OptInv, ValidOK
  <2>3. op[t].key \in Int /\ INT_MIN < op[t].key /\ op[t].key < INT_MAX
    BY NodeFacts DEF At
  <2>4. Found(t) => op[t].key \in set
    <3>1. curr[t] \in Reached
      BY <2>1, <2>2, ListFacts
    <3>2. Found(t) => curr[t] \in InList
      BY <2>3, <3>1 DEF Found, InList, OptInv, LinksOK, ConstantsOK
    <3> QED
      BY <3>2 DEF Found, OptInv, ListOK
  <2>5. op[t].key \in set => Found(t)
    <3> SUFFICES ASSUME op[t].key \in set, key[curr[t]] # op[t].key PROVE FALSE
      BY DEF Found
    <3>1. \A n \in Reached : key[n] # op[t].key
      BY <2>1, <2>2, <2>3, NoKeyBetween
    <3> QED
      BY <3>1 DEF OptInv, ListOK, InList
  <2> QED
    BY <2>1, <2>2, <2>4, <2>5 DEF InList
<1> QED
  BY <1>1, OptInvariant, PTL
=============================================================================
