-------------------------- MODULE RWLockTableProofs --------------------------
(***************************************************************************)
(* Proofs about RWLockTable for any finite set of threads and any set of   *)
(* records: LockInv is an inductive invariant, and what follows from it.   *)
(*                                                                         *)
(* They rest on lemmas about wait-for graphs of any set of threads (which  *)
(* changes keep a graph free of cycles, and that a finite graph without    *)
(* cycles has a thread that waits for nobody) and about wait queues of any *)
(* length (what appending and erasing an entry does to the requests around *)
(* it).                                                                    *)
(***************************************************************************)
EXTENDS RWLockTable, FiniteSets, FiniteSetTheorems, WellFoundedInduction, TLAPS

-----------------------------------------------------------------------------
(* Wait-for graphs *)

\* Taking edges away (unlock, clear_abort) closes no cycle.
LEMMA FewerEdgesAcyclic ==
    ASSUME NEW g \in Graphs, NEW h \in Graphs,
           \A x \in Threads : h[x] \subseteq g[x],
           Acyclic(g)
    PROVE  Acyclic(h)
<1> SUFFICES ASSUME NEW t \in Threads
             PROVE  ~Reaches(h, t, t)
    BY DEF Acyclic, HasCycle
<1>1. PICK S \in SUBSET Threads : g[t] \subseteq S /\ ClosedUnder(g, S) /\ t \notin S
    BY DEF Acyclic, HasCycle, Reaches
<1>2. h[t] \subseteq S /\ ClosedUnder(h, S)
    BY <1>1 DEF ClosedUnder
<1> QED
    BY <1>1, <1>2 DEF Reaches

\* Adding the edges of one thread to a graph without cycles gives a graph
\* without cycles if there is none through that thread: the reason why
\* is_deadlock_exist need only search from the caller.
LEMMA AddEdgesAcyclic ==
    ASSUME NEW g \in Graphs, NEW t \in Threads, NEW D \in SUBSET Threads,
           Acyclic(g),
           ~HasCycle(AddEdges(g, t, D), t)
    PROVE  Acyclic(AddEdges(g, t, D))
<1> DEFINE h == AddEdges(g, t, D)
<1>1. h \in Graphs /\ h[t] = g[t] \cup D /\ \A x \in Threads \ {t} : h[x] = g[x]
    BY DEF AddEdges, Graphs
<1> HIDE DEF h
<1>2. ~HasCycle(h, t)
    BY DEF h
<1> SUFFICES ASSUME NEW x \in Threads, x # t
             PROVE  ~Reaches(h, x, x)
    BY <1>2 DEF Acyclic, HasCycle, h
<1>3. PICK T \in SUBSET Threads : h[t] \subseteq T /\ ClosedUnder(h, T) /\ t \notin T
    BY <1>2 DEF HasCycle, Reaches
<1>4. PICK S \in SUBSET Threads : g[x] \subseteq S /\ ClosedUnder(g, S) /\ x \notin S
    BY DEF Acyclic, HasCycle, Reaches
\* A set that no edge leaves and that holds h[x] but not x.
<1>5. CASE t \notin S
    <2>1. h[x] \subseteq S /\ ClosedUnder(h, S)
        BY <1>1, <1>4, <1>5 DEF ClosedUnder
    <2> QED
        BY <2>1, <1>4 DEF Reaches
<1>6. CASE t \in S /\ x \notin T
    <2>1. h[x] \subseteq S \cup T /\ ClosedUnder(h, S \cup T) /\ x \notin S \cup T
        BY <1>1, <1>3, <1>4, <1>6 DEF ClosedUnder
    <2> QED
        BY <2>1 DEF Reaches
<1>7. CASE t \in S /\ x \in T
    <2>1. h[x] \subseteq S \cap T /\ ClosedUnder(h, S \cap T) /\ x \notin S \cap T
        BY <1>1, <1>3, <1>4, <1>7 DEF ClosedUnder
    <2> QED
        BY <2>1 DEF Reaches
<1> QED
    BY <1>5, <1>6, <1>7

\* A finite graph without cycles has a thread that waits for nobody: among the
\* nonempty sets that no edge leaves, a smallest one could be made smaller.
LEMMA AcyclicHasSink ==
    ASSUME IsFiniteSet(Threads), Threads # {},
           NEW g \in Graphs, Acyclic(g)
    PROVE  \E t \in Threads : g[t] = {}
<1> SUFFICES ASSUME \A t \in Threads : g[t] # {}
             PROVE  FALSE
    OBVIOUS
<1> DEFINE R == StrictSubsetOrdering(Threads)
           T == {C \in SUBSET Threads : C # {} /\ ClosedUnder(g, C)}
<1>1. IsWellFoundedOn(R, FiniteSubsetsOf(Threads))
    BY FS_StrictSubsetOrderingWellFounded
<1>2. T \subseteq FiniteSubsetsOf(Threads)
    BY FS_Subset DEF FiniteSubsetsOf
<1>3. Threads \in T
    BY DEF Graphs, ClosedUnder
<1> HIDE DEF R
<1>4. PICK C \in T : \A B \in T : ~(<<B, C>> \in R)
    BY <1>1, <1>2, <1>3, WFMin
<1>5. PICK x \in C : TRUE
    OBVIOUS
<1>6. PICK S \in SUBSET Threads : g[x] \subseteq S /\ ClosedUnder(g, S) /\ x \notin S
    BY DEF Acyclic, HasCycle, Reaches
<1>7. S \cap C \in T
    BY <1>6 DEF ClosedUnder
<1>8. <<S \cap C, C>> \in R
    BY <1>6 DEF R, StrictSubsetOrdering
<1> QED
    BY <1>4, <1>7, <1>8

-----------------------------------------------------------------------------
(* Queues *)

LEMMA ElemFacts ==
    ASSUME NEW q \in Seq(WaitQElem)
    PROVE  \A n \in 1..Len(q) : q[n].tid \in Threads /\ q[n].phase \in Phases
<1>1. \A n \in 1..Len(q) : q[n] \in WaitQElem
    OBVIOUS
<1> QED
    BY <1>1 DEF WaitQElem

LEMMA EraseFacts ==
    ASSUME NEW q \in Seq(WaitQElem), NEW n \in 1..Len(q)
    PROVE  /\ Erase(q, n) \in Seq(WaitQElem)
           /\ Len(Erase(q, n)) = Len(q) - 1
           /\ \A m \in 1..(Len(q) - 1) :
                 Erase(q, n)[m] = q[IF m < n THEN m ELSE m + 1]
<1>1. Len(q) - 1 \in Nat
    OBVIOUS
<1>2. \A m \in 1..(Len(q) - 1) : q[IF m < n THEN m ELSE m + 1] \in WaitQElem
    OBVIOUS
<1> QED
    BY <1>1, <1>2 DEF Erase

LEMMA AppendFacts ==
    ASSUME NEW q \in Seq(WaitQElem), NEW e \in WaitQElem
    PROVE  /\ Append(q, e) \in Seq(WaitQElem)
           /\ Len(Append(q, e)) = Len(q) + 1
           /\ \A m \in 1..Len(q) : Append(q, e)[m] = q[m]
           /\ Append(q, e)[Len(q) + 1] = e
    OBVIOUS

\* Appending and erasing the last entry gives the queue back: clear_abort
\* undoes push_back.
LEMMA EraseAppended ==
    ASSUME NEW q \in Seq(WaitQElem), NEW e \in WaitQElem
    PROVE  Erase(Append(q, e), Len(q) + 1) = q
<1> DEFINE p == Append(q, e)
<1>1. p \in Seq(WaitQElem) /\ Len(p) = Len(q) + 1 /\ Len(q) + 1 \in 1..Len(p)
    BY AppendFacts
<1>2. \A m \in 1..Len(q) : p[m] = q[m]
    BY AppendFacts
<1> HIDE DEF p
<1> DEFINE z == Erase(p, Len(q) + 1)
<1>3. /\ z \in Seq(WaitQElem)
      /\ Len(z) = Len(p) - 1
      /\ \A m \in 1..(Len(p) - 1) : z[m] = p[IF m < Len(q) + 1 THEN m ELSE m + 1]
    BY <1>1, EraseFacts
<1> HIDE DEF z
<1>4. Len(z) = Len(q) /\ \A m \in 1..Len(q) : z[m] = q[m]
    BY <1>1, <1>2, <1>3
<1>5. z = q
    BY <1>3, <1>4
<1> QED
    BY <1>5 DEF p, z

\* What a request waits for depends on the queue up to the request only.
LEMMA PrefixDecides ==
    ASSUME NEW p, NEW q, NEW n \in Nat,
           \A m \in 1..n : p[m] = q[m]
    PROVE  n > 0 => /\ WaitsFor(p, n) = WaitsFor(q, n)
                    /\ (Blocked(p, n) <=> Blocked(q, n))
                    /\ (IsReader(p, n) <=> IsReader(q, n))
<1> SUFFICES ASSUME n > 0
             PROVE  /\ WaitsFor(p, n) = WaitsFor(q, n)
                    /\ (Blocked(p, n) <=> Blocked(q, n))
                    /\ (IsReader(p, n) <=> IsReader(q, n))
    OBVIOUS
<1>1. \A m \in 1..n : IsReader(p, m) <=> IsReader(q, m)
    BY DEF IsReader
<1>2. NearestWriter(p, n) = NearestWriter(q, n)
    BY <1>1 DEF NearestWriter
<1>3. AheadGroup(p, n) = AheadGroup(q, n)
    BY <1>1 DEF AheadGroup
<1>4. NearestWriter(q, n) \subseteq 1..n /\ AheadGroup(q, n) \subseteq 1..n
    BY DEF NearestWriter, AheadGroup
<1>5. WaitsFor(p, n) = WaitsFor(q, n)
    BY <1>1, <1>2, <1>3, <1>4 DEF WaitsFor
<1>6. (Blocked(p, n) <=> Blocked(q, n))
    BY <1>1 DEF Blocked
<1> QED
    BY <1>1, <1>5, <1>6

LEMMA AppendKeeps ==
    ASSUME NEW q \in Seq(WaitQElem), NEW p \in Seq(WaitQElem),
           \A m \in 1..Len(q) : p[m] = q[m],
           NEW m \in 1..Len(q)
    PROVE  WaitsFor(p, m) = WaitsFor(q, m) /\ (Blocked(p, m) <=> Blocked(q, m))
<1>1. m \in Nat /\ m > 0 /\ \A l \in 1..m : p[l] = q[l]
    OBVIOUS
<1> QED
    BY <1>1, PrefixDecides

\* The code adds edges exactly for the requests that its sleeping loops would
\* hold back.
LEMMA BlockedIffWaits ==
    ASSUME NEW q \in Seq(WaitQElem), NEW n \in 1..Len(q)
    PROVE  Blocked(q, n) <=> WaitsFor(q, n) # {}
<1>1. CASE ~IsReader(q, n)
    <2>1. n > 1 => n - 1 \in AheadGroup(q, n)
        BY DEF AheadGroup
    <2>2. n = 1 => AheadGroup(q, n) = {}
        BY DEF AheadGroup
    <2> QED
        BY <1>1, <2>1, <2>2 DEF Blocked, WaitsFor
<1>2. CASE IsReader(q, n)
    <2>1. ASSUME NEW w \in 1..(n - 1), ~IsReader(q, w)
          PROVE  NearestWriter(q, n) # {}
        <3> DEFINE writers == {m \in 1..(n - 1) : ~IsReader(q, m)}
                   T == {m..n : m \in writers}
                   R == StrictSubsetOrdering(1..n)
        <3>1. IsWellFoundedOn(R, FiniteSubsetsOf(1..n))
            BY FS_StrictSubsetOrderingWellFounded
        <3>2. T \subseteq FiniteSubsetsOf(1..n)
            <4> SUFFICES ASSUME NEW m \in writers
                         PROVE  m..n \in FiniteSubsetsOf(1..n)
                OBVIOUS
            <4>1. m..n \in SUBSET (1..n)
                OBVIOUS
            <4>2. IsFiniteSet(m..n)
                BY FS_Interval
            <4> QED
                BY <4>1, <4>2 DEF FiniteSubsetsOf
        <3>3. T # {}
            BY <2>1
        <3> HIDE DEF R
        <3>4. PICK I \in T : \A J \in T : ~(<<J, I>> \in R)
            BY <3>1, <3>2, <3>3, WFMin
        <3>5. PICK m \in writers : I = m..n
            BY <3>4
        <3>6. ASSUME NEW l \in (m + 1)..(n - 1), ~IsReader(q, l)
              PROVE  FALSE
            <4>1. l..n \in T
                BY <3>6
            <4>2. l..n \in SUBSET (1..n) /\ m..n \in SUBSET (1..n)
                BY <3>5
            <4>3. l..n \subseteq m..n
                BY <3>5
            <4>4. m \in m..n /\ m \notin l..n
                BY <3>5
            <4>5. <<l..n, m..n>> \in R
                BY <4>2, <4>3, <4>4 DEF R, StrictSubsetOrdering
            <4> QED
                BY <3>4, <3>5, <4>1, <4>5
        <3>7. m \in NearestWriter(q, n)
            BY <3>5, <3>6 DEF NearestWriter
        <3> QED
            BY <3>7
    <2>2. NearestWriter(q, n) # {} => \E w \in 1..(n - 1) : ~IsReader(q, w)
        BY DEF NearestWriter
    <2> QED
        BY <1>2, <2>1, <2>2 DEF Blocked, WaitsFor
<1> QED
    BY <1>1, <1>2

-----------------------------------------------------------------------------
(* What unlock does to the requests that stay in the queue *)

\* The request at m waits for the entry at l.
Awaits(q, m, l) == l \in IF IsReader(q, m) THEN NearestWriter(q, m) ELSE AheadGroup(q, m)

\* Where the entry at m is after the one at n was erased.
Shift(n, m) == IF m < n THEN m ELSE m - 1

LEMMA WaitsForAwaited ==
    ASSUME NEW q, NEW m \in Nat
    PROVE  WaitsFor(q, m) = {q[l].tid : l \in {k \in 1..(m - 1) : Awaits(q, m, k)}}
<1>1. {k \in 1..(m - 1) : Awaits(q, m, k)}
         = IF IsReader(q, m) THEN NearestWriter(q, m) ELSE AheadGroup(q, m)
    BY DEF Awaits, NearestWriter, AheadGroup
<1> QED
    BY <1>1 DEF WaitsFor

LEMMA ShiftFacts ==
    ASSUME NEW q \in Seq(WaitQElem), NEW n \in 1..Len(q), NEW m \in 1..Len(q), m # n
    PROVE  /\ Shift(n, m) \in 1..(Len(q) - 1)
           /\ Erase(q, n)[Shift(n, m)] = q[m]
           /\ IsReader(Erase(q, n), Shift(n, m)) <=> IsReader(q, m)
<1>1. Shift(n, m) \in 1..(Len(q) - 1)
    BY DEF Shift
<1>2. (IF Shift(n, m) < n THEN Shift(n, m) ELSE Shift(n, m) + 1) = m
    BY DEF Shift
<1>3. Erase(q, n)[Shift(n, m)] = q[m]
    BY <1>1, <1>2, EraseFacts
<1> QED
    BY <1>1, <1>3 DEF IsReader

\* Every position of the new queue comes from one of the old.
LEMMA ShiftOnto ==
    ASSUME NEW q \in Seq(WaitQElem), NEW n \in 1..Len(q), NEW k \in 1..(Len(q) - 1)
    PROVE  \E m \in 1..Len(q) : m # n /\ k = Shift(n, m)
<1>1. CASE k < n
    BY <1>1 DEF Shift
<1>2. CASE k >= n
    BY <1>2, k + 1 \in 1..Len(q), k + 1 # n, Shift(n, k + 1) = k DEF Shift
<1> QED
    BY <1>1, <1>2

\* A reader with only readers ahead leaves.
LEMMA ReaderLeaves ==
    ASSUME NEW q \in Seq(WaitQElem), NEW n \in 1..Len(q),
           \A l \in 1..n : IsReader(q, l),
           NEW m \in 1..Len(q), m # n
    PROVE  /\ \A l \in 1..(m - 1) : l # n =>
                 (Awaits(Erase(q, n), Shift(n, m), Shift(n, l)) <=> Awaits(q, m, l))
           /\ n < m /\ Awaits(q, m, n) <=> m \in NextWriter(q, n)
           /\ Blocked(Erase(q, n), Shift(n, m)) => Blocked(q, m)
           /\ Blocked(q, m) =>
                 \/ Blocked(Erase(q, n), Shift(n, m))
                 \/ n = 1 /\ m = 2 /\ m \in NextWriter(q, n)
<1> DEFINE p == Erase(q, n)
<1>1. \A l \in 1..Len(q) : l # n =>
         /\ Shift(n, l) \in 1..(Len(q) - 1)
         /\ IsReader(p, Shift(n, l)) <=> IsReader(q, l)
    BY ShiftFacts
<1>1a. \A k \in 1..(Len(q) - 1) :
         IsReader(p, k) <=> IF k < n THEN TRUE ELSE IsReader(q, k + 1)
    <2>1. \A k \in 1..(Len(q) - 1) : p[k] = q[IF k < n THEN k ELSE k + 1]
        BY EraseFacts
    <2>2. \A k \in 1..(Len(q) - 1) : k < n => (IsReader(p, k) <=> IsReader(q, k))
        BY <2>1 DEF IsReader
    <2>3. \A k \in 1..(Len(q) - 1) : ~(k < n) => (IsReader(p, k) <=> IsReader(q, k + 1))
        BY <2>1 DEF IsReader
    <2> QED
        BY <2>2, <2>3
<1>1b. \A x \in (n + 1)..Len(q) : IsReader(p, x - 1) <=> IsReader(q, x)
    BY <1>1 DEF Shift
<1> HIDE DEF p
<1>2. CASE m < n
    <2>1. IsReader(q, m) /\ IsReader(p, m) /\ Shift(n, m) = m
        BY <1>2, <1>1a DEF Shift
    <2>2. \A l \in 1..(m - 1) : Shift(n, l) = l /\ IsReader(q, l) /\ IsReader(p, l)
        BY <1>2, <1>1a DEF Shift
    <2>3. \A l \in 1..(m - 1) : ~Awaits(p, m, l) /\ ~Awaits(q, m, l)
        BY <2>1, <2>2 DEF Awaits, NearestWriter
    <2>4. ~Blocked(q, m) /\ ~Blocked(p, m)
        BY <2>1, <2>2 DEF Blocked
    <2>5. m \notin NextWriter(q, n)
        BY <1>2 DEF NextWriter
    <2> QED
        BY <1>2, <2>1, <2>2, <2>3, <2>4, <2>5 DEF p
<1>3. CASE n < m /\ IsReader(q, m)
    <2>1. Shift(n, m) = m - 1 /\ IsReader(p, m - 1)
        BY <1>3, <1>1 DEF Shift
    <2>2. ASSUME NEW l \in 1..(m - 1), l # n
          PROVE  Awaits(p, m - 1, Shift(n, l)) <=> Awaits(q, m, l)
        <3>1. CASE l < n
            <4>1. IsReader(q, l) /\ Shift(n, l) = l /\ IsReader(p, l)
                BY <3>1, <1>1 DEF Shift
            <4> QED
                BY <4>1, <2>1, <1>3 DEF Awaits, NearestWriter
        <3>2. CASE n < l
            <4>1. Shift(n, l) = l - 1 /\ (IsReader(p, l - 1) <=> IsReader(q, l))
                BY <3>2, <1>1 DEF Shift
            <4>2. ASSUME \A x \in (l + 1)..(m - 1) : IsReader(q, x)
                  PROVE  \A k \in l..(m - 2) : IsReader(p, k)
                BY <4>2, <3>2, <1>1a
            <4>3. ASSUME \A k \in l..(m - 2) : IsReader(p, k),
                         NEW x \in (l + 1)..(m - 1)
                  PROVE  IsReader(q, x)
                <5>1. x - 1 \in l..(m - 2) /\ x \in (n + 1)..Len(q)
                    BY <3>2
                <5> QED
                    BY <5>1, <4>3, <1>1b
            <4>4. l \in NearestWriter(q, m) <=> l - 1 \in NearestWriter(p, m - 1)
                BY <4>1, <4>2, <4>3, <3>2 DEF NearestWriter
            <4> QED
                BY <4>1, <4>4, <2>1, <1>3 DEF Awaits
        <3> QED
            BY <2>2, <3>1, <3>2
    <2>3. ~Awaits(q, m, n) /\ m \notin NextWriter(q, n)
        BY <1>3 DEF Awaits, NearestWriter, NextWriter
    <2>4. Blocked(p, m - 1) <=> Blocked(q, m)
        <3>1. ASSUME NEW w \in 1..(m - 1), ~IsReader(q, w)
              PROVE  w - 1 \in 1..(m - 2) /\ ~IsReader(p, w - 1)
            <4>1. n < w
                BY <3>1
            <4> QED
                BY <4>1, <3>1, <1>1a
        <3>2. ASSUME NEW k \in 1..(m - 2), ~IsReader(p, k)
              PROVE  k + 1 \in 1..(m - 1) /\ ~IsReader(q, k + 1)
            BY <3>2, <1>1a
        <3> QED
            BY <3>1, <3>2, <2>1, <1>3 DEF Blocked
    <2> QED
        BY <2>1, <2>2, <2>3, <2>4 DEF p
<1>4. CASE n < m /\ ~IsReader(q, m)
    <2>1. Shift(n, m) = m - 1 /\ ~IsReader(p, m - 1)
        BY <1>4, <1>1 DEF Shift
    <2>2. ASSUME NEW l \in 1..(m - 1), l # n
          PROVE  Awaits(p, m - 1, Shift(n, l)) <=> Awaits(q, m, l)
        <3>1. CASE l < n
            <4>1. Shift(n, l) = l /\ IsReader(q, l)
                BY <3>1 DEF Shift
            <4>2. ASSUME \A x \in l..(m - 1) : IsReader(q, x)
                  PROVE  \A k \in l..(m - 2) : IsReader(p, k)
                BY <4>2, <3>1, <1>1a
            <4>3. ASSUME \A k \in l..(m - 2) : IsReader(p, k),
                         NEW x \in l..(m - 1)
                  PROVE  IsReader(q, x)
                <5>1. CASE x <= n
                    BY <5>1
                <5>2. CASE n < x
                    <6>1. x - 1 \in l..(m - 2) /\ x \in (n + 1)..Len(q)
                        BY <5>2, <3>1
                    <6> QED
                        BY <6>1, <4>3, <1>1b
                <5> QED
                    BY <5>1, <5>2
            <4>4. l = m - 2 => \A k \in l..(m - 2) : IsReader(p, k)
                BY <3>1, <1>1a
            <4>5. l \in AheadGroup(q, m) <=> l \in AheadGroup(p, m - 1)
                BY <4>1, <4>2, <4>3, <4>4, <3>1, <1>4 DEF AheadGroup
            <4> QED
                BY <4>1, <4>5, <2>1, <1>4 DEF Awaits
        <3>2. CASE n < l
            <4>1. Shift(n, l) = l - 1
                BY <3>2 DEF Shift
            <4>2. ASSUME \A x \in l..(m - 1) : IsReader(q, x)
                  PROVE  \A k \in (l - 1)..(m - 2) : IsReader(p, k)
                BY <4>2, <3>2, <1>1a
            <4>3. ASSUME \A k \in (l - 1)..(m - 2) : IsReader(p, k),
                         NEW x \in l..(m - 1)
                  PROVE  IsReader(q, x)
                <5>1. x - 1 \in (l - 1)..(m - 2) /\ x \in (n + 1)..Len(q)
                    BY <3>2
                <5> QED
                    BY <5>1, <4>3, <1>1b
            <4>5. l \in AheadGroup(q, m) <=> l - 1 \in AheadGroup(p, m - 1)
                BY <4>2, <4>3, <3>2, <1>4 DEF AheadGroup
            <4> QED
                BY <4>1, <4>5, <2>1, <1>4 DEF Awaits
        <3> QED
            BY <2>2, <3>1, <3>2
    <2>3. Awaits(q, m, n) <=> m \in NextWriter(q, n)
        <3>1. m \in NextWriter(q, n) <=> \A x \in (n + 1)..(m - 1) : IsReader(q, x)
            BY <1>4 DEF NextWriter
        <3>2. n \in AheadGroup(q, m) <=> \A x \in n..(m - 1) : IsReader(q, x)
            BY <1>4 DEF AheadGroup
        <3> QED
            BY <3>1, <3>2, <1>4 DEF Awaits
    <2>4. Blocked(q, m) /\ (Blocked(p, m - 1) <=> m > 2)
        BY <2>1, <1>4 DEF Blocked
    <2>5. m = 2 => n = 1 /\ m \in NextWriter(q, n)
        BY <1>4 DEF NextWriter
    <2> QED
        BY <2>1, <2>2, <2>3, <2>4, <2>5, <1>4 DEF p
<1> QED
    BY <1>2, <1>3, <1>4

\* The writer at the top leaves.
LEMMA WriterLeaves ==
    ASSUME NEW q \in Seq(WaitQElem), Len(q) > 0, ~IsReader(q, 1),
           NEW m \in 1..Len(q), m # 1
    PROVE  /\ \A l \in 1..(m - 1) : l # 1 =>
                 (Awaits(Erase(q, 1), Shift(1, m), Shift(1, l)) <=> Awaits(q, m, l))
           /\ 1 < m /\ Awaits(q, m, 1) <=> m \in FollowingGroup(q)
           /\ Blocked(Erase(q, 1), Shift(1, m)) => Blocked(q, m)
           /\ Blocked(q, m) =>
                 Blocked(Erase(q, 1), Shift(1, m)) \/ m \in FollowingGroup(q)
<1> DEFINE p == Erase(q, 1)
<1>1. \A x \in 2..Len(q) : Shift(1, x) = x - 1 /\ (IsReader(p, x - 1) <=> IsReader(q, x))
    <2> SUFFICES ASSUME NEW x \in 2..Len(q)
                 PROVE  Shift(1, x) = x - 1 /\ (IsReader(p, x - 1) <=> IsReader(q, x))
        OBVIOUS
    <2>1. Shift(1, x) = x - 1
        BY DEF Shift
    <2>2. 1 \in 1..Len(q) /\ x \in 1..Len(q) /\ x # 1
        OBVIOUS
    <2> QED
        BY <2>1, <2>2, ShiftFacts
<1>2. \A k \in 1..(Len(q) - 1) : IsReader(p, k) <=> IsReader(q, k + 1)
    <2> SUFFICES ASSUME NEW k \in 1..(Len(q) - 1)
                 PROVE  IsReader(p, k) <=> IsReader(q, k + 1)
        OBVIOUS
    <2>1. k + 1 \in 2..Len(q) /\ (k + 1) - 1 = k
        OBVIOUS
    <2> QED
        BY <2>1, <1>1
<1> HIDE DEF p
<1>3. Shift(1, m) = m - 1 /\ (IsReader(p, m - 1) <=> IsReader(q, m)) /\ m >= 2
    BY <1>1
<1>4. ASSUME NEW l \in 1..(m - 1), l # 1
      PROVE  Awaits(p, m - 1, l - 1) <=> Awaits(q, m, l)
    <2>1. IsReader(p, l - 1) <=> IsReader(q, l)
        BY <1>4, <1>1
    <2>2. (\A k \in l..(m - 2) : IsReader(p, k)) <=>
          (\A x \in (l + 1)..(m - 1) : IsReader(q, x))
        <3>1. ASSUME \A k \in l..(m - 2) : IsReader(p, k), NEW x \in (l + 1)..(m - 1)
              PROVE  IsReader(q, x)
            <4>1. x - 1 \in l..(m - 2) /\ x \in 2..Len(q)
                BY <1>4
            <4> QED
                BY <4>1, <3>1, <1>1
        <3>2. ASSUME \A x \in (l + 1)..(m - 1) : IsReader(q, x), NEW k \in l..(m - 2)
              PROVE  IsReader(p, k)
            BY <1>4, <3>2, <1>2
        <3> QED
            BY <3>1, <3>2
    <2>3. (\A k \in (l - 1)..(m - 2) : IsReader(p, k)) <=>
          (\A x \in l..(m - 1) : IsReader(q, x))
        <3>1. ASSUME \A k \in (l - 1)..(m - 2) : IsReader(p, k), NEW x \in l..(m - 1)
              PROVE  IsReader(q, x)
            <4>1. x - 1 \in (l - 1)..(m - 2) /\ x \in 2..Len(q)
                BY <1>4
            <4> QED
                BY <4>1, <3>1, <1>1
        <3>2. ASSUME \A x \in l..(m - 1) : IsReader(q, x), NEW k \in (l - 1)..(m - 2)
              PROVE  IsReader(p, k)
            BY <1>4, <3>2, <1>2
        <3> QED
            BY <3>1, <3>2
    <2>4. l - 1 \in NearestWriter(p, m - 1) <=> l \in NearestWriter(q, m)
        BY <1>4, <1>3, <2>1, <2>2 DEF NearestWriter
    <2>5. l - 1 \in AheadGroup(p, m - 1) <=> l \in AheadGroup(q, m)
        BY <1>4, <1>3, <2>3 DEF AheadGroup
    <2> QED
        BY <2>4, <2>5, <1>3 DEF Awaits
<1>5. Awaits(q, m, 1) <=> m \in FollowingGroup(q)
    <2>1. CASE IsReader(q, m)
        BY <2>1, <1>3 DEF Awaits, NearestWriter, FollowingGroup
    <2>2. CASE ~IsReader(q, m)
        <3>1. 1 \in AheadGroup(q, m) <=> m = 2
            BY <1>3 DEF AheadGroup
        <3>2. m \in FollowingGroup(q) <=> m = 2
            BY <2>2, <1>3 DEF FollowingGroup
        <3> QED
            BY <2>2, <3>1, <3>2 DEF Awaits
    <2> QED
        BY <2>1, <2>2
<1>6. Blocked(q, m)
    BY <1>3 DEF Blocked
<1>7. Blocked(p, m - 1) \/ m \in FollowingGroup(q)
    <2>1. CASE IsReader(q, m)
        <3>1. ASSUME NEW x \in 2..(m - 1), ~IsReader(q, x)
              PROVE  Blocked(p, m - 1)
            <4>1. x - 1 \in 1..(m - 2) /\ ~IsReader(p, x - 1)
                BY <3>1, <1>1
            <4> QED
                BY <4>1, <1>3, <2>1 DEF Blocked
        <3> QED
            BY <3>1, <2>1, <1>3 DEF FollowingGroup
    <2>2. CASE ~IsReader(q, m)
        BY <2>2, <1>3 DEF Blocked, FollowingGroup
    <2> QED
        BY <2>1, <2>2
<1>8. \A l \in 1..(m - 1) : l # 1 => Shift(1, l) = l - 1
    BY <1>1
<1> QED
    BY <1>3, <1>4, <1>5, <1>6, <1>7, <1>8 DEF p

\* If the queue order of the others is kept and exactly the requests at the
\* positions P waited for the entry at n, then erasing it takes that thread,
\* and no other, out of what the requests in P wait for.
LEMMA UnlockWaits ==
    ASSUME NEW q \in Seq(WaitQElem), NEW n \in 1..Len(q),
           \A x, y \in 1..Len(q) : q[x].tid = q[y].tid => x = y,
           NEW m \in 1..Len(q), m # n, NEW P,
           \A l \in 1..(m - 1) : l # n =>
              (Awaits(Erase(q, n), Shift(n, m), Shift(n, l)) <=> Awaits(q, m, l)),
           n < m /\ Awaits(q, m, n) <=> m \in P
    PROVE  WaitsFor(Erase(q, n), Shift(n, m)) =
              IF m \in P THEN WaitsFor(q, m) \ {q[n].tid} ELSE WaitsFor(q, m)
<1> DEFINE p == Erase(q, n)
           s == Shift(n, m)
<1>1. s \in Nat /\ s \in 1..(Len(q) - 1)
    BY ShiftFacts
<1>2. \A l \in 1..Len(q) : l # n => Shift(n, l) \in 1..(Len(q) - 1) /\ p[Shift(n, l)] = q[l]
    BY ShiftFacts
<1>3. \A x : x \in WaitsFor(p, s) <=> \E k \in 1..(s - 1) : Awaits(p, s, k) /\ p[k].tid = x
    BY <1>1, WaitsForAwaited
<1>4. \A x : x \in WaitsFor(q, m) <=> \E l \in 1..(m - 1) : Awaits(q, m, l) /\ q[l].tid = x
    BY WaitsForAwaited
<1> HIDE DEF p
<1>5. \A l \in 1..(m - 1) : l # n => Shift(n, l) \in 1..(s - 1)
    BY DEF Shift
<1>6. \A k \in 1..(s - 1) : \E l \in 1..(m - 1) : l # n /\ k = Shift(n, l)
    <2> SUFFICES ASSUME NEW k \in 1..(s - 1)
                 PROVE  \E l \in 1..(m - 1) : l # n /\ k = Shift(n, l)
        OBVIOUS
    <2>0. k \in 1..(Len(q) - 1)
        BY <1>1
    <2>1. PICK l \in 1..Len(q) : l # n /\ k = Shift(n, l)
        BY <2>0, ShiftOnto
    <2>2. l < m
        BY <2>1 DEF Shift
    <2> QED
        BY <2>1, <2>2
<1> HIDE DEF s
<1>7. ASSUME NEW x
      PROVE  x \in WaitsFor(p, s) <=>
                \E l \in 1..(m - 1) : l # n /\ Awaits(q, m, l) /\ q[l].tid = x
    <2>1. ASSUME NEW k \in 1..(s - 1), Awaits(p, s, k), p[k].tid = x
          PROVE  \E l \in 1..(m - 1) : l # n /\ Awaits(q, m, l) /\ q[l].tid = x
        <3>1. PICK l \in 1..(m - 1) : l # n /\ k = Shift(n, l)
            BY <1>6
        <3>2. p[k] = q[l]
            BY <3>1, <1>2
        <3>3. Awaits(q, m, l)
            BY <3>1, <2>1 DEF p, s
        <3> QED
            BY <3>1, <3>2, <3>3, <2>1
    <2>2. ASSUME NEW l \in 1..(m - 1), l # n, Awaits(q, m, l), q[l].tid = x
          PROVE  \E k \in 1..(s - 1) : Awaits(p, s, k) /\ p[k].tid = x
        <3>1. Shift(n, l) \in 1..(s - 1) /\ p[Shift(n, l)] = q[l]
            BY <2>2, <1>2, <1>5
        <3>2. Awaits(p, s, Shift(n, l))
            BY <2>2 DEF p, s
        <3> QED
            BY <3>1, <3>2, <2>2
    <2> QED
        BY <1>3, <2>1, <2>2
<1>8. \A l \in 1..(m - 1) : l # n => q[l].tid # q[n].tid
    OBVIOUS
<1>9. CASE m \in P
    <2>1. WaitsFor(p, s) = WaitsFor(q, m) \ {q[n].tid}
        BY <1>4, <1>7, <1>8
    <2> QED
        BY <1>9, <2>1 DEF p, s
<1>10. CASE m \notin P
    <2>1. \A l \in 1..(m - 1) : Awaits(q, m, l) => l # n
        BY <1>10
    <2>2. WaitsFor(p, s) = WaitsFor(q, m)
        BY <1>4, <1>7, <2>1
    <2> QED
        BY <1>10, <2>2 DEF p, s
<1> QED
    BY <1>9, <1>10

-----------------------------------------------------------------------------
(* The inductive invariant *)

LEMMA InitInv == Init => LockInv
<1> SUFFICES ASSUME Init PROVE LockInv
    OBVIOUS
<1>1. TypeOK
    BY DEF Init, TypeOK, LockStatus, Phases, Graphs, NoEdges
<1>2. \A r \in Records : record_wait_queues[r] = << >> /\ Len(record_wait_queues[r]) = 0
    BY DEF Init
<1>3. QueueDistinct /\ EntryInv /\ NoOvertaking /\ NoLostWakeup
    BY <1>2 DEF QueueDistinct, EntryInv, NoOvertaking, NoLostWakeup
<1>4. HasEntry
    BY NoRecordAssumption DEF Init, HasEntry
<1>5. WokenInv /\ StatusInv
    BY DEF Init, WokenInv, StatusInv
<1>6. CountInv
    <2>1. \A r \in Records : Readers(r) = {} /\ readers_count[r] = 0
        BY DEF Init, Readers
    <2> QED
        BY <2>1, FS_EmptySet DEF CountInv
<1>7. GraphExact
    <2>1. \A t \in Threads : wait_for_graph[t] = {}
        BY DEF Init, NoEdges
    <2> QED
        BY <1>2, <2>1 DEF GraphExact
<1> QED
    BY <1>1, <1>3, <1>4, <1>5, <1>6, <1>7 DEF LockInv

\* More threads may have been signalled: SpuriousWakeup and the signal of
\* clear_abort change nothing else.
LEMMA MoreWoken ==
    ASSUME LockInv, woken \subseteq woken', woken' \subseteq Asleep,
           UNCHANGED <<table, readers_count, record_wait_queues, wait_for_graph,
                       waiting, held>>
    PROVE  LockInv'
<1>1. TypeOK'
    BY DEF LockInv, TypeOK, Asleep
<1>2. WokenInv'
    BY DEF WokenInv, Asleep
<1>3. NoLostWakeup'
    BY DEF LockInv, NoLostWakeup
<1>4. (QueueDistinct /\ EntryInv /\ HasEntry /\ NoOvertaking /\ GraphExact)'
    BY DEF LockInv, QueueDistinct, EntryInv, HasEntry, NoOvertaking, GraphExact
<1>5. (StatusInv /\ CountInv)'
    BY DEF LockInv, StatusInv, CountInv, Readers
<1> QED
    BY <1>1, <1>2, <1>3, <1>4, <1>5 DEF LockInv

\* A thread that may request a record is not queued on it, and its edges are
\* exactly those that the request adds.
LEMMA RequesterFacts ==
    ASSUME LockInv, NEW t \in Threads, NEW r \in Records, NEW phase \in Phases,
           MayRequest(t, r)
    PROVE  /\ \A n \in 1..Len(record_wait_queues[r]) : record_wait_queues[r][n].tid # t
           /\ wait_for_graph[t] = {}
           /\ NewEdges(t, r, phase) \in SUBSET Threads
           /\ [tid |-> t, phase |-> phase] \in WaitQElem
           /\ record_wait_queues[r] \in Seq(WaitQElem)
<1>0. [tid |-> t, phase |-> phase] \in WaitQElem /\ record_wait_queues[r] \in Seq(WaitQElem)
    BY DEF WaitQElem, LockInv, TypeOK
<1>1. ASSUME NEW n \in 1..Len(record_wait_queues[r]), record_wait_queues[r][n].tid = t
      PROVE  FALSE
    <2>1. record_wait_queues[r][n].phase \in Phases
        BY <1>0, ElemFacts
    <2>2. waiting[t] # r
        BY NoRecordAssumption DEF MayRequest
    <2>3. held[t][r] = record_wait_queues[r][n].phase
        BY <1>1, <2>2 DEF LockInv, EntryInv
    <2> QED
        BY <2>1, <2>3 DEF MayRequest, Phases
<1>2. wait_for_graph[t] = {}
    BY DEF LockInv, GraphExact, MayRequest
<1>3. NewEdges(t, r, phase) \in SUBSET Threads
    <2> DEFINE q == Append(record_wait_queues[r], [tid |-> t, phase |-> phase])
               n == Len(record_wait_queues[r]) + 1
    <2>0. q \in Seq(WaitQElem) /\ Len(q) = n
        BY <1>0, AppendFacts
    <2>1. \A m \in 1..n : q[m].tid \in Threads
        BY <2>0, ElemFacts
    <2> HIDE DEF q
    <2>2. \A m \in NearestWriter(q, n) \cup AheadGroup(q, n) : m \in 1..n
        BY <1>0 DEF NearestWriter, AheadGroup
    <2>3. WaitsFor(q, n) \in SUBSET Threads
        BY <2>1, <2>2 DEF WaitsFor
    <2> QED
        BY <2>3 DEF NewEdges, Pushed, q
<1> QED
    BY <1>0, <1>1, <1>2, <1>3

LEMMA RequestDeadlockInv ==
    ASSUME LockInv, NEW t \in Threads, NEW r \in Records, NEW phase \in Phases,
           RequestDeadlock(t, r, phase)
    PROVE  LockInv'
<1> DEFINE D == NewEdges(t, r, phase)
           e == [tid |-> t, phase |-> phase]
<1>1. MayRequest(t, r)
    BY DEF RequestDeadlock
<1>2. wait_for_graph[t] = {} /\ e \in WaitQElem /\ record_wait_queues[r] \in Seq(WaitQElem)
    BY <1>1, RequesterFacts
<1>3. record_wait_queues' = record_wait_queues
    <2>1. Erase(Append(record_wait_queues[r], e), Len(record_wait_queues[r]) + 1)
             = record_wait_queues[r]
        BY <1>2, EraseAppended
    <2>2. record_wait_queues' = [record_wait_queues EXCEPT ![r] = record_wait_queues[r]]
        BY <2>1 DEF RequestDeadlock, Pushed
    <2> QED
        BY <2>2 DEF LockInv, TypeOK
<1>4. wait_for_graph' = wait_for_graph
    <2>1. wait_for_graph \in Graphs
        BY DEF LockInv, TypeOK
    <2>2. wait_for_graph' = RemoveEdges(AddEdges(wait_for_graph, t, D), t, D)
        BY DEF RequestDeadlock
    <2> HIDE DEF D
    <2> QED
        BY <1>2, <2>1, <2>2 DEF RemoveEdges, AddEdges, Graphs
<1>5. woken \subseteq woken' /\ woken' \subseteq Asleep
    BY DEF RequestDeadlock, Signal, LockInv, WokenInv
<1>6. UNCHANGED <<table, readers_count, waiting, held>>
    BY DEF RequestDeadlock
<1> QED
    BY <1>3, <1>4, <1>5, <1>6, MoreWoken

LEMMA SpuriousWakeupInv ==
    ASSUME LockInv, NEW t \in Threads, SpuriousWakeup(t)
    PROVE  LockInv'
    BY MoreWoken DEF SpuriousWakeup, LockInv, WokenInv

LEMMA ResumeSleepsInv ==
    ASSUME LockInv, NEW t \in Threads, ResumeSleeps(t)
    PROVE  LockInv'
<1> USE DEF ResumeSleeps
<1>1. TypeOK'
    BY DEF LockInv, TypeOK
<1>2. WokenInv'
    BY DEF LockInv, WokenInv, Asleep
<1>3. NoLostWakeup'
    <2> SUFFICES ASSUME NEW r \in Records, NEW n \in 1..Len(record_wait_queues[r]),
                        waiting[record_wait_queues[r][n].tid] = r,
                        record_wait_queues[r][n].tid \notin woken'
                 PROVE  Blocked(record_wait_queues[r], n)
        BY DEF NoLostWakeup
    <2>1. CASE record_wait_queues[r][n].tid = t
        <3>1. PICK m \in Position(t, record_wait_queues[r]) : Blocked(record_wait_queues[r], m)
            BY <2>1
        <3>2. m = n
            BY <2>1, <3>1 DEF Position, LockInv, QueueDistinct
        <3> QED
            BY <3>1, <3>2
    <2>2. CASE record_wait_queues[r][n].tid # t
        BY <2>2 DEF LockInv, NoLostWakeup
    <2> QED
        BY <2>1, <2>2
<1>4. (QueueDistinct /\ EntryInv /\ HasEntry /\ NoOvertaking /\ GraphExact)'
    BY DEF LockInv, QueueDistinct, EntryInv, HasEntry, NoOvertaking, GraphExact
<1>5. (StatusInv /\ CountInv)'
    BY DEF LockInv, StatusInv, CountInv, Readers
<1> QED
    BY <1>1, <1>2, <1>3, <1>4, <1>5 DEF LockInv

-----------------------------------------------------------------------------
(* Grants *)

\* The entry of a thread that holds the record.
LEMMA HolderEntry ==
    ASSUME LockInv, NEW u \in Threads, NEW r \in Records, held[u][r] # "NONE"
    PROVE  \E n \in 1..Len(record_wait_queues[r]) :
              /\ record_wait_queues[r][n].tid = u
              /\ record_wait_queues[r][n].phase = held[u][r]
              /\ ~Blocked(record_wait_queues[r], n)
<1>1. PICK n \in Position(u, record_wait_queues[r]) : TRUE
    BY DEF LockInv, HasEntry
<1>2. n \in 1..Len(record_wait_queues[r]) /\ record_wait_queues[r][n].tid = u
    BY <1>1 DEF Position
<1>3. record_wait_queues[r][n].phase = held[u][r]
    BY <1>2 DEF LockInv, EntryInv
<1>4. ~Blocked(record_wait_queues[r], n)
    BY <1>2 DEF LockInv, NoOvertaking
<1> QED
    BY <1>2, <1>3, <1>4

\* A writer that is not blocked is the only request that is not.
LEMMA UnblockedWriterAlone ==
    ASSUME NEW q \in Seq(WaitQElem), NEW n \in 1..Len(q), NEW m \in 1..Len(q),
           ~IsReader(q, n), ~Blocked(q, n), ~Blocked(q, m)
    PROVE  n = 1 /\ m = 1
<1>1. n = 1
    BY DEF Blocked
<1>2. ASSUME m # 1 PROVE FALSE
    BY <1>1, <1>2 DEF Blocked
<1> QED
    BY <1>1, <1>2

LEMMA GrantInv ==
    ASSUME LockInv,
           NEW t \in Threads, NEW r \in Records, NEW phase \in Phases,
           Grant(t, r, phase), held[t][r] = "NONE",
           NEW p \in Seq(WaitQElem), p = record_wait_queues'[r],
           NEW n \in 1..Len(p), p[n].tid = t, p[n].phase = phase, ~Blocked(p, n),
           \A m, l \in 1..Len(p) : p[m].tid = p[l].tid => m = l,
           \A u \in Threads : held[u][r] # "NONE" =>
              \E m \in 1..Len(p) : p[m].tid = u /\ p[m].phase = held[u][r] /\ ~Blocked(p, m),
           \A s \in Records : s # r => record_wait_queues'[s] = record_wait_queues[s]
    PROVE  StatusInv' /\ CountInv'
<1>1. /\ table' = [table EXCEPT ![r] =
            IF phase = "READ" THEN "RW_READER_LOCK" ELSE "RW_WRITER_LOCK"]
      /\ readers_count' = [readers_count EXCEPT ![r] =
            IF phase = "READ" THEN readers_count[r] + 1 ELSE readers_count[r]]
      /\ held' = [held EXCEPT ![t][r] = phase]
    BY DEF Grant
<1>2. /\ table'[r] = IF phase = "READ" THEN "RW_READER_LOCK" ELSE "RW_WRITER_LOCK"
      /\ \A s \in Records : s # r => table'[s] = table[s]
    BY <1>1 DEF LockInv, TypeOK
<1>3. /\ held'[t][r] = phase
      /\ \A u \in Threads : u # t => held'[u] = held[u]
      /\ \A s \in Records : s # r => held'[t][s] = held[t][s]
    BY <1>1 DEF LockInv, TypeOK
<1>4. \A u \in Threads : \A s \in Records :
         held'[u][s] = IF u = t /\ s = r THEN phase ELSE held[u][s]
    BY <1>3
<1>5. \A s \in Records : \A m \in 1..Len(record_wait_queues[s]) :
         record_wait_queues[s][m].tid \in Threads
    BY ElemFacts DEF LockInv, TypeOK
<1>6. StatusInv'
    <2> SUFFICES ASSUME NEW s \in Records
                 PROVE  LET q == record_wait_queues'[s] IN
                        /\ table'[s] = "RW_WRITER_LOCK" =>
                              q # << >> /\ held'[q[1].tid][s] = "WRITE"
                        /\ table'[s] = "RW_READER_LOCK" => q # << >> /\ q[1].phase = "READ"
                        /\ \A u \in Threads :
                              /\ held'[u][s] = "READ" => table'[s] = "RW_READER_LOCK"
                              /\ held'[u][s] = "WRITE" => table'[s] = "RW_WRITER_LOCK"
        BY DEF StatusInv, IsReader
    <2>1. CASE s # r
        <3>1. record_wait_queues'[s] = record_wait_queues[s] /\ table'[s] = table[s]
            BY <2>1, <1>2
        <3>2. \A u \in Threads : held'[u][s] = held[u][s]
            BY <2>1, <1>4
        <3>3. record_wait_queues[s] \in Seq(WaitQElem)
            BY DEF LockInv, TypeOK
        <3>4. record_wait_queues[s] # << >> => record_wait_queues[s][1].tid \in Threads
            BY <3>3, ElemFacts
        <3> QED
            BY <3>1, <3>2, <3>4 DEF LockInv, StatusInv, IsReader
    <2>2. CASE s = r /\ phase = "READ"
        <3>1. table'[r] = "RW_READER_LOCK" /\ IsReader(p, n) /\ p # << >>
            BY <2>2, <1>2 DEF IsReader
        <3>2. p[1].phase = "READ"
            BY <3>1 DEF Blocked, IsReader
        <3>3. ASSUME NEW u \in Threads, held'[u][r] = "WRITE"
              PROVE  FALSE
            <4>1. u # t /\ held[u][r] = "WRITE"
                BY <3>3, <1>4, <2>2
            <4>2. PICK m \in 1..Len(p) :
                     p[m].tid = u /\ p[m].phase = "WRITE" /\ ~Blocked(p, m)
                BY <4>1
            <4>3. ~IsReader(p, m)
                BY <4>2 DEF IsReader
            <4>4. m = 1 /\ n = 1
                BY <4>2, <4>3, UnblockedWriterAlone
            <4> QED
                BY <4>1, <4>2, <4>4
        <3> QED
            BY <2>2, <3>1, <3>2, <3>3
    <2>3. CASE s = r /\ phase = "WRITE"
        <3>1. table'[r] = "RW_WRITER_LOCK" /\ ~IsReader(p, n) /\ p # << >>
            BY <2>3, <1>2 DEF IsReader
        <3>2. n = 1
            BY <3>1, UnblockedWriterAlone
        <3>3. held'[p[1].tid][r] = "WRITE"
            BY <3>2, <1>3, <2>3
        <3>4. ASSUME NEW u \in Threads, held'[u][r] = "READ"
              PROVE  FALSE
            <4>1. u # t /\ held[u][r] = "READ"
                BY <3>4, <1>4, <2>3
            <4>2. PICK m \in 1..Len(p) : p[m].tid = u /\ ~Blocked(p, m)
                BY <4>1
            <4>3. m = 1
                BY <3>1, <4>2, UnblockedWriterAlone
            <4> QED
                BY <4>1, <4>2, <4>3, <3>2
        <3> QED
            BY <2>3, <3>1, <3>3, <3>4
    <2> QED
        BY <2>1, <2>2, <2>3 DEF Phases
<1>7. CountInv'
    <2> SUFFICES ASSUME NEW s \in Records
                 PROVE  readers_count'[s] = Cardinality(Readers(s)')
        BY DEF CountInv
    <2>1. readers_count[s] = Cardinality(Readers(s))
        BY DEF LockInv, CountInv
    <2>2. IsFiniteSet(Readers(s))
        BY ThreadsAssumption, FS_Subset DEF Readers
    <2>3. CASE s = r /\ phase = "READ"
        <3>1. Readers(s)' = Readers(s) \cup {t} /\ t \notin Readers(s)
            BY <1>4, <2>3 DEF Readers
        <3>2. Cardinality(Readers(s) \cup {t}) = Cardinality(Readers(s)) + 1
            BY <3>1, <2>2, FS_AddElement
        <3> QED
            BY <3>1, <3>2, <2>1, <2>3, <1>1 DEF LockInv, TypeOK
    <2>4. CASE s # r \/ phase = "WRITE"
        <3>1. Readers(s)' = Readers(s)
            BY <1>4, <2>4 DEF Readers
        <3>2. readers_count'[s] = readers_count[s]
            BY <1>1, <2>4 DEF LockInv, TypeOK
        <3> QED
            BY <3>1, <3>2, <2>1
    <2> QED
        BY <2>3, <2>4 DEF Phases
<1> QED
    BY <1>6, <1>7

LEMMA AppendDistinct ==
    ASSUME NEW q \in Seq(WaitQElem), NEW p \in Seq(WaitQElem), NEW t \in Threads,
           Len(p) = Len(q) + 1, p[Len(q) + 1].tid = t,
           \A m \in 1..Len(q) : p[m] = q[m],
           \A m \in 1..Len(q) : q[m].tid # t,
           \A m, l \in 1..Len(q) : q[m].tid = q[l].tid => m = l
    PROVE  \A m, l \in 1..Len(p) : p[m].tid = p[l].tid => m = l
<1>1. \A m \in 1..Len(p) : m = Len(q) + 1 \/ m \in 1..Len(q)
    OBVIOUS
<1> SUFFICES ASSUME NEW m \in 1..Len(p), NEW l \in 1..Len(p), p[m].tid = p[l].tid
             PROVE  m = l
    OBVIOUS
<1>2. CASE m = Len(q) + 1 /\ l = Len(q) + 1
    BY <1>2
<1>3. CASE m = Len(q) + 1 /\ l \in 1..Len(q)
    BY <1>3, Zenon
<1>4. CASE m \in 1..Len(q) /\ l = Len(q) + 1
    BY <1>4, Zenon
<1>5. CASE m \in 1..Len(q) /\ l \in 1..Len(q)
    BY <1>5, Zenon
<1> QED
    BY <1>1, <1>2, <1>3, <1>4, <1>5, Zenon

LEMMA RequestGrantedInv ==
    ASSUME LockInv, NEW t \in Threads, NEW r \in Records, NEW phase \in Phases,
           RequestGranted(t, r, phase)
    PROVE  LockInv'
<1> DEFINE q == record_wait_queues[r]
           e == [tid |-> t, phase |-> phase]
           p == Append(q, e)
           last == Len(q) + 1
<1>1. MayRequest(t, r) /\ Grant(t, r, phase) /\ UNCHANGED <<wait_for_graph, waiting, woken>>
    BY DEF RequestGranted
<1>2. record_wait_queues' = [record_wait_queues EXCEPT ![r] = p]
    BY DEF RequestGranted, Pushed
<1>3. WaitsFor(p, last) = {}
    BY DEF RequestGranted, NewEdges, Pushed
<1>4. e \in WaitQElem /\ q \in Seq(WaitQElem) /\ \A n \in 1..Len(q) : q[n].tid # t
    BY <1>1, RequesterFacts
<1>5. /\ p \in Seq(WaitQElem) /\ Len(p) = last /\ last \in 1..Len(p)
      /\ p[last].tid = t /\ p[last].phase = phase
      /\ \A m \in 1..Len(q) : p[m] = q[m]
    BY <1>4, AppendFacts
<1> HIDE DEF e, p
<1>6. /\ record_wait_queues'[r] = p
      /\ \A s \in Records : s # r => record_wait_queues'[s] = record_wait_queues[s]
    BY <1>2 DEF LockInv, TypeOK
<1>7. ~Blocked(p, last)
    BY <1>3, <1>5, BlockedIffWaits
<1>8. \A m \in 1..Len(q) :
         WaitsFor(p, m) = WaitsFor(q, m) /\ (Blocked(p, m) <=> Blocked(q, m))
    BY <1>4, <1>5, AppendKeeps
<1>9. \A m, l \in 1..Len(p) : p[m].tid = p[l].tid => m = l
    <2>1. \A m, l \in 1..Len(q) : q[m].tid = q[l].tid => m = l
        BY DEF LockInv, QueueDistinct
    <2>2. Len(p) = Len(q) + 1 /\ p[Len(q) + 1].tid = t
        BY <1>5
    <2> HIDE DEF q, last
    <2> QED
        BY <2>1, <2>2, <1>4, <1>5, AppendDistinct, Zenon
<1>9a. \A m \in 1..Len(p) : m = last \/ m \in 1..Len(q)
    BY <1>5
<1>10. held[t][r] = "NONE" /\ waiting[t] = NoRecord
    BY <1>1 DEF MayRequest
<1>11. \A u \in Threads : held[u][r] # "NONE" =>
          \E m \in 1..Len(p) : p[m].tid = u /\ p[m].phase = held[u][r] /\ ~Blocked(p, m)
    <2> SUFFICES ASSUME NEW u \in Threads, held[u][r] # "NONE"
                 PROVE  \E m \in 1..Len(p) :
                           p[m].tid = u /\ p[m].phase = held[u][r] /\ ~Blocked(p, m)
        OBVIOUS
    <2>1. PICK m \in 1..Len(q) :
             q[m].tid = u /\ q[m].phase = held[u][r] /\ ~Blocked(q, m)
        BY HolderEntry
    <2> QED
        BY <2>1, <1>4, <1>5, <1>8
<1>12. (StatusInv /\ CountInv)'
    <2>1. p \in Seq(WaitQElem) /\ p = record_wait_queues'[r]
        BY <1>5, <1>6
    <2>2. last \in 1..Len(p) /\ p[last].tid = t /\ p[last].phase = phase
        BY <1>5
    <2>3. Grant(t, r, phase) /\ held[t][r] = "NONE"
        BY <1>1, <1>10
    <2> HIDE DEF q, last
    <2>4. StatusInv' /\ CountInv'
        BY ONLY LockInv, t \in Threads, r \in Records, phase \in Phases,
                <2>1, <2>2, <2>3, <1>6, <1>7, <1>9, <1>11, GrantInv
    <2> QED
        BY <2>4
<1>13. \A u \in Threads : \A s \in Records :
          held'[u][s] = IF u = t /\ s = r THEN phase ELSE held[u][s]
    BY <1>1 DEF Grant, LockInv, TypeOK
<1>14. \A s \in Records : \A m \in 1..Len(record_wait_queues[s]) :
          record_wait_queues[s][m].tid \in Threads
    BY ElemFacts DEF LockInv, TypeOK
<1>15. TypeOK'
    <2>1. table' \in [Records -> LockStatus]
        BY <1>1 DEF Grant, LockInv, TypeOK, LockStatus
    <2>2. readers_count' \in [Records -> Nat]
        BY <1>1 DEF Grant, LockInv, TypeOK
    <2>3. held' \in [Threads -> [Records -> Phases \cup {"NONE"}]]
        BY <1>1 DEF Grant, LockInv, TypeOK
    <2>4. record_wait_queues' \in [Records -> Seq(WaitQElem)]
        BY <1>2, <1>5 DEF LockInv, TypeOK
    <2> QED
        BY <2>1, <2>2, <2>3, <2>4, <1>1 DEF LockInv, TypeOK
<1>16. QueueDistinct'
    BY <1>6, <1>9, Zenon DEF LockInv, QueueDistinct
<1>17. EntryInv'
    <2> SUFFICES ASSUME NEW s \in Records, NEW m \in 1..Len(record_wait_queues'[s])
                 PROVE  LET x == record_wait_queues'[s][m] IN
                        IF waiting[x.tid] = s THEN held'[x.tid][s] = "NONE"
                                              ELSE held'[x.tid][s] = x.phase
        BY <1>1 DEF EntryInv
    <2>1. CASE s # r
        BY <2>1, <1>6, <1>13, <1>14, SMTT(30) DEF LockInv, EntryInv
    <2>2. CASE s = r /\ m = last
        BY <2>2, <1>5, <1>6, <1>10, <1>13, NoRecordAssumption
    <2>3. CASE s = r /\ m \in 1..Len(q)
        BY <2>3, <1>4, <1>5, <1>6, <1>13, <1>14, SMTT(30) DEF LockInv, EntryInv
    <2> QED
        BY <2>1, <2>2, <2>3, <1>6, <1>9a, Zenon
<1>18. HasEntry'
    <2> SUFFICES ASSUME NEW u \in Threads, NEW s \in Records,
                        held'[u][s] # "NONE" \/ waiting[u] = s
                 PROVE  \E m \in 1..Len(record_wait_queues'[s]) :
                           record_wait_queues'[s][m].tid = u
        BY <1>1 DEF HasEntry, Position
    <2>1. CASE u = t /\ s = r
        BY <2>1, <1>5, <1>6
    <2>2. CASE ~(u = t /\ s = r)
        <3>1. PICK m \in 1..Len(record_wait_queues[s]) : record_wait_queues[s][m].tid = u
            BY <2>2, <1>13 DEF LockInv, HasEntry, Position
        <3> QED
            BY <3>1, <1>4, <1>5, <1>6
    <2> QED
        BY <2>1, <2>2
<1>19. WokenInv'
    BY <1>1 DEF LockInv, WokenInv, Asleep
<1>20. NoOvertaking'
    <2> SUFFICES ASSUME NEW s \in Records, NEW m \in 1..Len(record_wait_queues'[s]),
                        held'[record_wait_queues'[s][m].tid][s] # "NONE"
                 PROVE  ~Blocked(record_wait_queues'[s], m)
        BY DEF NoOvertaking
    <2>1. CASE s # r
        BY <2>1, <1>6, <1>13, <1>14 DEF LockInv, NoOvertaking
    <2>2. CASE s = r /\ m = last
        BY <2>2, <1>6, <1>7
    <2>3. CASE s = r /\ m \in 1..Len(q)
        BY <2>3, <1>4, <1>5, <1>6, <1>8, <1>13, <1>14 DEF LockInv, NoOvertaking
    <2> QED
        BY <2>1, <2>2, <2>3, <1>6, <1>9a, Zenon
<1>21. NoLostWakeup'
    <2> SUFFICES ASSUME NEW s \in Records, NEW m \in 1..Len(record_wait_queues'[s]),
                        waiting[record_wait_queues'[s][m].tid] = s,
                        record_wait_queues'[s][m].tid \notin woken
                 PROVE  Blocked(record_wait_queues'[s], m)
        BY <1>1 DEF NoLostWakeup
    <2>1. CASE s # r
        BY <2>1, <1>6 DEF LockInv, NoLostWakeup
    <2>2. CASE s = r /\ m = last
        BY <2>2, <1>5, <1>6, <1>10, NoRecordAssumption
    <2>3. CASE s = r /\ m \in 1..Len(q)
        BY <2>3, <1>5, <1>6, <1>8 DEF LockInv, NoLostWakeup
    <2> QED
        BY <2>1, <2>2, <2>3, <1>6, <1>9a, Zenon
<1>22. GraphExact'
    <2> SUFFICES ASSUME NEW s \in Records, NEW m \in 1..Len(record_wait_queues'[s]),
                        waiting[record_wait_queues'[s][m].tid] = s
                 PROVE  wait_for_graph[record_wait_queues'[s][m].tid]
                           = WaitsFor(record_wait_queues'[s], m)
        BY <1>1 DEF LockInv, GraphExact
    <2>1. CASE s # r
        BY <2>1, <1>6 DEF LockInv, GraphExact
    <2>2. CASE s = r /\ m = last
        BY <2>2, <1>5, <1>6, <1>10, NoRecordAssumption
    <2>3. CASE s = r /\ m \in 1..Len(q)
        BY <2>3, <1>5, <1>6, <1>8 DEF LockInv, GraphExact
    <2> QED
        BY <2>1, <2>2, <2>3, <1>6, <1>9a, Zenon
<1> QED
    BY <1>12, <1>15, <1>16, <1>17, <1>18, <1>19, <1>20, <1>21, <1>22 DEF LockInv

LEMMA RequestSleepsInv ==
    ASSUME LockInv, NEW t \in Threads, NEW r \in Records, NEW phase \in Phases,
           RequestSleeps(t, r, phase)
    PROVE  LockInv'
<1> DEFINE q == record_wait_queues[r]
           e == [tid |-> t, phase |-> phase]
           p == Append(q, e)
           last == Len(q) + 1
<1>1. MayRequest(t, r) /\ UNCHANGED <<table, readers_count, woken, held>>
    BY DEF RequestSleeps
<1>2. record_wait_queues' = [record_wait_queues EXCEPT ![r] = p]
    BY DEF RequestSleeps, Pushed
<1>3. /\ WaitsFor(p, last) # {} /\ WaitsFor(p, last) \in SUBSET Threads
      /\ wait_for_graph' = AddEdges(wait_for_graph, t, WaitsFor(p, last))
    BY <1>1, RequesterFacts DEF RequestSleeps, NewEdges, Pushed
<1>4. /\ e \in WaitQElem /\ q \in Seq(WaitQElem) /\ wait_for_graph[t] = {}
      /\ \A n \in 1..Len(q) : q[n].tid # t
    BY <1>1, RequesterFacts
<1>5. /\ p \in Seq(WaitQElem) /\ Len(p) = last /\ last \in 1..Len(p)
      /\ p[last].tid = t /\ p[last].phase = phase
      /\ \A m \in 1..Len(q) : p[m] = q[m]
    BY <1>4, AppendFacts
<1> HIDE DEF e, p
<1>6. /\ record_wait_queues'[r] = p
      /\ \A s \in Records : s # r => record_wait_queues'[s] = record_wait_queues[s]
    BY <1>2 DEF LockInv, TypeOK
<1>7. Blocked(p, last)
    BY <1>3, <1>5, BlockedIffWaits
<1>8. \A m \in 1..Len(q) :
         WaitsFor(p, m) = WaitsFor(q, m) /\ (Blocked(p, m) <=> Blocked(q, m))
    BY <1>4, <1>5, AppendKeeps
<1>9. \A m, l \in 1..Len(p) : p[m].tid = p[l].tid => m = l
    <2>1. \A m, l \in 1..Len(q) : q[m].tid = q[l].tid => m = l
        BY DEF LockInv, QueueDistinct
    <2>2. Len(p) = Len(q) + 1 /\ p[Len(q) + 1].tid = t
        BY <1>5
    <2> HIDE DEF q, last
    <2> QED
        BY <2>1, <2>2, <1>4, <1>5, AppendDistinct, Zenon
<1>9a. \A m \in 1..Len(p) : m = last \/ m \in 1..Len(q)
    BY <1>5
<1>10. held[t][r] = "NONE" /\ waiting[t] = NoRecord
    BY <1>1 DEF MayRequest
<1>11. \A u \in Threads : waiting'[u] = IF u = t THEN r ELSE waiting[u]
    BY DEF RequestSleeps, LockInv, TypeOK
<1>12. \A u \in Threads :
          wait_for_graph'[u] = IF u = t THEN WaitsFor(p, last) ELSE wait_for_graph[u]
    BY <1>3, <1>4 DEF AddEdges, LockInv, TypeOK, Graphs
<1>14. \A s \in Records : \A m \in 1..Len(record_wait_queues[s]) :
          record_wait_queues[s][m].tid \in Threads
    BY ElemFacts DEF LockInv, TypeOK
<1>15. TypeOK'
    <2>1. waiting' \in [Threads -> Records \cup {NoRecord}]
        BY DEF RequestSleeps, LockInv, TypeOK
    <2>2. wait_for_graph' \in Graphs
        BY <1>3 DEF AddEdges, LockInv, TypeOK, Graphs
    <2>4. record_wait_queues' \in [Records -> Seq(WaitQElem)]
        BY <1>2, <1>5 DEF LockInv, TypeOK
    <2> QED
        BY <2>1, <2>2, <2>4, <1>1 DEF LockInv, TypeOK
<1>16. QueueDistinct'
    BY <1>6, <1>9, Zenon DEF LockInv, QueueDistinct
<1>17. EntryInv'
    <2> SUFFICES ASSUME NEW s \in Records, NEW m \in 1..Len(record_wait_queues'[s])
                 PROVE  LET x == record_wait_queues'[s][m] IN
                        IF waiting'[x.tid] = s THEN held[x.tid][s] = "NONE"
                                               ELSE held[x.tid][s] = x.phase
        BY <1>1 DEF EntryInv
    <2>1. CASE s # r
        BY <2>1, <1>6, <1>10, <1>11, <1>14, NoRecordAssumption DEF LockInv, EntryInv
    <2>2. CASE s = r /\ m = last
        BY <2>2, <1>5, <1>6, <1>10, <1>11
    <2>3. CASE s = r /\ m \in 1..Len(q)
        BY <2>3, <1>4, <1>5, <1>6, <1>11, <1>14 DEF LockInv, EntryInv
    <2> QED
        BY <2>1, <2>2, <2>3, <1>6, <1>9a, Zenon
<1>18. HasEntry'
    <2> SUFFICES ASSUME NEW u \in Threads, NEW s \in Records,
                        held[u][s] # "NONE" \/ waiting'[u] = s
                 PROVE  \E m \in 1..Len(record_wait_queues'[s]) :
                           record_wait_queues'[s][m].tid = u
        BY <1>1 DEF HasEntry, Position
    <2>1. CASE u = t /\ s = r
        BY <2>1, <1>5, <1>6
    <2>2. CASE ~(u = t /\ s = r)
        <3>1. PICK m \in 1..Len(record_wait_queues[s]) : record_wait_queues[s][m].tid = u
            BY <2>2, <1>11 DEF LockInv, HasEntry, Position
        <3> QED
            BY <3>1, <1>4, <1>5, <1>6
    <2> QED
        BY <2>1, <2>2
<1>19. WokenInv'
    BY <1>1, <1>11, NoRecordAssumption DEF LockInv, WokenInv, Asleep, TypeOK
<1>20. NoOvertaking'
    <2> SUFFICES ASSUME NEW s \in Records, NEW m \in 1..Len(record_wait_queues'[s]),
                        held[record_wait_queues'[s][m].tid][s] # "NONE"
                 PROVE  ~Blocked(record_wait_queues'[s], m)
        BY <1>1 DEF NoOvertaking
    <2>1. CASE s # r
        BY <2>1, <1>6, <1>14 DEF LockInv, NoOvertaking
    <2>2. CASE s = r /\ m = last
        BY <2>2, <1>5, <1>6, <1>10
    <2>3. CASE s = r /\ m \in 1..Len(q)
        BY <2>3, <1>5, <1>6, <1>8 DEF LockInv, NoOvertaking
    <2> QED
        BY <2>1, <2>2, <2>3, <1>6, <1>9a, Zenon
<1>21. NoLostWakeup'
    <2> SUFFICES ASSUME NEW s \in Records, NEW m \in 1..Len(record_wait_queues'[s]),
                        waiting'[record_wait_queues'[s][m].tid] = s,
                        record_wait_queues'[s][m].tid \notin woken
                 PROVE  Blocked(record_wait_queues'[s], m)
        BY <1>1 DEF NoLostWakeup
    <2>1. CASE s # r
        BY <2>1, <1>6, <1>11, <1>14 DEF LockInv, NoLostWakeup
    <2>2. CASE s = r /\ m = last
        BY <2>2, <1>6, <1>7
    <2>3. CASE s = r /\ m \in 1..Len(q)
        BY <2>3, <1>4, <1>5, <1>6, <1>8, <1>11, <1>14 DEF LockInv, NoLostWakeup
    <2> QED
        BY <2>1, <2>2, <2>3, <1>6, <1>9a, Zenon
<1>22. GraphExact'
    <2>0. ASSUME NEW u \in Threads, waiting'[u] = NoRecord
          PROVE  wait_for_graph'[u] = {}
        BY <2>0, <1>11, <1>12, NoRecordAssumption DEF LockInv, GraphExact
    <2> SUFFICES ASSUME NEW s \in Records, NEW m \in 1..Len(record_wait_queues'[s]),
                        waiting'[record_wait_queues'[s][m].tid] = s
                 PROVE  wait_for_graph'[record_wait_queues'[s][m].tid]
                           = WaitsFor(record_wait_queues'[s], m)
        BY <2>0 DEF GraphExact
    <2>1. CASE s # r
        BY <2>1, <1>6, <1>11, <1>12, <1>14 DEF LockInv, GraphExact
    <2>2. CASE s = r /\ m = last
        BY <2>2, <1>5, <1>6, <1>12
    <2>3. CASE s = r /\ m \in 1..Len(q)
        BY <2>3, <1>4, <1>5, <1>6, <1>8, <1>11, <1>12, <1>14 DEF LockInv, GraphExact
    <2> QED
        BY <2>1, <2>2, <2>3, <1>6, <1>9a, Zenon
<1>23. StatusInv'
    <2> SUFFICES ASSUME NEW s \in Records
                 PROVE  LET z == record_wait_queues'[s] IN
                        /\ table[s] = "RW_WRITER_LOCK" =>
                              z # << >> /\ held[z[1].tid][s] = "WRITE"
                        /\ table[s] = "RW_READER_LOCK" => z # << >> /\ z[1].phase = "READ"
                        /\ \A u \in Threads :
                              /\ held[u][s] = "READ" => table[s] = "RW_READER_LOCK"
                              /\ held[u][s] = "WRITE" => table[s] = "RW_WRITER_LOCK"
        BY <1>1 DEF StatusInv, IsReader
    <2>1. record_wait_queues[s] # << >> =>
             record_wait_queues'[s] # << >> /\ record_wait_queues'[s][1] = record_wait_queues[s][1]
        BY <1>4, <1>5, <1>6
    <2> QED
        BY <2>1 DEF LockInv, StatusInv, IsReader
<1>24. CountInv'
    BY <1>1 DEF LockInv, CountInv, Readers
<1> QED
    BY <1>15, <1>16, <1>17, <1>18, <1>19, <1>20, <1>21, <1>22, <1>23, <1>24 DEF LockInv

LEMMA ResumeGrantedInv ==
    ASSUME LockInv, NEW t \in Threads, ResumeGranted(t)
    PROVE  LockInv'
<1> DEFINE r == waiting[t]
           q == record_wait_queues[r]
<1>1. PICK n \in Position(t, q) : ~Blocked(q, n) /\ Grant(t, r, q[n].phase)
    BY DEF ResumeGranted
<1>2. r \in Records
    BY DEF ResumeGranted, LockInv, WokenInv, Asleep, TypeOK
<1>3. q \in Seq(WaitQElem) /\ n \in 1..Len(q) /\ q[n].tid = t /\ q[n].phase \in Phases
    BY <1>1, <1>2, ElemFacts DEF Position, LockInv, TypeOK
<1>4. UNCHANGED <<record_wait_queues, wait_for_graph>>
    BY DEF ResumeGranted
<1> DEFINE phase == q[n].phase
<1>5. Grant(t, r, phase) /\ phase \in Phases
    BY <1>1, <1>3
<1>6. held[t][r] = "NONE"
    BY <1>2, <1>3 DEF LockInv, EntryInv
<1>7. WaitsFor(q, n) = {}
    BY <1>1, <1>3, BlockedIffWaits
<1>8. wait_for_graph[t] = {}
    BY <1>2, <1>3, <1>7 DEF LockInv, GraphExact
<1>9. \A m, l \in 1..Len(q) : q[m].tid = q[l].tid => m = l
    BY <1>2 DEF LockInv, QueueDistinct
<1>10. \A u \in Threads : held[u][r] # "NONE" =>
          \E m \in 1..Len(q) : q[m].tid = u /\ q[m].phase = held[u][r] /\ ~Blocked(q, m)
    BY <1>2, HolderEntry
<1>11. \A u \in Threads : waiting'[u] = IF u = t THEN NoRecord ELSE waiting[u]
    BY DEF ResumeGranted, LockInv, TypeOK
<1>12. \A s \in Records : \A m \in 1..Len(record_wait_queues[s]) :
          record_wait_queues[s][m].tid \in Threads
    BY ElemFacts DEF LockInv, TypeOK
<1>13. waiting[t] = r /\ woken' = woken \ {t}
    BY DEF ResumeGranted
<1>13a. waiting' \in [Threads -> Records \cup {NoRecord}]
    BY DEF ResumeGranted, LockInv, TypeOK
<1> HIDE DEF r, phase
<1>14. (StatusInv /\ CountInv)'
    <2>1. q = record_wait_queues'[r]
        BY <1>4
    <2>2. q[n].phase = phase
        BY DEF phase
    <2>3. \A s \in Records : s # r => record_wait_queues'[s] = record_wait_queues[s]
        BY <1>4
    <2> HIDE DEF q
    <2> QED
        BY <1>1, <1>2, <1>3, <1>5, <1>6, <1>9, <1>10, <2>1, <2>2, <2>3, GrantInv
<1>15. \A u \in Threads : \A s \in Records :
          held'[u][s] = IF u = t /\ s = r THEN phase ELSE held[u][s]
    BY <1>2, <1>5 DEF Grant, LockInv, TypeOK
<1>16. TypeOK'
    <2>1. table' \in [Records -> LockStatus]
        BY <1>2, <1>5 DEF Grant, LockInv, TypeOK, LockStatus
    <2>2. readers_count' \in [Records -> Nat]
        BY <1>2, <1>5 DEF Grant, LockInv, TypeOK
    <2>3. held' \in [Threads -> [Records -> Phases \cup {"NONE"}]]
        BY <1>2, <1>5 DEF Grant, LockInv, TypeOK
    <2> QED
        BY <2>1, <2>2, <2>3, <1>4, <1>13, <1>13a DEF LockInv, TypeOK
<1>17. QueueDistinct'
    BY <1>4 DEF LockInv, QueueDistinct
<1>18. EntryInv'
    <2> SUFFICES ASSUME NEW s \in Records, NEW m \in 1..Len(record_wait_queues[s])
                 PROVE  LET x == record_wait_queues[s][m] IN
                        IF waiting'[x.tid] = s THEN held'[x.tid][s] = "NONE"
                                               ELSE held'[x.tid][s] = x.phase
        BY <1>4 DEF EntryInv
    <2>1. CASE record_wait_queues[s][m].tid # t
        BY <2>1, <1>11, <1>12, <1>15 DEF LockInv, EntryInv
    <2>2. CASE record_wait_queues[s][m].tid = t /\ s # r
        BY <2>2, <1>11, <1>13, <1>15, NoRecordAssumption DEF LockInv, EntryInv
    <2>3. CASE record_wait_queues[s][m].tid = t /\ s = r
        <3>1. m = n
            BY <2>3, <1>3, <1>9
        <3> QED
            BY <2>3, <3>1, <1>11, <1>15, NoRecordAssumption DEF phase
    <2> QED
        BY <2>1, <2>2, <2>3
<1>19. HasEntry'
    <2> SUFFICES ASSUME NEW u \in Threads, NEW s \in Records,
                        held'[u][s] # "NONE" \/ waiting'[u] = s
                 PROVE  Position(u, record_wait_queues[s]) # {}
        BY <1>4 DEF HasEntry
    <2>1. held[u][s] # "NONE" \/ waiting[u] = s
        BY <1>11, <1>13, <1>15, NoRecordAssumption
    <2> QED
        BY <2>1 DEF LockInv, HasEntry
<1>20. WokenInv'
    BY <1>11, <1>13 DEF LockInv, WokenInv, Asleep, TypeOK
<1>21. NoOvertaking'
    <2> SUFFICES ASSUME NEW s \in Records, NEW m \in 1..Len(record_wait_queues[s]),
                        held'[record_wait_queues[s][m].tid][s] # "NONE"
                 PROVE  ~Blocked(record_wait_queues[s], m)
        BY <1>4 DEF NoOvertaking
    <2>1. CASE record_wait_queues[s][m].tid = t /\ s = r
        BY <2>1, <1>1, <1>3, <1>9
    <2>2. CASE ~(record_wait_queues[s][m].tid = t /\ s = r)
        BY <2>2, <1>12, <1>15 DEF LockInv, NoOvertaking
    <2> QED
        BY <2>1, <2>2
<1>22. NoLostWakeup'
    <2> SUFFICES ASSUME NEW s \in Records, NEW m \in 1..Len(record_wait_queues[s]),
                        waiting'[record_wait_queues[s][m].tid] = s,
                        record_wait_queues[s][m].tid \notin woken'
                 PROVE  Blocked(record_wait_queues[s], m)
        BY <1>4 DEF NoLostWakeup
    <2> QED
        BY <1>11, <1>12, <1>13, NoRecordAssumption DEF LockInv, NoLostWakeup
<1>23. GraphExact'
    <2>1. ASSUME NEW u \in Threads, waiting'[u] = NoRecord
          PROVE  wait_for_graph[u] = {}
        BY <2>1, <1>8, <1>11 DEF LockInv, GraphExact
    <2>2. ASSUME NEW s \in Records, NEW m \in 1..Len(record_wait_queues[s]),
                 waiting'[record_wait_queues[s][m].tid] = s
          PROVE  wait_for_graph[record_wait_queues[s][m].tid]
                    = WaitsFor(record_wait_queues[s], m)
        BY <2>2, <1>11, <1>12, NoRecordAssumption DEF LockInv, GraphExact
    <2> QED
        BY <2>1, <2>2, <1>4 DEF GraphExact
<1> QED
    BY <1>14, <1>16, <1>17, <1>18, <1>19, <1>20, <1>21, <1>22, <1>23 DEF LockInv

-----------------------------------------------------------------------------
(* Unlock *)

\* What rd_unlock and wr_unlock have in common: the entry of the caller at n
\* is erased, the edges of the requests at the positions P to it are removed,
\* and whoever is no longer blocked is signalled.
LEMMA EraseInv ==
    ASSUME LockInv, NEW t \in Threads, NEW r \in Records,
           waiting[t] = NoRecord, held[t][r] # "NONE",
           NEW q \in Seq(WaitQElem), q = record_wait_queues[r],
           NEW n \in 1..Len(q), q[n].tid = t,
           NEW P \in SUBSET (1..Len(q)), n \notin P,
           record_wait_queues' = [record_wait_queues EXCEPT ![r] = Erase(q, n)],
           held' = [held EXCEPT ![t][r] = "NONE"],
           wait_for_graph' = RemoveEdgesTo(wait_for_graph, Tids(q, P), t),
           waiting' = waiting,
           woken \subseteq woken', woken' \subseteq Asleep,
           \A m \in 1..Len(q) : m # n =>
              /\ \A l \in 1..(m - 1) : l # n =>
                    (Awaits(Erase(q, n), Shift(n, m), Shift(n, l)) <=> Awaits(q, m, l))
              /\ n < m /\ Awaits(q, m, n) <=> m \in P
              /\ Blocked(Erase(q, n), Shift(n, m)) => Blocked(q, m)
              /\ Blocked(q, m) => \/ Blocked(Erase(q, n), Shift(n, m))
                                  \/ q[m].tid \in Asleep => q[m].tid \in woken'
    PROVE  /\ record_wait_queues' \in [Records -> Seq(WaitQElem)]
           /\ wait_for_graph' \in Graphs
           /\ held' \in [Threads -> [Records -> Phases \cup {"NONE"}]]
           /\ woken' \in SUBSET Threads
           /\ (QueueDistinct /\ EntryInv /\ HasEntry /\ WokenInv)'
           /\ (NoOvertaking /\ NoLostWakeup /\ GraphExact)'
<1> DEFINE p == Erase(q, n)
<1>1. p \in Seq(WaitQElem) /\ Len(p) = Len(q) - 1
    BY EraseFacts
<1>2. \A m \in 1..Len(q) : m # n => Shift(n, m) \in 1..Len(p) /\ p[Shift(n, m)] = q[m]
    BY <1>1, ShiftFacts
<1>3. \A k \in 1..Len(p) : \E m \in 1..Len(q) : m # n /\ k = Shift(n, m)
    BY <1>1, ShiftOnto
<1>4. \A m, l \in 1..Len(q) : q[m].tid = q[l].tid => m = l
    BY DEF LockInv, QueueDistinct
<1>5. \A m \in 1..Len(q) : m # n =>
         WaitsFor(p, Shift(n, m)) = IF m \in P THEN WaitsFor(q, m) \ {t} ELSE WaitsFor(q, m)
    <2> SUFFICES ASSUME NEW m \in 1..Len(q), m # n
                 PROVE  WaitsFor(Erase(q, n), Shift(n, m)) =
                           IF m \in P THEN WaitsFor(q, m) \ {q[n].tid} ELSE WaitsFor(q, m)
        OBVIOUS
    <2>1. \A l \in 1..(m - 1) : l # n =>
             (Awaits(Erase(q, n), Shift(n, m), Shift(n, l)) <=> Awaits(q, m, l))
        OBVIOUS
    <2>2. n < m /\ Awaits(q, m, n) <=> m \in P
        OBVIOUS
    <2> QED
        BY ONLY <1>4, <2>1, <2>2, UnlockWaits, q \in Seq(WaitQElem), n \in 1..Len(q), m \in 1..Len(q), m # n
<1> HIDE DEF p
<1>6. /\ record_wait_queues'[r] = p
      /\ \A s \in Records : s # r => record_wait_queues'[s] = record_wait_queues[s]
    BY DEF p, LockInv, TypeOK
<1>7. \A u \in Threads : \A s \in Records :
         held'[u][s] = IF u = t /\ s = r THEN "NONE" ELSE held[u][s]
    BY DEF LockInv, TypeOK
<1>8. \A s \in Records : \A m \in 1..Len(record_wait_queues[s]) :
         record_wait_queues[s][m].tid \in Threads
    BY ElemFacts DEF LockInv, TypeOK
<1>9. \A u \in Threads : wait_for_graph'[u] =
         IF u \in Tids(q, P) THEN wait_for_graph[u] \ {t} ELSE wait_for_graph[u]
    BY DEF RemoveEdgesTo
<1>10. \A m \in 1..Len(q) : q[m].tid \in Tids(q, P) <=> m \in P
    BY <1>4 DEF Tids
<1>11. \A m \in 1..Len(q) : m # n => q[m].tid # t
    BY <1>4
<1>12. /\ record_wait_queues' \in [Records -> Seq(WaitQElem)]
       /\ wait_for_graph' \in Graphs
       /\ held' \in [Threads -> [Records -> Phases \cup {"NONE"}]]
       /\ woken' \in SUBSET Threads
    <2>1. record_wait_queues' \in [Records -> Seq(WaitQElem)]
        BY <1>1 DEF p, LockInv, TypeOK
    <2>2. wait_for_graph' \in Graphs
        BY DEF RemoveEdgesTo, LockInv, TypeOK, Graphs
    <2>3. held' \in [Threads -> [Records -> Phases \cup {"NONE"}]]
        BY DEF LockInv, TypeOK
    <2> QED
        BY <2>1, <2>2, <2>3 DEF Asleep
<1>13. QueueDistinct'
    <2> SUFFICES ASSUME NEW s \in Records,
                        NEW x \in 1..Len(record_wait_queues'[s]),
                        NEW y \in 1..Len(record_wait_queues'[s]),
                        record_wait_queues'[s][x].tid = record_wait_queues'[s][y].tid
                 PROVE  x = y
        BY DEF QueueDistinct
    <2>1. CASE s # r
        BY <2>1, <1>6 DEF LockInv, QueueDistinct
    <2>2. CASE s = r
        <3>1. PICK m \in 1..Len(q) : m # n /\ x = Shift(n, m)
            BY <2>2, <1>3, <1>6
        <3>2. PICK l \in 1..Len(q) : l # n /\ y = Shift(n, l)
            BY <2>2, <1>3, <1>6
        <3>3. m = l
            BY <2>2, <3>1, <3>2, <1>2, <1>4, <1>6, SMTT(30)
        <3> QED
            BY <3>1, <3>2, <3>3
    <2> QED
        BY <2>1, <2>2
<1>14. EntryInv'
    <2> SUFFICES ASSUME NEW s \in Records, NEW k \in 1..Len(record_wait_queues'[s])
                 PROVE  LET x == record_wait_queues'[s][k] IN
                        IF waiting[x.tid] = s THEN held'[x.tid][s] = "NONE"
                                              ELSE held'[x.tid][s] = x.phase
        BY DEF EntryInv
    <2>1. CASE s # r
        BY <2>1, <1>6, <1>7, <1>8 DEF LockInv, EntryInv
    <2>2. CASE s = r
        <3>1. PICK m \in 1..Len(q) : m # n /\ k = Shift(n, m)
            BY <2>2, <1>3, <1>6
        <3>2. record_wait_queues'[s][k] = q[m] /\ q[m].tid # t /\ q[m].tid \in Threads
            BY <2>2, <3>1, <1>2, <1>6, <1>8, <1>11
        <3> QED
            BY <2>2, <3>2, <1>7 DEF LockInv, EntryInv
    <2> QED
        BY <2>1, <2>2
<1>15. HasEntry'
    <2> SUFFICES ASSUME NEW u \in Threads, NEW s \in Records,
                        held'[u][s] # "NONE" \/ waiting[u] = s
                 PROVE  \E k \in 1..Len(record_wait_queues'[s]) :
                           record_wait_queues'[s][k].tid = u
        BY DEF HasEntry, Position
    <2>1. ~(u = t /\ s = r)
        BY <1>7, NoRecordAssumption
    <2>2. PICK m \in 1..Len(record_wait_queues[s]) : record_wait_queues[s][m].tid = u
        BY <1>7 DEF LockInv, HasEntry, Position
    <2>3. CASE s # r
        BY <2>2, <2>3, <1>6
    <2>4. CASE s = r
        <3>1. m # n /\ m \in 1..Len(q)
            BY <2>1, <2>2, <2>4
        <3> QED
            BY <3>1, <2>2, <2>4, <1>2, <1>6
    <2> QED
        BY <2>3, <2>4
<1>16. WokenInv'
    BY DEF WokenInv, Asleep
<1>17. NoOvertaking'
    <2> SUFFICES ASSUME NEW s \in Records, NEW k \in 1..Len(record_wait_queues'[s]),
                        held'[record_wait_queues'[s][k].tid][s] # "NONE"
                 PROVE  ~Blocked(record_wait_queues'[s], k)
        BY DEF NoOvertaking
    <2>1. CASE s # r
        BY <2>1, <1>6, <1>7, <1>8 DEF LockInv, NoOvertaking
    <2>2. CASE s = r
        <3>1. PICK m \in 1..Len(q) : m # n /\ k = Shift(n, m)
            BY <2>2, <1>3, <1>6
        <3>2. record_wait_queues'[s][k] = q[m] /\ q[m].tid # t /\ q[m].tid \in Threads
            BY <2>2, <3>1, <1>2, <1>6, <1>8, <1>11
        <3>3. ~Blocked(q, m)
            BY <2>2, <3>2, <1>7 DEF LockInv, NoOvertaking
        <3> QED
            BY <2>2, <3>1, <3>3, <1>6 DEF p
    <2> QED
        BY <2>1, <2>2
<1>18. NoLostWakeup'
    <2> SUFFICES ASSUME NEW s \in Records, NEW k \in 1..Len(record_wait_queues'[s]),
                        waiting[record_wait_queues'[s][k].tid] = s,
                        record_wait_queues'[s][k].tid \notin woken'
                 PROVE  Blocked(record_wait_queues'[s], k)
        BY DEF NoLostWakeup
    <2>1. CASE s # r
        BY <2>1, <1>6 DEF LockInv, NoLostWakeup
    <2>2. CASE s = r
        <3>1. PICK m \in 1..Len(q) : m # n /\ k = Shift(n, m)
            BY <2>2, <1>3, <1>6
        <3>2. record_wait_queues'[s][k] = q[m] /\ q[m].tid \in Threads
            BY <2>2, <3>1, <1>2, <1>6, <1>8
        <3>3. Blocked(q, m)
            BY <2>2, <3>2 DEF LockInv, NoLostWakeup
        <3>4. q[m].tid \in Asleep /\ q[m].tid \notin woken'
            BY <2>2, <3>2, NoRecordAssumption DEF Asleep
        <3> QED
            BY <2>2, <3>1, <3>3, <3>4, <1>6 DEF p
    <2> QED
        BY <2>1, <2>2
<1>19. GraphExact'
    <2>0. ASSUME NEW u \in Threads, waiting[u] = NoRecord
          PROVE  wait_for_graph'[u] = {}
        BY <2>0, <1>9 DEF LockInv, GraphExact
    <2> SUFFICES ASSUME NEW s \in Records, NEW k \in 1..Len(record_wait_queues'[s]),
                        waiting[record_wait_queues'[s][k].tid] = s
                 PROVE  wait_for_graph'[record_wait_queues'[s][k].tid]
                           = WaitsFor(record_wait_queues'[s], k)
        BY <2>0 DEF GraphExact
    <2>1. CASE s # r
        <3> DEFINE u == record_wait_queues[s][k].tid
        <3>1. u \in Threads /\ waiting[u] = s /\ wait_for_graph[u] = WaitsFor(record_wait_queues[s], k)
            BY <2>1, <1>6, <1>8 DEF LockInv, GraphExact
        <3>2. ASSUME u \in Tids(q, P) PROVE FALSE
            <4>1. PICK m \in P : q[m].tid = u
                BY <3>2 DEF Tids
            <4>2. m \in 1..Len(q) /\ m # n /\ n < m /\ Awaits(q, m, n)
                BY <4>1
            <4>3. WaitsFor(q, m) # {}
                <5>1. m \in Nat /\ n \in 1..(m - 1)
                    BY <4>2
                <5>2. q[n].tid \in WaitsFor(q, m)
                    BY <4>2, <5>1, WaitsForAwaited
                <5> QED
                    BY <5>2
            <4>4. Blocked(q, m)
                BY <4>2, <4>3, BlockedIffWaits
            <4>5. held[u][r] = q[m].phase /\ q[m].phase # "NONE"
                <5>1. q[m].phase \in Phases
                    BY <4>2, ElemFacts
                <5>2. waiting[q[m].tid] # r
                    BY <2>1, <3>1, <4>1
                <5>3. held[q[m].tid][r] = q[m].phase
                    BY <4>2, <5>2 DEF LockInv, EntryInv
                <5> QED
                    BY <4>1, <5>1, <5>3 DEF Phases
            <4> QED
                BY <4>1, <4>2, <4>4, <4>5 DEF LockInv, NoOvertaking
        <3> QED
            BY <2>1, <3>1, <3>2, <1>6, <1>9
    <2>2. CASE s = r
        <3>1. PICK m \in 1..Len(q) : m # n /\ k = Shift(n, m)
            BY <2>2, <1>3, <1>6
        <3>2. record_wait_queues'[s][k] = q[m] /\ q[m].tid \in Threads
            BY <2>2, <3>1, <1>2, <1>6, <1>8
        <3>3. wait_for_graph[q[m].tid] = WaitsFor(q, m)
            BY <2>2, <3>2 DEF LockInv, GraphExact
        <3>4. wait_for_graph'[q[m].tid] =
                 IF m \in P THEN WaitsFor(q, m) \ {t} ELSE WaitsFor(q, m)
            BY <3>2, <3>3, <1>9, <1>10
        <3>5. WaitsFor(p, k) = IF m \in P THEN WaitsFor(q, m) \ {t} ELSE WaitsFor(q, m)
            BY <3>1, <1>5
        <3>6. record_wait_queues'[s] = p
            BY <2>2, <1>6
        <3> QED
            BY <3>2, <3>4, <3>5, <3>6
    <2> QED
        BY <2>1, <2>2
<1> QED
    BY <1>12, <1>13, <1>14, <1>15, <1>16, <1>17, <1>18, <1>19
-----------------------------------------------------------------------------
(* Unlock *)

LEMMA RdUnlockInv ==
    ASSUME LockInv, NEW t \in Threads, NEW r \in Records,
           Unlock(t, r), table[r] = "RW_READER_LOCK", RdUnlock(t, r)
    PROVE  LockInv'
<1> DEFINE q == record_wait_queues[r]
<1>1. waiting[t] = NoRecord /\ held[t][r] # "NONE" /\ waiting' = waiting
      /\ held' = [held EXCEPT ![t][r] = "NONE"]
    BY DEF Unlock
<1>2. held[t][r] = "READ"
    BY <1>1 DEF LockInv, StatusInv, TypeOK, Phases
<1>3. q \in Seq(WaitQElem) /\ Len(q) \in Nat
    BY DEF LockInv, TypeOK
<1>4. PICK n \in Position(t, q) :
         LET last == n = 1 /\ (Len(q) = 1 \/ ~IsReader(q, 2)) IN
         /\ table' = [table EXCEPT ![r] = IF last THEN "RW_UNLOCK" ELSE @]
         /\ readers_count' = [readers_count EXCEPT ![r] = @ - 1]
         /\ wait_for_graph' = RemoveEdgesTo(wait_for_graph, Tids(q, NextWriter(q, n)), t)
         /\ Signal(IF last THEN Tids(q, NextWriter(q, n)) ELSE {})
         /\ record_wait_queues' = [record_wait_queues EXCEPT ![r] = Erase(q, n)]
    BY DEF RdUnlock, LastReader
<1> DEFINE last == n = 1 /\ (Len(q) = 1 \/ ~IsReader(q, 2))
           P == NextWriter(q, n)
           p == Erase(q, n)
<1>5. n \in 1..Len(q) /\ q[n].tid = t
    BY <1>4 DEF Position
<1>6. IsReader(q, n) /\ ~Blocked(q, n)
    <2>1. q[n].phase = "READ"
        BY <1>1, <1>2, <1>5, NoRecordAssumption DEF LockInv, EntryInv
    <2>2. ~Blocked(q, n)
        BY <1>1, <1>5 DEF LockInv, NoOvertaking
    <2> QED
        BY <2>1, <2>2 DEF IsReader
<1>7. \A l \in 1..n : IsReader(q, l)
    BY <1>5, <1>6 DEF Blocked
<1>8. P \in SUBSET (1..Len(q)) /\ n \notin P
    BY <1>3, <1>5 DEF NextWriter
<1>9. /\ woken \subseteq woken' /\ woken' \subseteq Asleep
      /\ last => Tids(q, P) \cap Asleep \subseteq woken'
    BY <1>4 DEF Signal, LockInv, WokenInv
<1>10. \A m \in 1..Len(q) : m # n =>
          /\ \A l \in 1..(m - 1) : l # n =>
                (Awaits(p, Shift(n, m), Shift(n, l)) <=> Awaits(q, m, l))
          /\ n < m /\ Awaits(q, m, n) <=> m \in P
          /\ Blocked(p, Shift(n, m)) => Blocked(q, m)
          /\ Blocked(q, m) => \/ Blocked(p, Shift(n, m))
                              \/ q[m].tid \in Asleep => q[m].tid \in woken'
    <2> SUFFICES ASSUME NEW m \in 1..Len(q), m # n
                 PROVE  /\ \A l \in 1..(m - 1) : l # n =>
                              (Awaits(p, Shift(n, m), Shift(n, l)) <=> Awaits(q, m, l))
                        /\ n < m /\ Awaits(q, m, n) <=> m \in P
                        /\ Blocked(p, Shift(n, m)) => Blocked(q, m)
                        /\ Blocked(q, m) => \/ Blocked(p, Shift(n, m))
                                            \/ q[m].tid \in Asleep => q[m].tid \in woken'
        OBVIOUS
    <2>1. /\ \A l \in 1..(m - 1) : l # n =>
                (Awaits(p, Shift(n, m), Shift(n, l)) <=> Awaits(q, m, l))
          /\ n < m /\ Awaits(q, m, n) <=> m \in P
          /\ Blocked(p, Shift(n, m)) => Blocked(q, m)
          /\ Blocked(q, m) => Blocked(p, Shift(n, m)) \/ (n = 1 /\ m = 2 /\ m \in P)
        BY <1>3, <1>5, <1>7, ReaderLeaves
    <2>2. ASSUME n = 1, m = 2, m \in P PROVE q[m].tid \in Asleep => q[m].tid \in woken'
        <3>1. ~IsReader(q, 2)
            BY <2>2 DEF NextWriter
        <3>2. q[m].tid \in Tids(q, P)
            BY <2>2 DEF Tids
        <3> QED
            BY <2>2, <3>1, <3>2, <1>9
    <2> QED
        BY <2>1, <2>2
<1>11. /\ record_wait_queues' \in [Records -> Seq(WaitQElem)]
       /\ wait_for_graph' \in Graphs
       /\ held' \in [Threads -> [Records -> Phases \cup {"NONE"}]]
       /\ woken' \in SUBSET Threads
       /\ (QueueDistinct /\ EntryInv /\ HasEntry /\ WokenInv)'
       /\ (NoOvertaking /\ NoLostWakeup /\ GraphExact)'
    <2> HIDE DEF P, p
    <2>1. record_wait_queues' = [record_wait_queues EXCEPT ![r] = Erase(q, n)]
        BY <1>4
    <2>2. wait_for_graph' = RemoveEdgesTo(wait_for_graph, Tids(q, P), t)
        BY <1>4 DEF P
    <2> HIDE DEF q
    <2> QED
        BY <1>1, <1>3, <1>5, <1>8, <1>9, <1>10, <2>1, <2>2, EraseInv DEF p, q
<1>12. /\ \A u \in Threads : \A s \in Records :
             held'[u][s] = IF u = t /\ s = r THEN "NONE" ELSE held[u][s]
       /\ \A s \in Records : s # r => /\ record_wait_queues'[s] = record_wait_queues[s]
                                      /\ table'[s] = table[s]
                                      /\ readers_count'[s] = readers_count[s]
       /\ table'[r] = IF last THEN "RW_UNLOCK" ELSE "RW_READER_LOCK"
       /\ readers_count'[r] = readers_count[r] - 1
       /\ record_wait_queues'[r] = p
    BY <1>1, <1>4 DEF LockInv, TypeOK
<1>13. CountInv' /\ readers_count' \in [Records -> Nat]
    <2>1. \A s \in Records : s # r =>
             {u \in Threads : held'[u][s] = "READ"} = {u \in Threads : held[u][s] = "READ"}
        BY <1>12
    <2>2. {u \in Threads : held'[u][r] = "READ"} = Readers(r) \ {t}
        BY <1>12 DEF Readers
    <2>3. IsFiniteSet(Readers(r)) /\ t \in Readers(r)
        BY <1>2, ThreadsAssumption, FS_Subset DEF Readers
    <2>4. Cardinality(Readers(r) \ {t}) = Cardinality(Readers(r)) - 1
        BY <2>3, FS_RemoveElement
    <2>5. Cardinality(Readers(r) \ {t}) \in Nat
        BY <2>3, FS_RemoveElement, FS_CardinalityType
    <2>6. readers_count'[r] = Cardinality(Readers(r) \ {t})
        BY <2>4, <1>12 DEF LockInv, CountInv
    <2>7. readers_count' \in [Records -> Nat]
        <3>1. \A s \in Records : readers_count'[s] \in Nat
            BY <2>5, <2>6, <1>12 DEF LockInv, TypeOK
        <3> QED
            BY <3>1, <1>4 DEF LockInv, TypeOK
    <2>8. CountInv'
        <3> SUFFICES ASSUME NEW s \in Records
                     PROVE  readers_count'[s] = Cardinality({u \in Threads : held'[u][s] = "READ"})
            BY DEF CountInv, Readers
        <3>1. CASE s = r
            BY <3>1, <2>2, <2>6
        <3>2. CASE s # r
            BY <3>2, <2>1, <1>12 DEF LockInv, CountInv, Readers
        <3> QED
            BY <3>1, <3>2
    <2> QED
        BY <2>7, <2>8
<1>14. StatusInv'
    <2> SUFFICES ASSUME NEW s \in Records
                 PROVE  /\ table'[s] = "RW_WRITER_LOCK" =>
                              /\ record_wait_queues'[s] # << >>
                              /\ held'[record_wait_queues'[s][1].tid][s] = "WRITE"
                        /\ table'[s] = "RW_READER_LOCK" =>
                              /\ record_wait_queues'[s] # << >>
                              /\ IsReader(record_wait_queues'[s], 1)
                        /\ \A u \in Threads :
                              /\ held'[u][s] = "READ" => table'[s] = "RW_READER_LOCK"
                              /\ held'[u][s] = "WRITE" => table'[s] = "RW_WRITER_LOCK"
        BY DEF StatusInv
    <2>1. CASE s # r
        <3>1. table[s] = "RW_WRITER_LOCK" =>
                 /\ record_wait_queues[s] # << >>
                 /\ held[record_wait_queues[s][1].tid][s] = "WRITE"
                 /\ record_wait_queues[s][1].tid \in Threads
            <4>1. record_wait_queues[s] \in Seq(WaitQElem)
                BY DEF LockInv, TypeOK
            <4>2. record_wait_queues[s] # << >> => 1 \in 1..Len(record_wait_queues[s])
                BY <4>1
            <4> QED
                BY <4>1, <4>2, ElemFacts DEF LockInv, StatusInv
        <3> QED
            BY <2>1, <3>1, <1>12 DEF LockInv, StatusInv
    <2>2. CASE s = r
        <3>1. ASSUME NEW u \in Threads, held'[u][r] # "NONE"
              PROVE  held'[u][r] = "READ" /\ ~last
            <4>1. u # t /\ held[u][r] = held'[u][r]
                BY <3>1, <1>12
            <4>2. held[u][r] = "READ"
                BY <3>1, <4>1 DEF LockInv, StatusInv, TypeOK, Phases
            <4>3. PICK m \in 1..Len(q) : q[m].tid = u /\ q[m].phase = "READ" /\ ~Blocked(q, m)
                BY <4>2, HolderEntry
            <4>4. m # n
                BY <4>1, <4>3, <1>5
            <4>5. \A l \in 1..m : IsReader(q, l)
                BY <4>3 DEF Blocked, IsReader
            <4>6. ASSUME last PROVE FALSE
                <5>1. n = 1 /\ m >= 2 /\ Len(q) >= 2
                    BY <4>6, <4>4, <1>3, <1>5
                <5>2. IsReader(q, 2)
                    BY <5>1, <4>5
                <5>3. Len(q) # 1
                    <6>1. \A k \in Nat : k >= 2 => k # 1
                        OBVIOUS
                    <6> QED
                        BY <5>1, <6>1, <1>3, Zenon
                <5> QED
                    BY <4>6, <5>2, <5>3, Zenon
            <4> QED
                BY <4>1, <4>2, <4>6
        <3>2. ASSUME ~last PROVE p # << >> /\ IsReader(p, 1)
            <4>1. p \in Seq(WaitQElem) /\ Len(p) = Len(q) - 1
                BY <1>3, <1>5, EraseFacts
            <4>2. Len(q) >= 2
                <5>1. ~(n = 1 /\ Len(q) = 1)
                    BY <3>2, Zenon
                <5>2. \A k \in Nat : \A l \in 1..k : ~(l = 1 /\ k = 1) => k >= 2
                    OBVIOUS
                <5> QED
                    BY <5>1, <5>2, <1>3, <1>5, Zenon
            <4>3. p[1] = q[IF 1 < n THEN 1 ELSE 2]
                BY <4>2, <1>3, <1>5, EraseFacts
            <4>4. IsReader(q, IF 1 < n THEN 1 ELSE 2)
                BY <3>2, <4>2, <1>5, <1>7
            <4> HIDE DEF p
            <4> QED
                BY <4>1, <4>2, <4>3, <4>4 DEF IsReader
        <3> HIDE DEF last, p
        <3>3. table'[r] # "RW_WRITER_LOCK" /\ (table'[r] = "RW_READER_LOCK" => ~last)
            BY <1>12
        <3>4. ~last => table'[r] = "RW_READER_LOCK"
            BY <1>12
        <3> QED
            BY <2>2, <3>1, <3>2, <3>3, <3>4, <1>12
    <2> QED
        BY <2>1, <2>2
<1>15. TypeOK'
    <2>1. table' \in [Records -> LockStatus]
        BY <1>4 DEF LockInv, TypeOK, LockStatus
    <2> QED
        BY <2>1, <1>1, <1>11, <1>13 DEF LockInv, TypeOK
<1> QED
    BY <1>11, <1>13, <1>14, <1>15 DEF LockInv
LEMMA WrUnlockInv ==
    ASSUME LockInv, NEW t \in Threads, NEW r \in Records,
           Unlock(t, r), table[r] = "RW_WRITER_LOCK", WrUnlock(t, r)
    PROVE  LockInv'
<1> DEFINE q == record_wait_queues[r]
           P == FollowingGroup(q)
           p == Erase(q, 1)
<1>1. waiting[t] = NoRecord /\ held[t][r] # "NONE" /\ waiting' = waiting
      /\ held' = [held EXCEPT ![t][r] = "NONE"]
    BY DEF Unlock
<1>2. held[t][r] = "WRITE"
    BY <1>1 DEF LockInv, StatusInv, TypeOK, Phases
<1>3. q \in Seq(WaitQElem) /\ Len(q) \in Nat
    BY DEF LockInv, TypeOK
<1>4. /\ table' = [table EXCEPT ![r] = "RW_UNLOCK"]
      /\ readers_count' = readers_count
      /\ wait_for_graph' = RemoveEdgesTo(wait_for_graph, Tids(q, P), t)
      /\ Signal(Tids(q, P))
      /\ record_wait_queues' = [record_wait_queues EXCEPT ![r] = Erase(q, 1)]
    BY DEF WrUnlock
<1>5. 1 \in 1..Len(q) /\ q[1].tid = t /\ ~IsReader(q, 1) /\ ~Blocked(q, 1)
    <2>1. PICK n \in 1..Len(q) : q[n].tid = t /\ q[n].phase = "WRITE" /\ ~Blocked(q, n)
        BY <1>2, HolderEntry
    <2>2. n = 1
        BY <2>1 DEF Blocked, IsReader
    <2> QED
        BY <2>1, <2>2 DEF IsReader
<1>6. \A u \in Threads : u # t => held[u][r] = "NONE"
    <2> SUFFICES ASSUME NEW u \in Threads, u # t, held[u][r] # "NONE"
                 PROVE  FALSE
        OBVIOUS
    <2>1. PICK m \in 1..Len(q) : q[m].tid = u /\ ~Blocked(q, m)
        BY HolderEntry
    <2>2. m = 1
        BY <2>1, <1>3, <1>5, UnblockedWriterAlone
    <2> QED
        BY <2>1, <2>2, <1>5
<1>7. P \in SUBSET (1..Len(q)) /\ 1 \notin P
    BY <1>3 DEF FollowingGroup
<1>8. /\ woken \subseteq woken' /\ woken' \subseteq Asleep
      /\ Tids(q, P) \cap Asleep \subseteq woken'
    BY <1>4 DEF Signal, LockInv, WokenInv
<1>9. \A m \in 1..Len(q) : m # 1 =>
          /\ \A l \in 1..(m - 1) : l # 1 =>
                (Awaits(p, Shift(1, m), Shift(1, l)) <=> Awaits(q, m, l))
          /\ 1 < m /\ Awaits(q, m, 1) <=> m \in P
          /\ Blocked(p, Shift(1, m)) => Blocked(q, m)
          /\ Blocked(q, m) => \/ Blocked(p, Shift(1, m))
                              \/ q[m].tid \in Asleep => q[m].tid \in woken'
    <2> SUFFICES ASSUME NEW m \in 1..Len(q), m # 1
                 PROVE  /\ \A l \in 1..(m - 1) : l # 1 =>
                              (Awaits(p, Shift(1, m), Shift(1, l)) <=> Awaits(q, m, l))
                        /\ 1 < m /\ Awaits(q, m, 1) <=> m \in P
                        /\ Blocked(p, Shift(1, m)) => Blocked(q, m)
                        /\ Blocked(q, m) => \/ Blocked(p, Shift(1, m))
                                            \/ q[m].tid \in Asleep => q[m].tid \in woken'
        OBVIOUS
    <2>1. Len(q) > 0
        BY <1>3, <1>5
    <2>2. /\ \A l \in 1..(m - 1) : l # 1 =>
                (Awaits(p, Shift(1, m), Shift(1, l)) <=> Awaits(q, m, l))
          /\ 1 < m /\ Awaits(q, m, 1) <=> m \in P
          /\ Blocked(p, Shift(1, m)) => Blocked(q, m)
          /\ Blocked(q, m) => Blocked(p, Shift(1, m)) \/ m \in P
        BY <2>1, <1>3, <1>5, WriterLeaves
    <2>3. m \in P => q[m].tid \in Tids(q, P)
        BY DEF Tids
    <2> QED
        BY <2>2, <2>3, <1>8
<1>10. /\ record_wait_queues' \in [Records -> Seq(WaitQElem)]
       /\ wait_for_graph' \in Graphs
       /\ held' \in [Threads -> [Records -> Phases \cup {"NONE"}]]
       /\ woken' \in SUBSET Threads
       /\ (QueueDistinct /\ EntryInv /\ HasEntry /\ WokenInv)'
       /\ (NoOvertaking /\ NoLostWakeup /\ GraphExact)'
    <2> HIDE DEF P, q, p
    <2> QED
        BY <1>1, <1>3, <1>4, <1>5, <1>7, <1>8, <1>9, EraseInv DEF p, q
<1>11. /\ \A u \in Threads : \A s \in Records :
             held'[u][s] = IF u = t /\ s = r THEN "NONE" ELSE held[u][s]
       /\ \A s \in Records : s # r => /\ record_wait_queues'[s] = record_wait_queues[s]
                                      /\ table'[s] = table[s]
       /\ table'[r] = "RW_UNLOCK"
    BY <1>1, <1>4 DEF LockInv, TypeOK
<1>12. CountInv'
    <2>1. \A s \in Records :
             {u \in Threads : held'[u][s] = "READ"} = {u \in Threads : held[u][s] = "READ"}
        BY <1>2, <1>11
    <2> QED
        BY <2>1, <1>4 DEF LockInv, CountInv, Readers
<1>13. StatusInv'
    <2> SUFFICES ASSUME NEW s \in Records
                 PROVE  /\ table'[s] = "RW_WRITER_LOCK" =>
                              /\ record_wait_queues'[s] # << >>
                              /\ held'[record_wait_queues'[s][1].tid][s] = "WRITE"
                        /\ table'[s] = "RW_READER_LOCK" =>
                              /\ record_wait_queues'[s] # << >>
                              /\ IsReader(record_wait_queues'[s], 1)
                        /\ \A u \in Threads :
                              /\ held'[u][s] = "READ" => table'[s] = "RW_READER_LOCK"
                              /\ held'[u][s] = "WRITE" => table'[s] = "RW_WRITER_LOCK"
        BY DEF StatusInv
    <2>1. CASE s # r
        <3>1. table[s] = "RW_WRITER_LOCK" =>
                 /\ record_wait_queues[s] # << >>
                 /\ held[record_wait_queues[s][1].tid][s] = "WRITE"
                 /\ record_wait_queues[s][1].tid \in Threads
            <4>1. record_wait_queues[s] \in Seq(WaitQElem)
                BY DEF LockInv, TypeOK
            <4>2. record_wait_queues[s] # << >> => 1 \in 1..Len(record_wait_queues[s])
                BY <4>1
            <4> QED
                BY <4>1, <4>2, ElemFacts DEF LockInv, StatusInv
        <3> QED
            BY <2>1, <3>1, <1>11 DEF LockInv, StatusInv
    <2>2. CASE s = r
        BY <2>2, <1>6, <1>11
    <2> QED
        BY <2>1, <2>2
<1>14. TypeOK'
    <2>1. table' \in [Records -> LockStatus]
        BY <1>4 DEF LockInv, TypeOK, LockStatus
    <2> QED
        BY <2>1, <1>1, <1>4, <1>10 DEF LockInv, TypeOK
<1> QED
    BY <1>10, <1>12, <1>13, <1>14 DEF LockInv

-----------------------------------------------------------------------------
(* LockInv is inductive *)

LEMMA NextInv == LockInv /\ [Next]_vars => LockInv'
<1> SUFFICES ASSUME LockInv, [Next]_vars PROVE LockInv'
    OBVIOUS
<1>1. ASSUME NEW t \in Threads, NEW r \in Records, NEW phase \in Phases,
             Request(t, r, phase)
      PROVE  LockInv'
    BY <1>1, RequestGrantedInv, RequestSleepsInv, RequestDeadlockInv DEF Request
<1>2. ASSUME NEW t \in Threads, NEW r \in Records, Unlock(t, r)
      PROVE  LockInv'
    BY <1>2, RdUnlockInv, WrUnlockInv DEF Unlock
<1>3. ASSUME NEW t \in Threads, Resume(t)
      PROVE  LockInv'
    BY <1>3, ResumeGrantedInv, ResumeSleepsInv DEF Resume
<1>4. ASSUME NEW t \in Threads, SpuriousWakeup(t)
      PROVE  LockInv'
    BY <1>4, SpuriousWakeupInv
<1>5. ASSUME UNCHANGED vars
      PROVE  LockInv'
    BY <1>5 DEF vars, LockInv, TypeOK, QueueDistinct, EntryInv, HasEntry, WokenInv,
                Asleep, StatusInv, CountInv, Readers, NoOvertaking, NoLostWakeup, GraphExact
<1> QED
    BY <1>1, <1>2, <1>3, <1>4, <1>5 DEF Next

\* In every reachable state the queues, the table, the reader counts, the
\* grants, the signals and the wait-for graph agree.
THEOREM LockInvariant == Spec => []LockInv
<1> QED
    BY InitInv, NextInv, PTL DEF Spec

-----------------------------------------------------------------------------
(* Safety *)

\* Every variable of the lock table keeps its type; in particular
\* readers_count never falls below zero.
THEOREM TypeCorrect == Spec => []TypeOK
<1>1. LockInv => TypeOK
    BY DEF LockInv
<1> QED
    BY <1>1, LockInvariant, PTL

LEMMA LockInvExcludes == LockInv => MutualExclusion
<1> SUFFICES ASSUME LockInv, NEW t \in Threads, NEW u \in Threads, NEW r \in Records,
                    t # u, held[t][r] = "WRITE", held[u][r] # "NONE"
             PROVE  FALSE
    BY DEF MutualExclusion
<1> DEFINE q == record_wait_queues[r]
<1>1. q \in Seq(WaitQElem)
    BY DEF LockInv, TypeOK
<1>2. PICK n \in 1..Len(q) : q[n].tid = t /\ q[n].phase = "WRITE" /\ ~Blocked(q, n)
    BY HolderEntry
<1>3. PICK m \in 1..Len(q) : q[m].tid = u /\ ~Blocked(q, m)
    BY HolderEntry
<1>4. ~IsReader(q, n)
    BY <1>2 DEF IsReader
<1> HIDE DEF q
<1>5. n = 1 /\ m = 1
    BY <1>1, <1>2, <1>3, <1>4, UnblockedWriterAlone
<1> QED
    BY <1>2, <1>3, <1>5

\* A writer is alone: rdlock and wrlock never grant a record while another
\* thread holds it in a conflicting mode.
THEOREM WriterIsAlone == Spec => []MutualExclusion
<1> QED
    BY LockInvExcludes, LockInvariant, PTL

\* Requests are granted in arrival order up to groups of readers.
THEOREM ArrivalOrder == Spec => []NoOvertaking
<1>1. LockInv => NoOvertaking
    BY DEF LockInv
<1> QED
    BY <1>1, LockInvariant, PTL

\* The signals of rd_unlock, wr_unlock and clear_abort suffice: whoever could
\* go on has been signalled.
THEOREM WakeupsSuffice == Spec => []NoLostWakeup
<1>1. LockInv => NoLostWakeup
    BY DEF LockInv
<1> QED
    BY <1>1, LockInvariant, PTL

\* The edges that unlock and clear_abort take back are exactly those that
\* became obsolete.
THEOREM GraphIsExact == Spec => []GraphExact
<1>1. LockInv => GraphExact
    BY DEF LockInv
<1> QED
    BY <1>1, LockInvariant, PTL

-----------------------------------------------------------------------------
(* No deadlock *)

LEMMA NextAcyclic ==
    LockInv /\ WaitForAcyclic /\ [Next]_vars => WaitForAcyclic'
<1> SUFFICES ASSUME LockInv, Acyclic(wait_for_graph), [Next]_vars
             PROVE  Acyclic(wait_for_graph')
    BY DEF WaitForAcyclic
<1>0. wait_for_graph \in Graphs
    BY DEF LockInv, TypeOK
<1>1. ASSUME NEW t \in Threads, NEW r \in Records, NEW phase \in Phases,
             RequestSleeps(t, r, phase)
      PROVE  Acyclic(wait_for_graph')
    <2>1. MayRequest(t, r)
        BY <1>1 DEF RequestSleeps
    <2>2. NewEdges(t, r, phase) \in SUBSET Threads
        BY <2>1, RequesterFacts
    <2> QED
        BY <1>0, <1>1, <2>2, AddEdgesAcyclic DEF RequestSleeps
<1>2. ASSUME NEW t \in Threads, NEW r \in Records, NEW phase \in Phases,
             RequestDeadlock(t, r, phase)
      PROVE  Acyclic(wait_for_graph')
    <2> DEFINE D == NewEdges(t, r, phase)
    <2>1. wait_for_graph' = RemoveEdges(AddEdges(wait_for_graph, t, D), t, D)
        BY <1>2 DEF RequestDeadlock
    <2>2. wait_for_graph' \in Graphs /\ \A x \in Threads : wait_for_graph'[x] \subseteq wait_for_graph[x]
        BY <1>0, <2>1 DEF RemoveEdges, AddEdges, Graphs
    <2> QED
        BY <1>0, <2>2, FewerEdgesAcyclic
<1>3. ASSUME NEW T, NEW d, wait_for_graph' = RemoveEdgesTo(wait_for_graph, T, d)
      PROVE  Acyclic(wait_for_graph')
    <2>1. wait_for_graph' \in Graphs /\ \A x \in Threads : wait_for_graph'[x] \subseteq wait_for_graph[x]
        BY <1>0, <1>3 DEF RemoveEdgesTo, Graphs
    <2> QED
        BY <1>0, <2>1, FewerEdgesAcyclic
<1>4. ASSUME NEW t \in Threads, NEW r \in Records, Unlock(t, r)
      PROVE  Acyclic(wait_for_graph')
    BY <1>3, <1>4 DEF Unlock, RdUnlock, WrUnlock
<1>5. ASSUME wait_for_graph' = wait_for_graph
      PROVE  Acyclic(wait_for_graph')
    BY <1>5
<1> QED
    BY <1>1, <1>2, <1>4, <1>5
    DEF Next, Request, RequestGranted, Resume, ResumeGranted, ResumeSleeps,
        SpuriousWakeup, vars

\* Deadlock detection at every request, by the requester and for the
\* requester only, keeps the whole wait-for graph free of cycles.
THEOREM NoDeadlock == Spec => []WaitForAcyclic
<1>1. Init => WaitForAcyclic
    <2> SUFFICES ASSUME Init, NEW t \in Threads
                 PROVE  ~Reaches(wait_for_graph, t, t)
        BY DEF WaitForAcyclic, Acyclic, HasCycle
    <2>1. wait_for_graph[t] \subseteq {} /\ ClosedUnder(wait_for_graph, {})
        BY DEF Init, NoEdges, ClosedUnder
    <2> QED
        BY <2>1 DEF Reaches
<1> QED
    BY <1>1, NextAcyclic, LockInvariant, PTL DEF Spec

LEMMA SomeoneRuns ==
    ASSUME Threads # {}, LockInv, WaitForAcyclic
    PROVE  SomeThreadRuns
<1>1. PICK t \in Threads : wait_for_graph[t] = {}
    BY ThreadsAssumption, AcyclicHasSink DEF LockInv, TypeOK, WaitForAcyclic
<1>2. ASSUME waiting[t] # NoRecord, t \notin woken
      PROVE  FALSE
    <2> DEFINE r == waiting[t]
               q == record_wait_queues[r]
    <2>1. r \in Records /\ q \in Seq(WaitQElem)
        BY <1>2 DEF LockInv, TypeOK
    <2>2. PICK n \in 1..Len(q) : q[n].tid = t
        BY <2>1 DEF LockInv, HasEntry, Position
    <2>3. Blocked(q, n)
        BY <1>2, <2>1, <2>2 DEF LockInv, NoLostWakeup
    <2>4. WaitsFor(q, n) = {}
        BY <1>1, <2>1, <2>2 DEF LockInv, GraphExact
    <2> HIDE DEF q
    <2> QED
        BY <2>1, <2>3, <2>4, BlockedIffWaits
<1> QED
    BY <1>2 DEF SomeThreadRuns

\* The program never stands still: at any time some thread is running or has
\* been signalled.
THEOREM NeverAllAsleep == ASSUME Threads # {} PROVE Spec => []SomeThreadRuns
<1>1. LockInv /\ WaitForAcyclic => SomeThreadRuns
    BY SomeoneRuns
<1> QED
    BY <1>1, LockInvariant, NoDeadlock, PTL

-----------------------------------------------------------------------------
(* Refinement *)

\* A request that is not blocked conflicts with no holder of the record.
LEMMA GrantIsCompatible ==
    ASSUME LockInv, NEW t \in Threads, NEW r \in Records, NEW phase \in Phases,
           NEW q \in Seq(WaitQElem), NEW n \in 1..Len(q), ~Blocked(q, n),
           q[n].tid = t, q[n].phase = phase,
           Len(record_wait_queues[r]) <= Len(q),
           \A m \in 1..Len(record_wait_queues[r]) : record_wait_queues[r][m] = q[m],
           NEW u \in Threads \ {t}
    PROVE  held[u][r] = "NONE" \/ (held[u][r] = "READ" /\ phase = "READ")
<1> DEFINE o == record_wait_queues[r]
<1>1. o \in Seq(WaitQElem)
    BY DEF LockInv, TypeOK
<1> SUFFICES ASSUME held[u][r] # "NONE"
             PROVE  held[u][r] = "READ" /\ phase = "READ"
    OBVIOUS
<1>2. PICK m \in 1..Len(o) : o[m].tid = u /\ o[m].phase = held[u][r] /\ ~Blocked(o, m)
    BY HolderEntry
<1>3. m \in 1..Len(q) /\ ~Blocked(q, m) /\ q[m].tid = u /\ q[m].phase = held[u][r]
    <2>1. m \in Nat /\ m > 0 /\ \A l \in 1..m : o[l] = q[l]
        BY <1>1
    <2> HIDE DEF o
    <2>2. Blocked(o, m) <=> Blocked(q, m)
        BY <2>1, PrefixDecides
    <2>3. m \in 1..Len(q)
        BY <1>1 DEF o
    <2> QED
        BY <1>2, <2>1, <2>2, <2>3
<1>4. m # n
    BY <1>3
<1>5. IsReader(q, n)
    BY <1>3, <1>4, UnblockedWriterAlone
<1>6. IsReader(q, m)
    BY <1>3, <1>4, UnblockedWriterAlone
<1> QED
    BY <1>3, <1>5, <1>6 DEF IsReader

LEMMA NextRefines ==
    LockInv /\ [Next]_vars => [RW!Next]_held
<1> SUFFICES ASSUME LockInv, [Next]_vars
             PROVE  RW!Next \/ held' = held
    OBVIOUS
<1>1. ASSUME NEW t \in Threads, NEW r \in Records, NEW phase \in Phases,
             RequestGranted(t, r, phase)
      PROVE  RW!Next
    <2> DEFINE o == record_wait_queues[r]
               e == [tid |-> t, phase |-> phase]
               q == Append(o, e)
               n == Len(o) + 1
    <2>1. MayRequest(t, r) /\ held' = [held EXCEPT ![t][r] = phase]
        BY <1>1 DEF RequestGranted, Grant
    <2>2. e \in WaitQElem /\ o \in Seq(WaitQElem)
        BY <2>1, RequesterFacts
    <2>3. q \in Seq(WaitQElem) /\ Len(q) = n /\ n \in 1..Len(q) /\ q[n] = e /\ Len(o) <= Len(q)
          /\ \A m \in 1..Len(o) : o[m] = q[m]
        BY <2>2, AppendFacts
    <2>4. WaitsFor(q, n) = {}
        BY <1>1 DEF RequestGranted, NewEdges, Pushed
    <2> HIDE DEF q, n
    <2>5. ~Blocked(q, n)
        BY <2>3, <2>4, BlockedIffWaits
    <2>6. q[n].tid = t /\ q[n].phase = phase
        BY <2>3
    <2>7. \A u \in Threads \ {t} :
             held[u][r] = "NONE" \/ (held[u][r] = "READ" /\ phase = "READ")
        BY <2>3, <2>5, <2>6, GrantIsCompatible
    <2>8. RW!Acquire(t, r, phase)
        BY <2>1, <2>7 DEF RW!Acquire, MayRequest
    <2> QED
        BY <2>8 DEF RW!Next, Phases
<1>2. ASSUME NEW t \in Threads, ResumeGranted(t)
      PROVE  RW!Next
    <2> DEFINE r == waiting[t]
               q == record_wait_queues[r]
    <2>1. r \in Records /\ q \in Seq(WaitQElem)
        BY <1>2 DEF ResumeGranted, LockInv, WokenInv, Asleep, TypeOK
    <2>2. PICK n \in Position(t, q) : ~Blocked(q, n) /\ Grant(t, r, q[n].phase)
        BY <1>2 DEF ResumeGranted
    <2>3. n \in 1..Len(q) /\ q[n].tid = t
        BY <2>2 DEF Position
    <2>4. q[n].phase \in Phases
        BY <2>1, <2>3, ElemFacts
    <2>5. held[t][r] = "NONE"
        BY <2>1, <2>3 DEF LockInv, EntryInv
    <2>6. Len(q) <= Len(q) /\ \A m \in 1..Len(record_wait_queues[r]) : record_wait_queues[r][m] = q[m]
        BY <2>1
    <2>7. \A u \in Threads \ {t} :
             held[u][r] = "NONE" \/ (held[u][r] = "READ" /\ q[n].phase = "READ")
        BY <2>1, <2>2, <2>3, <2>4, <2>6, GrantIsCompatible
    <2>8. RW!Acquire(t, r, q[n].phase)
        BY <2>2, <2>5, <2>7 DEF RW!Acquire, Grant
    <2> QED
        BY <2>1, <2>4, <2>8 DEF RW!Next, Phases
<1>3. ASSUME NEW t \in Threads, NEW r \in Records, Unlock(t, r)
      PROVE  RW!Next
    <2>1. RW!Release(t, r)
        BY <1>3 DEF Unlock, RW!Release
    <2> QED
        BY <2>1 DEF RW!Next
<1>4. ASSUME UNCHANGED held
      PROVE  held' = held
    BY <1>4
<1> QED
    BY <1>1, <1>2, <1>3, <1>4
    DEF Next, Request, RequestSleeps, RequestDeadlock, Resume, ResumeSleeps,
        SpuriousWakeup, vars

\* The lock table with its queues, its graph and its sleeping threads
\* implements the plain readers-writer lock.
THEOREM LockTableImplementsLock == Spec => ImplementsReadersWriterLock
<1>1. Init => RW!Init
    BY DEF Init, RW!Init
<1> QED
    BY <1>1, NextRefines, LockInvariant, PTL DEF Spec, ImplementsReadersWriterLock, RW!Spec
-----------------------------------------------------------------------------
(* The assertions of the code *)

\* The thread that waits at m for the holder at n has an edge to it, which
\* remove_edge will find.
LEMMA EdgeToHolder ==
    ASSUME LockInv, NEW r \in Records, NEW q, q = record_wait_queues[r],
           NEW n \in 1..Len(q), NEW m \in 1..Len(q), n < m, Awaits(q, m, n)
    PROVE  q[n].tid \in wait_for_graph[q[m].tid]
<1>1. q \in Seq(WaitQElem)
    BY DEF LockInv, TypeOK
<1>2. m \in Nat /\ n \in 1..(m - 1)
    BY <1>1
<1>3. q[n].tid \in WaitsFor(q, m)
    BY <1>2, WaitsForAwaited
<1>4. Blocked(q, m)
    BY <1>1, <1>3, BlockedIffWaits
<1>5. held[q[m].tid][r] = "NONE"
    BY <1>4 DEF LockInv, NoOvertaking
<1>6. q[m].phase # "NONE"
    BY <1>1, ElemFacts DEF Phases
<1>7. waiting[q[m].tid] = r
    BY <1>5, <1>6 DEF LockInv, EntryInv
<1> QED
    BY <1>3, <1>7 DEF LockInv, GraphExact

LEMMA RdUnlockAssertsHold ==
    ASSUME LockInv, NEW t \in Threads, NEW r \in Records,
           held[t][r] # "NONE", table[r] = "RW_READER_LOCK"
    PROVE  RdUnlockAsserts(t, r)
<1> DEFINE q == record_wait_queues[r]
<1>1. held[t][r] = "READ"
    BY DEF LockInv, StatusInv, TypeOK, Phases
<1>2. q \in Seq(WaitQElem)
    BY DEF LockInv, TypeOK
<1>3. readers_count[r] > 0
    <2>1. t \in Readers(r) /\ IsFiniteSet(Readers(r))
        BY <1>1, ThreadsAssumption, FS_Subset DEF Readers
    <2>2. Cardinality(Readers(r)) \in Nat /\ Cardinality(Readers(r)) # 0
        BY <2>1, FS_EmptySet, FS_CardinalityType
    <2> QED
        BY <2>2 DEF LockInv, CountInv
<1>4. PICK n \in 1..Len(q) : q[n].tid = t /\ q[n].phase = "READ" /\ ~Blocked(q, n)
    BY <1>1, HolderEntry
<1>5. \A m \in 1..n : IsReader(q, m)
    BY <1>4 DEF Blocked, IsReader
<1>6. ASSUME NEW m \in NextWriter(q, n)
      PROVE  t \in wait_for_graph[q[m].tid]
    <2>1. m \in 1..Len(q) /\ m # n
        BY <1>2, <1>4 DEF NextWriter
    <2>2. n < m /\ Awaits(q, m, n)
        BY <1>2, <1>5, <2>1, ReaderLeaves
    <2> QED
        BY <1>4, <2>1, <2>2, EdgeToHolder
<1> QED
    BY <1>3, <1>4, <1>5, <1>6 DEF RdUnlockAsserts, Position, Tids

LEMMA WrUnlockAssertsHold ==
    ASSUME LockInv, NEW t \in Threads, NEW r \in Records,
           held[t][r] # "NONE", table[r] = "RW_WRITER_LOCK"
    PROVE  WrUnlockAsserts(t, r)
<1> DEFINE q == record_wait_queues[r]
<1>1. held[t][r] = "WRITE"
    BY DEF LockInv, StatusInv, TypeOK, Phases
<1>2. q \in Seq(WaitQElem)
    BY DEF LockInv, TypeOK
<1>3. PICK n \in 1..Len(q) : q[n].tid = t /\ q[n].phase = "WRITE" /\ ~Blocked(q, n)
    BY <1>1, HolderEntry
<1>4. n = 1 /\ ~IsReader(q, 1)
    BY <1>3 DEF Blocked, IsReader
<1>5. Len(q) > 0
    BY <1>2
<1>6. ASSUME NEW m \in FollowingGroup(q)
      PROVE  t \in wait_for_graph[q[m].tid]
    <2>1. m \in 1..Len(q) /\ m # 1
        BY <1>2 DEF FollowingGroup
    <2>2. 1 < m /\ Awaits(q, m, 1)
        BY <1>2, <1>4, <1>5, <2>1, WriterLeaves
    <2> QED
        BY <1>3, <1>4, <2>1, <2>2, EdgeToHolder
<1> QED
    BY <1>3, <1>4, <1>5, <1>6 DEF WrUnlockAsserts, Tids

\* Walking back from t along a cycle through t there is a first step: the
\* second cycle member that clear_abort signals.
LEMMA CycleHasPredecessor ==
    ASSUME NEW g \in Graphs, NEW t \in Threads, HasCycle(g, t)
    PROVE  CyclePredecessors(g, t) # {}
<1> SUFFICES ASSUME \A u \in Threads : ~(t \in g[u] /\ Reaches(g, t, u))
             PROVE  FALSE
    BY DEF CyclePredecessors
<1> DEFINE S == {u \in Threads : Reaches(g, t, u) /\ u # t}
<1>1. g[t] \subseteq S
    <2> SUFFICES ASSUME NEW u \in g[t] PROVE u \in S
        OBVIOUS
    <2>1. u \in Threads /\ Reaches(g, t, u)
        BY DEF Graphs, Reaches
    <2> QED
        BY <2>1 DEF HasCycle
<1>2. ClosedUnder(g, S)
    <2> SUFFICES ASSUME NEW x \in S, NEW u \in g[x] PROVE u \in S
        BY DEF ClosedUnder
    <2>1. u \in Threads
        BY DEF Graphs
    <2>2. Reaches(g, t, u)
        BY DEF Reaches, ClosedUnder
    <2> QED
        BY <2>1, <2>2
<1> HIDE DEF S
<1>3. S \in SUBSET Threads /\ t \notin S
    BY DEF S
<1> QED
    BY <1>1, <1>2, <1>3 DEF HasCycle, Reaches

\* A writer whose sleeping loop ends finds the record free.
LEMMA WrLockAssertsHold ==
    ASSUME LockInv, NEW t \in Threads, NEW r \in Records,
           waiting[t] = r,
           NEW n \in Position(t, record_wait_queues[r]),
           ~IsReader(record_wait_queues[r], n), ~Blocked(record_wait_queues[r], n)
    PROVE  WrLockAsserts(t, r, record_wait_queues[r])
<1> DEFINE q == record_wait_queues[r]
<1>1. q \in Seq(WaitQElem)
    BY DEF LockInv, TypeOK
<1>2. n \in 1..Len(q) /\ q[n].tid = t
    BY DEF Position
<1>3. n = 1
    BY <1>2 DEF Blocked
<1>4. held[t][r] = "NONE"
    BY <1>2 DEF LockInv, EntryInv
<1>5. table[r] # "RW_WRITER_LOCK"
    BY <1>2, <1>3, <1>4 DEF LockInv, StatusInv
<1>6. Readers(r) = {}
    <2> SUFFICES ASSUME NEW u \in Threads, held[u][r] = "READ" PROVE FALSE
        BY DEF Readers
    <2>1. PICK m \in 1..Len(q) : q[m].tid = u /\ ~Blocked(q, m)
        BY HolderEntry
    <2>2. m = 1
        BY <1>1, <1>2, <2>1, UnblockedWriterAlone
    <2> QED
        BY <1>2, <1>3, <1>4, <2>1, <2>2
<1>7. readers_count[r] = 0
    BY <1>6, FS_EmptySet DEF LockInv, CountInv
<1> QED
    BY <1>2, <1>3, <1>5, <1>7 DEF WrLockAsserts

LEMMA RequestAssertsHold ==
    ASSUME LockInv, NEW t \in Threads, NEW r \in Records, NEW phase \in Phases,
           MayRequest(t, r)
    PROVE  /\ AddEdgeAsserts(t, r, phase)
           /\ ClearAbortAsserts(t, r, phase)
           /\ phase = "WRITE" /\ NewEdges(t, r, phase) = {}
                 => WrLockAsserts(t, r, Pushed(t, r, phase))
<1> DEFINE o == record_wait_queues[r]
           e == [tid |-> t, phase |-> phase]
           q == Append(o, e)
           n == Len(o) + 1
           D == NewEdges(t, r, phase)
<1>1. /\ \A m \in 1..Len(o) : o[m].tid # t
      /\ wait_for_graph[t] = {}
      /\ D \in SUBSET Threads
      /\ e \in WaitQElem
      /\ o \in Seq(WaitQElem)
    BY RequesterFacts
<1>2. /\ q \in Seq(WaitQElem) /\ Len(q) = n /\ n \in 1..Len(q) /\ q[n] = e
      /\ Len(o) \in Nat /\ n - 1 = Len(o)
      /\ \A m \in 1..Len(o) : q[m] = o[m]
    BY <1>1, AppendFacts
<1>3. D = WaitsFor(q, n)
    BY DEF NewEdges, Pushed
<1>4. AddEdgeAsserts(t, r, phase)
    <2>1. NearestWriter(q, n) \subseteq 1..(n - 1) /\ AheadGroup(q, n) \subseteq 1..(n - 1)
        BY DEF NearestWriter, AheadGroup
    <2> HIDE DEF q, n
    <2>2. \A m \in 1..(n - 1) : q[m].tid # t
        BY <1>1, <1>2
    <2>3. t \notin WaitsFor(q, n)
        BY <2>1, <2>2 DEF WaitsFor
    <2> QED
        BY <1>1, <1>3, <2>3 DEF AddEdgeAsserts
<1>5. ClearAbortAsserts(t, r, phase)
    <2>1. AddEdges(wait_for_graph, t, D) \in Graphs
        BY <1>1 DEF AddEdges, Graphs, LockInv, TypeOK
    <2> QED
        BY <2>1, CycleHasPredecessor DEF ClearAbortAsserts
<1>6. ASSUME phase = "WRITE", D = {}
      PROVE  WrLockAsserts(t, r, q)
    <2>1. ~IsReader(q, n)
        BY <1>2, <1>6 DEF IsReader
    <2>2. ~Blocked(q, n)
        <3> HIDE DEF q, n, D
        <3> QED
            BY <1>2, <1>3, <1>6, BlockedIffWaits
    <2>3. n = 1 /\ o = << >>
        <3>1. ~(n > 1)
            BY <2>1, <2>2 DEF Blocked
        <3> QED
            BY <3>1, <1>1
    <2>4. table[r] # "RW_WRITER_LOCK"
        BY <2>3 DEF LockInv, StatusInv
    <2>5. Readers(r) = {}
        <3> SUFFICES ASSUME NEW u \in Threads, held[u][r] = "READ" PROVE FALSE
            BY DEF Readers
        <3>1. 1..Len(o) # {}
            BY HolderEntry
        <3> QED
            BY <3>1, <2>3
    <2>6. readers_count[r] = 0
        BY <2>5, FS_EmptySet DEF LockInv, CountInv
    <2>7. q[1].tid = t
        BY <1>2, <2>3
    <2> QED
        BY <2>4, <2>6, <2>7 DEF WrLockAsserts
<1> QED
    BY <1>4, <1>5, <1>6 DEF Pushed

\* Nobody holds or waits for a record.
Idle == \A t \in Threads : waiting[t] = NoRecord /\ \A r \in Records : held[t][r] = "NONE"

LEMMA IdleTable == LockInv /\ Idle => Init
<1> SUFFICES ASSUME LockInv, Idle PROVE Init
    OBVIOUS
<1>0. TypeOK
    BY DEF LockInv
<1>1. ASSUME NEW r \in Records PROVE record_wait_queues[r] = << >>
    <2> DEFINE q == record_wait_queues[r]
    <2>0. q \in Seq(WaitQElem)
        BY <1>0 DEF TypeOK
    <2>1. ASSUME NEW n \in 1..Len(q) PROVE FALSE
        <3>1. q[n].tid \in Threads /\ q[n].phase \in Phases
            BY <2>0, ElemFacts
        <3>2. waiting[q[n].tid] # r /\ held[q[n].tid][r] = "NONE"
            BY <3>1, NoRecordAssumption DEF Idle
        <3>3. held[q[n].tid][r] = q[n].phase
            BY <3>2 DEF LockInv, EntryInv
        <3> QED
            BY <3>1, <3>2, <3>3 DEF Phases
    <2>2. Len(q) = 0
        BY <2>0, <2>1
    <2> QED
        BY <2>0, <2>2
<1>2. \A r \in Records : table[r] = "RW_UNLOCK"
    BY <1>0, <1>1 DEF TypeOK, LockStatus, LockInv, StatusInv
<1>3. \A r \in Records : readers_count[r] = 0
    <2>1. \A r \in Records : Readers(r) = {}
        BY DEF Readers, Idle
    <2> QED
        BY <2>1, FS_EmptySet DEF LockInv, CountInv
<1>4. \A t \in Threads : wait_for_graph[t] = {}
    BY DEF LockInv, GraphExact, Idle
<1>5. woken = {}
    BY <1>0 DEF LockInv, WokenInv, Asleep, Idle
<1>6. table = [r \in Records |-> "RW_UNLOCK"] /\ readers_count = [r \in Records |-> 0]
    BY <1>0, <1>2, <1>3 DEF TypeOK
<1>7. record_wait_queues = [r \in Records |-> << >>]
    BY <1>0, <1>1 DEF TypeOK
<1>8. wait_for_graph = NoEdges
    BY <1>0, <1>4 DEF TypeOK, Graphs, NoEdges
<1>9. /\ waiting = [t \in Threads |-> NoRecord]
      /\ held = [t \in Threads |-> [r \in Records |-> "NONE"]]
    BY <1>0 DEF TypeOK, Idle
<1> QED
    BY <1>5, <1>6, <1>7, <1>8, <1>9 DEF Init

\* unlock, clear_abort and a returning rdlock or wrlock clean up after
\* themselves: once nobody holds or waits for a record, the table, the counts,
\* the queues, the wait-for graph and the signals are as at the start.
THEOREM IdleIsInitial == Spec => [](Idle => Init)
<1> QED
    BY IdleTable, LockInvariant, PTL

\* No assert of rw_lock_table.cc and directed_graph.cc can fail, whatever the
\* threads call and in which order, as long as a thread unlocks what it holds
\* and requests what it does not hold.
THEOREM NoAssertionFails == Spec => []AssertionsHold
<1>1. LockInv => AssertionsHold
    <2> SUFFICES ASSUME LockInv, NEW t \in Threads, NEW r \in Records
                 PROVE  /\ held[t][r] # "NONE" =>
                              /\ table[r] # "RW_UNLOCK"
                              /\ table[r] = "RW_READER_LOCK" => RdUnlockAsserts(t, r)
                              /\ table[r] = "RW_WRITER_LOCK" => WrUnlockAsserts(t, r)
                        /\ MayRequest(t, r) => \A phase \in Phases :
                              /\ AddEdgeAsserts(t, r, phase)
                              /\ ClearAbortAsserts(t, r, phase)
                              /\ phase = "WRITE" /\ NewEdges(t, r, phase) = {}
                                    => WrLockAsserts(t, r, Pushed(t, r, phase))
                        /\ waiting[t] = r =>
                              /\ Position(t, record_wait_queues[r]) # {}
                              /\ \A n \in Position(t, record_wait_queues[r]) :
                                    /\ ~IsReader(record_wait_queues[r], n)
                                    /\ ~Blocked(record_wait_queues[r], n)
                                    => WrLockAsserts(t, r, record_wait_queues[r])
        BY DEF AssertionsHold
    <2>1. held[t][r] # "NONE" => table[r] # "RW_UNLOCK"
        BY DEF LockInv, StatusInv, TypeOK, Phases
    <2>2. waiting[t] = r => Position(t, record_wait_queues[r]) # {}
        BY DEF LockInv, HasEntry
    <2> QED
        BY <2>1, <2>2, RdUnlockAssertsHold, WrUnlockAssertsHold, RequestAssertsHold,
           WrLockAssertsHold
<1> QED
    BY <1>1, LockInvariant, PTL
=============================================================================
