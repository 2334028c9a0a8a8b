------------------------- MODULE SearchThreadsProofs -------------------------
(***************************************************************************)
(* Proofs about SearchThreads for any number of threads, any words and any *)
(* queries.  The trie holds the words of the set.  A thread whose waits    *)
(* have returned only when they were signalled never runs while main       *)
(* touches the trie and misses no answer of its share, whatever the other  *)
(* threads do; and while that is so of every thread, a query prints the    *)
(* words that occur in it, once and in order.                              *)
(***************************************************************************)
EXTENDS SearchThreads, FiniteSetTheorems, SequenceTheorems, WellFoundedInduction, TLAPS

-----------------------------------------------------------------------------
(* Prefixes of sequences *)

LEMMA PrefixFacts ==
    ASSUME NEW S, NEW w \in Seq(S), NEW l \in 0..Len(w)
    PROVE  /\ SubSeq(w, 1, l) \in Seq(S)
           /\ Len(SubSeq(w, 1, l)) = l
           /\ \A i \in 1..l : SubSeq(w, 1, l)[i] = w[i]
<1>1. \A i \in 1..l : w[i] \in S
  OBVIOUS
<1> QED
  BY <1>1, SubSeqProperties

\* Two sequences of the same length and elements are the same.
LEMMA SameSeq ==
    ASSUME NEW S, NEW u \in Seq(S), NEW v \in Seq(S), Len(u) = Len(v),
           \A i \in 1..Len(u) : u[i] = v[i]
    PROVE  u = v
  OBVIOUS

LEMMA WholePrefix ==
    ASSUME NEW S, NEW w \in Seq(S)
    PROVE  /\ SubSeq(w, 1, Len(w)) = w
           /\ SubSeq(w, 1, 0) = << >>
           /\ w \in Prefixes(w)
           /\ << >> \in Prefixes(w)
<1>1. SubSeq(w, 1, Len(w)) = w
  BY SubSeqFull
<1>2. SubSeq(w, 1, 0) = << >>
  BY SubSeqEmpty
<1>3. Len(w) \in 0..Len(w) /\ 0 \in 0..Len(w)
  OBVIOUS
<1> QED
  BY <1>1, <1>2, <1>3 DEF Prefixes

LEMMA PrefixOfPrefix ==
    ASSUME NEW S, NEW w \in Seq(S), NEW l \in 0..Len(w), NEW i \in 0..l
    PROVE  SubSeq(SubSeq(w, 1, l), 1, i) = SubSeq(w, 1, i)
<1> DEFINE v == SubSeq(w, 1, l)
<1>1. v \in Seq(S) /\ Len(v) = l /\ \A j \in 1..l : v[j] = w[j]
  BY PrefixFacts
<1>2. /\ SubSeq(v, 1, i) \in Seq(S) /\ Len(SubSeq(v, 1, i)) = i
      /\ \A j \in 1..i : SubSeq(v, 1, i)[j] = v[j]
  <2> HIDE DEF v
  <2> QED
    BY <1>1, PrefixFacts
<1>3. i \in 0..Len(w)
  OBVIOUS
<1>4. /\ SubSeq(w, 1, i) \in Seq(S) /\ Len(SubSeq(w, 1, i)) = i
      /\ \A j \in 1..i : SubSeq(w, 1, i)[j] = w[j]
  BY <1>3, PrefixFacts
<1>5. \A j \in 1..i : SubSeq(v, 1, i)[j] = SubSeq(w, 1, i)[j]
  <2> HIDE DEF v
  <2> QED
    BY <1>1, <1>2, <1>4
<1> QED
  BY <1>2, <1>4, <1>5, SameSeq

LEMMA NextPrefix ==
    ASSUME NEW S, NEW w \in Seq(S), NEW l \in 0..(Len(w) - 1)
    PROVE  Append(SubSeq(w, 1, l), w[l + 1]) = SubSeq(w, 1, l + 1) /\ w[l + 1] \in S
<1> DEFINE v == SubSeq(w, 1, l)
<1>1. v \in Seq(S) /\ Len(v) = l /\ \A j \in 1..l : v[j] = w[j]
  BY PrefixFacts
<1>2. w[l + 1] \in S
  OBVIOUS
<1>3. /\ SubSeq(w, 1, l + 1) \in Seq(S) /\ Len(SubSeq(w, 1, l + 1)) = l + 1
      /\ \A j \in 1..(l + 1) : SubSeq(w, 1, l + 1)[j] = w[j]
  <2>1. l + 1 \in 0..Len(w)
    OBVIOUS
  <2> QED
    BY <2>1, PrefixFacts
<1>4. /\ Append(v, w[l + 1]) \in Seq(S) /\ Len(Append(v, w[l + 1])) = l + 1
      /\ \A j \in 1..(l + 1) : Append(v, w[l + 1])[j] = w[j]
  <2> HIDE DEF v
  <2> QED
    BY <1>1, <1>2
<1>5. \A j \in 1..(l + 1) : Append(v, w[l + 1])[j] = SubSeq(w, 1, l + 1)[j]
  <2> HIDE DEF v
  <2> QED
    BY <1>3, <1>4
<1> QED
  BY <1>2, <1>3, <1>4, <1>5, SameSeq

\* A nonempty set of numbers has a least element.
LEMMA Least ==
    ASSUME NEW S, S \subseteq Nat, S # {}
    PROVE  \E l \in S : \A i \in S : l <= i
<1>1. PICK l \in S : \A i \in S : ~ (<<i, l>> \in OpToRel(<, Nat))
  BY NatLessThanWellFounded, WFMin
<1>2. OpToRel(<, Nat) = {ss \in Nat \X Nat : ss[1] < ss[2]}
  BY Zenon DEF OpToRel
<1>3. \A i \in S : ~ (i < l)
  BY <1>1, <1>2
<1> QED
  BY <1>3


-----------------------------------------------------------------------------
(* Orders of finite sets *)

\* R orders the elements of S.
Orders(R, S) ==
    /\ \A x \in S : <<x, x>> \notin R
    /\ \A x, y \in S : x # y => <<x, y>> \in R \/ <<y, x>> \in R
    /\ \A x, y, z \in S : <<x, y>> \in R /\ <<y, z>> \in R => <<x, z>> \in R

\* How many elements of S are before x.
Rank(R, S, x) == Cardinality({y \in S : <<y, x>> \in R})

\* The rank tells the elements of a finite set apart, and every number less than
\* the size of the set is a rank.
LEMMA Ranks ==
    ASSUME NEW S, IsFiniteSet(S), NEW R, Orders(R, S)
    PROVE  /\ \A x, y \in S : Rank(R, S, x) = Rank(R, S, y) => x = y
           /\ \A n \in 1..Cardinality(S) : \E x \in S : Rank(R, S, x) = n - 1
<1> DEFINE below(x) == {y \in S : <<y, x>> \in R}
           rank == [x \in S |-> Cardinality(below(x))]
           N == Cardinality(S)
<1>1. N \in Nat
  BY FS_CardinalityType
<1>2. ASSUME NEW x \in S
      PROVE  IsFiniteSet(below(x)) /\ Cardinality(below(x)) \in 0..(N - 1)
  <2>1. below(x) \in SUBSET S /\ below(x) # S
    BY DEF Orders
  <2>2. IsFiniteSet(below(x)) /\ Cardinality(below(x)) <= N /\ N # Cardinality(below(x))
    BY <2>1, FS_Subset
  <2>3. Cardinality(below(x)) \in Nat
    BY <2>2, FS_CardinalityType
  <2> QED
    BY <1>1, <2>2, <2>3
<1>3. ASSUME NEW x \in S, NEW y \in S, <<x, y>> \in R
      PROVE  Cardinality(below(x)) # Cardinality(below(y))
  <2>1. below(x) \in SUBSET below(y)
    BY <1>3 DEF Orders
  <2>2. x \in below(y) /\ x \notin below(x)
    BY <1>3 DEF Orders
  <2> QED
    BY <1>2, <2>1, <2>2, FS_Subset
<1>4. \A x, y \in S : rank[x] = rank[y] => x = y
  <2> SUFFICES ASSUME NEW x \in S, NEW y \in S, x # y PROVE rank[x] # rank[y]
    OBVIOUS
  <2>1. rank[x] = Cardinality(below(x)) /\ rank[y] = Cardinality(below(y))
    OBVIOUS
  <2> HIDE DEF rank, below
  <2>2. <<x, y>> \in R \/ <<y, x>> \in R
    BY DEF Orders
  <2> QED
    BY <1>3, <2>1, <2>2
<1>5. rank \in Injection(S, 0..(N - 1))
  <2>1. rank \in [S -> 0..(N - 1)]
    BY <1>2
  <2> QED
    BY <1>4, <2>1 DEF Injection, IsInjective
<1>6. IsFiniteSet(0..(N - 1)) /\ Cardinality(0..(N - 1)) = N
  <2> HIDE DEF N
  <2>1. 0 \in Int /\ N - 1 \in Int
    BY <1>1
  <2>2. /\ IsFiniteSet(0..(N - 1))
        /\ Cardinality(0..(N - 1)) = IF 0 > N - 1 THEN 0 ELSE N - 1 - 0 + 1
    BY <2>1, FS_Interval, Zenon
  <2> QED
    BY <1>1, <2>2
<1>7. rank \in Surjection(S, 0..(N - 1))
  BY <1>5, <1>6, FS_Injection
<1>8. ASSUME NEW n \in 1..Cardinality(S) PROVE \E x \in S : rank[x] = n - 1
  <2>1. n - 1 \in 0..(N - 1)
    BY <1>1, <1>8
  <2> HIDE DEF rank, N
  <2> QED
    BY <1>7, <2>1 DEF Surjection
<1>9. \A x \in S : rank[x] = Rank(R, S, x)
  BY DEF Rank
<1> HIDE DEF rank, N
<1> QED
  BY <1>4, <1>8, <1>9

\* f takes the order R of S to the order Q.
Keeps(f, R, S, Q) == \A x, y \in S : <<x, y>> \in R <=> <<f[x], f[y]>> \in Q

\* f takes the element in each place of S to the one in that place of U.
SamePlaces(f, R, S, Q, U) ==
    \A n \in 1..Cardinality(S) : \E x \in S :
        /\ \A z \in S : Rank(R, S, z) = n - 1 <=> z = x
        /\ \A u \in U : Rank(Q, U, u) = n - 1 <=> u = f[x]

\* Sets with the same order have the same number of elements, and elements in
\* the same places.
LEMMA SameOrder ==
    ASSUME NEW S, IsFiniteSet(S), NEW R, Orders(R, S),
           NEW U, NEW Q, NEW f \in Bijection(S, U), Keeps(f, R, S, Q)
    PROVE  Cardinality(U) = Cardinality(S) /\ SamePlaces(f, R, S, Q, U)
<1>1. f \in [S -> U] /\ (\A x, y \in S : f[x] = f[y] => x = y) /\ (\A u \in U : \E x \in S : f[x] = u)
  BY DEF Bijection, Injection, Surjection, IsInjective
<1>2. Cardinality(U) = Cardinality(S)
  <2>1. ExistsBijection(S, U)
    BY DEF ExistsBijection
  <2> QED
    BY <2>1, FS_Bijection
<1>3. ASSUME NEW x \in S PROVE Rank(Q, U, f[x]) = Rank(R, S, x)
  <2> DEFINE below == {y \in S : <<y, x>> \in R}
             under == {v \in U : <<v, f[x]>> \in Q}
             g == [y \in below |-> f[y]]
  <2>1. g \in [below -> under]
    BY <1>1 DEF Keeps
  <2>2. \A y, z \in below : g[y] = g[z] => y = z
    BY <1>1
  <2>3. \A v \in under : \E y \in below : g[y] = v
    BY <1>1 DEF Keeps
  <2>4. g \in Bijection(below, under)
    <3> HIDE DEF g, below, under
    <3> QED
      BY <2>1, <2>2, <2>3 DEF Bijection, Injection, Surjection, IsInjective
  <2>5. IsFiniteSet(below)
    BY FS_Subset
  <2>6. ExistsBijection(below, under)
    BY <2>4 DEF ExistsBijection
  <2> QED
    BY <2>5, <2>6, FS_Bijection DEF Rank
<1>4. /\ \A x, y \in S : Rank(R, S, x) = Rank(R, S, y) => x = y
      /\ \A n \in 1..Cardinality(S) : \E x \in S : Rank(R, S, x) = n - 1
  BY Ranks
<1>5. ASSUME NEW n \in 1..Cardinality(S)
      PROVE  \E x \in S : /\ \A z \in S : Rank(R, S, z) = n - 1 <=> z = x
                          /\ \A u \in U : Rank(Q, U, u) = n - 1 <=> u = f[x]
  <2>1. PICK x \in S : Rank(R, S, x) = n - 1
    BY <1>4
  <2>2. \A z \in S : Rank(R, S, z) = n - 1 <=> z = x
    BY <1>4, <2>1
  <2>3. ASSUME NEW u \in U PROVE Rank(Q, U, u) = n - 1 <=> u = f[x]
    <3>1. PICK z \in S : f[z] = u
      BY <1>1
    <3>2. Rank(Q, U, u) = Rank(R, S, z)
      BY <1>3, <3>1
    <3> QED
      BY <1>1, <2>2, <3>1, <3>2
  <2> QED
    BY <2>2, <2>3
<1> QED
  BY <1>2, <1>5 DEF SamePlaces


-----------------------------------------------------------------------------
(* The trie *)

\* The way to a node consists of nodes.
PrefixClosed(D) == D \subseteq Seq(Letters) /\ \A n \in D : Prefixes(n) \subseteq D

\* The trie is a tree, the words of the set are its nodes with an id, and no
\* two nodes have the same id.
TrieOK ==
    /\ PrefixClosed(DOMAIN trie) /\ root \in DOMAIN trie
    /\ word_id_generator \in Nat \ {0}
    /\ \A n \in DOMAIN trie : trie[n] \in Nat /\ trie[n] < word_id_generator /\ trie[n] <= MaxIds
    /\ \A m, n \in DOMAIN trie : trie[m] = trie[n] /\ trie[m] # 0 => m = n
    /\ words = {n \in DOMAIN trie : trie[n] # 0}

LEMMA RootClosed == PrefixClosed({root})
<1>1. root \in Seq(Letters) /\ Len(root) = 0
  BY DEF root
<1>2. Prefixes(root) = {SubSeq(root, 1, l) : l \in {0}}
  BY <1>1 DEF Prefixes
<1> QED
  BY <1>1, <1>2, WholePrefix DEF root, PrefixClosed

LEMMA TrieInitOK == TrieInit => TrieOK
<1> SUFFICES ASSUME TrieInit PROVE TrieOK
  OBVIOUS
<1>1. DOMAIN trie = {root} /\ trie[root] = 0 /\ word_id_generator = 1 /\ words = {}
  BY DEF TrieInit, create_trie_node
<1> QED
  BY <1>1, RootClosed, IdsAssumption DEF TrieOK

LEMMA InsertOK ==
    ASSUME TrieOK, NEW w \in Words, insert(w) PROVE TrieOK'
<1>1. w \in Seq(Letters)
  BY WordsAssumption
<1>2. /\ DOMAIN trie' = DOMAIN trie \cup Prefixes(w)
      /\ \A n \in DOMAIN trie' : trie'[n] = IF n = w THEN word_id_generator ELSE Node(trie, n)
      /\ word_id_generator' = word_id_generator + 1
      /\ words' = words \cup {w}
      /\ word_id_generator <= MaxIds
  BY DEF insert
<1>3. w \in Prefixes(w)
  BY <1>1, WholePrefix
<1>4. PrefixClosed(DOMAIN trie')
  <2>1. ASSUME NEW n \in Prefixes(w) PROVE n \in Seq(Letters) /\ Prefixes(n) \subseteq Prefixes(w)
    <3>1. PICK l \in 0..Len(w) : n = SubSeq(w, 1, l)
      BY DEF Prefixes
    <3>2. n \in Seq(Letters) /\ Len(n) = l
      BY <1>1, <3>1, PrefixFacts
    <3>3. \A i \in 0..l : SubSeq(n, 1, i) = SubSeq(w, 1, i) /\ i \in 0..Len(w)
      BY <1>1, <3>1, PrefixOfPrefix
    <3> QED
      BY <3>2, <3>3 DEF Prefixes
  <2> QED
    BY <1>2, <2>1 DEF TrieOK, PrefixClosed
<1>5. \A n \in DOMAIN trie' :
        trie'[n] \in Nat /\ trie'[n] < word_id_generator' /\ trie'[n] <= MaxIds
  BY <1>2, IdsAssumption DEF TrieOK, Node
<1>6. \A m, n \in DOMAIN trie' : trie'[m] = trie'[n] /\ trie'[m] # 0 => m = n
  BY <1>2 DEF TrieOK, Node
<1>7. words' = {n \in DOMAIN trie' : trie'[n] # 0}
  BY <1>2, <1>3 DEF TrieOK, Node
<1>8. root \in DOMAIN trie' /\ word_id_generator' \in Nat \ {0}
  BY <1>2 DEF TrieOK
<1> QED
  BY <1>4, <1>5, <1>6, <1>7, <1>8 DEF TrieOK

\* Nothing is left below a node that erase frees.
LEMMA FreedBelow ==
    ASSUME NEW U, PrefixClosed(DOMAIN U), NEW w \in Seq(Letters),
           NEW n \in Freed(U, w), NEW m \in DOMAIN U, n \in Prefixes(m)
    PROVE  m \in Freed(U, w)
<1> SUFFICES ASSUME m \notin Freed(U, w) PROVE FALSE
  OBVIOUS
<1>1. m \in Seq(Letters)
  BY DEF PrefixClosed
<1>2. PICK l0 \in 0..Len(m) : n = SubSeq(m, 1, l0)
  BY DEF Prefixes
<1> DEFINE S == {l \in l0..Len(m) : SubSeq(m, 1, l) \notin Freed(U, w)}
<1>3. Len(m) \in S /\ S \subseteq Nat
  <2>1. SubSeq(m, 1, Len(m)) = m
    BY <1>1, WholePrefix
  <2>2. Len(m) \in l0..Len(m)
    BY <1>1
  <2>3. l0..Len(m) \subseteq Nat
    BY <1>1
  <2> QED
    BY <2>1, <2>2, <2>3, Zenon
<1>4. PICK l \in S : \A i \in S : l <= i
  <2> HIDE DEF S
  <2> QED
    BY <1>3, Least
<1>5. l # l0 /\ l \in 1..Len(m) /\ l - 1 \in 0..(Len(m) - 1) /\ l - 1 \in l0..Len(m)
  BY <1>1, <1>2, <1>4
<1> DEFINE c == SubSeq(m, 1, l - 1)
           d == SubSeq(m, 1, l)
<1>6. c \in Freed(U, w)
  <2>1. l - 1 \notin S
    BY <1>4, <1>5
  <2> QED
    BY <1>5, <2>1
<1>7. d = Append(c, m[l]) /\ m[l] \in Letters
  <2>1. (l - 1) + 1 = l
    BY <1>5
  <2> QED
    BY <1>1, <1>5, <2>1, NextPrefix
<1>8. d \in DOMAIN U
  <2>1. d \in Prefixes(m)
    BY <1>5 DEF Prefixes
  <2> QED
    BY <2>1 DEF PrefixClosed
<1>9. Len(c) = l - 1 /\ Len(d) = l
  BY <1>1, <1>5, PrefixFacts
<1>10. c \in Prefixes(w) /\ \A v \in Prefixes(w) : Len(c) <= Len(v) => Useless(U, w, v)
  <2> HIDE DEF c
  <2> QED
    BY <1>6 DEF Freed
<1>11. Useless(U, w, c)
  <2> HIDE DEF c
  <2> QED
    BY <1>5, <1>9, <1>10
<1>12. d \in Prefixes(w)
  <2> HIDE DEF c, d
  <2> QED
    BY <1>7, <1>8, <1>11 DEF Useless, child_exist
<1>13. \A v \in Prefixes(w) : Len(v) \in Nat
  <2> SUFFICES ASSUME NEW v \in Prefixes(w) PROVE Len(v) \in Nat
    OBVIOUS
  <2>1. PICK i \in 0..Len(w) : v = SubSeq(w, 1, i)
    BY DEF Prefixes
  <2> QED
    BY <2>1, PrefixFacts
<1>14. d \in Freed(U, w)
  <2> HIDE DEF c, d
  <2> QED
    BY <1>5, <1>9, <1>10, <1>12, <1>13 DEF Freed
<1> QED
  BY <1>4, <1>14

LEMMA ErasedFacts ==
    ASSUME NEW U, PrefixClosed(DOMAIN U), NEW w \in Seq(Letters)
    PROVE  /\ PrefixClosed(DOMAIN erase(U, w)) /\ DOMAIN erase(U, w) \subseteq DOMAIN U
           /\ \A n \in DOMAIN erase(U, w) : erase(U, w)[n] \in {0, U[n]}
           /\ {n \in DOMAIN erase(U, w) : erase(U, w)[n] # 0}
                = {n \in DOMAIN U : U[n] # 0} \ {w}
<1>1. w \in Prefixes(w)
  BY WholePrefix
<1>2. CASE Reaches(U, w) /\ U[w] # 0
  <2>1. erase(U, w) = Erased(U, w)
    BY <1>2 DEF erase
  <2>2. /\ DOMAIN Erased(U, w) = DOMAIN U \ Freed(U, w)
        /\ \A n \in DOMAIN U \ Freed(U, w) : Erased(U, w)[n] = IF n = w THEN 0 ELSE U[n]
    BY DEF Erased
  <2>3. PrefixClosed(DOMAIN U \ Freed(U, w))
    BY FreedBelow DEF PrefixClosed
  <2>4. ASSUME NEW n \in Freed(U, w), n # w PROVE U[n] = 0
    <3>1. n \in Prefixes(w) /\ (Len(n) <= Len(n) => Useless(U, w, n))
      BY DEF Freed
    <3>2. Len(n) \in Nat
      <4>1. PICK i \in 0..Len(w) : n = SubSeq(w, 1, i)
        BY <3>1 DEF Prefixes
      <4> QED
        BY <4>1, PrefixFacts
    <3> QED
      BY <2>4, <3>1, <3>2 DEF Useless
  <2>5. {n \in DOMAIN Erased(U, w) : Erased(U, w)[n] # 0} = {n \in DOMAIN U : U[n] # 0} \ {w}
    BY <2>2, <2>4
  <2> QED
    BY <2>1, <2>2, <2>3, <2>5
<1>3. CASE ~(Reaches(U, w) /\ U[w] # 0)
  <2>1. erase(U, w) = U
    BY <1>3 DEF erase
  <2>2. w \notin DOMAIN U \/ U[w] = 0
    BY <1>3 DEF Reaches, PrefixClosed
  <2> QED
    BY <2>1, <2>2
<1> QED
  BY <1>2, <1>3

LEMMA DeleteOK ==
    ASSUME TrieOK, NEW w \in Words, Delete(w) PROVE TrieOK'
<1> DEFINE U == erase(trie, w)
<1>1. w \in Seq(Letters)
  BY WordsAssumption
<1>2. /\ PrefixClosed(DOMAIN U) /\ DOMAIN U \subseteq DOMAIN trie
      /\ \A n \in DOMAIN U : U[n] \in {0, trie[n]}
      /\ {n \in DOMAIN U : U[n] # 0} = {n \in DOMAIN trie : trie[n] # 0} \ {w}
  BY <1>1, ErasedFacts DEF TrieOK
<1>3. /\ trie' = IF root \in DOMAIN U THEN U ELSE create_trie_node
      /\ words' = words \ {w} /\ word_id_generator' = word_id_generator
  BY DEF Delete
<1>4. CASE root \in DOMAIN U
  <2>1. trie' = U
    BY <1>3, <1>4
  <2> HIDE DEF U
  <2>2. \A n \in DOMAIN trie' :
          trie'[n] \in Nat /\ trie'[n] < word_id_generator' /\ trie'[n] <= MaxIds
    BY <1>2, <1>3, <2>1, IdsAssumption DEF TrieOK
  <2>3. \A m, n \in DOMAIN trie' : trie'[m] = trie'[n] /\ trie'[m] # 0 => m = n
    BY <1>2, <2>1 DEF TrieOK
  <2>4. words' = {n \in DOMAIN trie' : trie'[n] # 0}
    BY <1>2, <1>3, <2>1 DEF TrieOK
  <2>5. PrefixClosed(DOMAIN trie') /\ root \in DOMAIN trie' /\ word_id_generator' \in Nat \ {0}
    BY <1>2, <1>3, <1>4, <2>1 DEF TrieOK
  <2> QED
    BY <2>2, <2>3, <2>4, <2>5 DEF TrieOK
<1>5. CASE root \notin DOMAIN U
  <2>1. DOMAIN U = {}
    BY <1>2, <1>5, WholePrefix DEF PrefixClosed, root
  <2>2. words' = {}
    <3> HIDE DEF U
    <3> QED
      BY <1>2, <1>3, <2>1 DEF TrieOK
  <2>3. DOMAIN trie' = {root} /\ trie'[root] = 0
    BY <1>3, <1>5 DEF create_trie_node
  <2> QED
    BY <1>3, <2>2, <2>3, RootClosed, IdsAssumption DEF TrieOK
<1> QED
  BY <1>4, <1>5


-----------------------------------------------------------------------------
(* The inductive invariant *)

MainLabels == {"load", "create", "started", "command", "args", "reset", "signal", "poll",
               "print", "printed", "broadcast", "join", "end", "exited", "corrupt"}
Labels == {"none", "lock", "flag", "wait", "waiting", "woken", "args", "search", "done"}

TypeOK ==
    /\ main \in MainLabels
    /\ k \in 0..(T - 1)
    /\ tid \in 0..T
    /\ str_buffer \in Seq(Letters)
    /\ behind \in Seq(Letters \cup {Nul})
    /\ roots \in Nat
    /\ spurious \in [Threads -> Nat]
    /\ pc \in [Threads -> Labels]
    /\ cond_mutex \in [Threads -> BOOLEAN]
    /\ thread_is_sleep \in [Threads -> BOOLEAN]
    /\ thread_args \in [Threads -> [root : Nat, at : Nat, length : Nat]]
    /\ data \in [Threads -> [root : Nat, at : Nat, left : Nat]]
    /\ DOMAIN local_answers = Threads
    /\ finished \in BOOLEAN

\* What a thread can be up to, by the part of its loop and its flag.
Absent(t) == pc[t] = "none" /\ ~thread_is_sleep[t]
InWait(t) == pc[t] \in {"wait", "waiting"}
Asleep(t) == InWait(t) /\ thread_is_sleep[t]
Roused(t) == InWait(t) /\ ~thread_is_sleep[t]
Starting(t) == pc[t] \in {"lock", "flag"} /\ ~thread_is_sleep[t]
Working(t) == pc[t] \in {"woken", "args", "search", "lock", "flag"} /\ ~thread_is_sleep[t]
Leaving(t) == pc[t] \in {"woken", "done"}

\* What an undisturbed thread is up to, by where main is.
PoolOK(t) ==
    /\ cond_mutex[t] <=> pc[t] \in {"flag", "wait"}
    /\ main = "load" => Absent(t)
    /\ main = "create" => IF t < k THEN Asleep(t) ELSE Absent(t)
    /\ main = "started" => \/ t < k /\ Asleep(t)
                           \/ t = k /\ (Starting(t) \/ Asleep(t))
                           \/ t > k /\ Absent(t)
    /\ main \in {"command", "args", "print", "printed"} => Asleep(t)
    /\ main = "reset" => IF t < k THEN Roused(t) ELSE Asleep(t)
    /\ main = "signal" => \/ t < k /\ (Working(t) \/ Asleep(t))
                          \/ k <= t /\ t < tid /\ Roused(t)
                          \/ tid <= t /\ Asleep(t)
    /\ main = "poll" => IF k <= t /\ t < tid THEN Working(t) \/ Asleep(t) ELSE Asleep(t)
    /\ main = "broadcast" => IF t < k THEN Leaving(t) ELSE Asleep(t)
    /\ main \in {"join", "end"} => Leaving(t)

MainOK ==
    /\ main # "corrupt" => (finished <=> main \in {"broadcast", "join", "end"})
    /\ main \in {"args", "reset", "signal", "poll", "print"} => str_buffer # << >>
    /\ main = "load" => k = 0
    /\ main \in {"reset", "signal", "poll"} => k < tid
    /\ main # "end" => TrieOK

\* The positions of the query that thread t is given.
Base(t) == t * search_itertion_number
Share(t) ==
    {p \in 1..Len(str_buffer) : Base(t) < p /\ p <= Base(t) + search_itertion_number}

AnswersOf(S) == UNION {Answers(p) : p \in S}

\* What a thread has found, by how far it is.
FoundOK(t) ==
    /\ pc[t] \in {"woken", "args"} \/ Roused(t) => local_answers[t] = {}
    /\ pc[t] = "search" =>
          /\ Base(t) < data[t].at /\ data[t].at <= Len(str_buffer) + 1
          /\ data[t].at + data[t].left = Base(t) + search_itertion_number + 1
          /\ data[t].root = roots
          /\ local_answers[t] = AnswersOf({p \in Share(t) : p < data[t].at})
    /\ pc[t] \in {"lock", "flag"} \/ Asleep(t) => local_answers[t] = AnswersOf(Share(t))

AnswersOK(t) ==
    /\ main \in {"args", "reset", "signal", "poll", "print"} /\ t < tid =>
          /\ Base(t) < Len(str_buffer)
          /\ thread_args[t] = [root |-> roots, at |-> 1 + Base(t),
                               length |-> search_itertion_number]
    /\ main \in {"signal", "poll"} /\ t < tid => FoundOK(t)
    /\ main = "print" /\ t < tid => local_answers[t] = AnswersOf(Share(t))
    /\ main \notin {"signal", "poll", "print", "corrupt"} \/ tid <= t => local_answers[t] = {}

\* The threads that have work share all positions of the query.
SharesOK ==
    main \in {"reset", "signal", "poll", "print"} => Len(str_buffer) <= Base(tid)

SearchInv ==
    /\ TypeOK /\ MainOK /\ SharesOK
    /\ \A t \in Undisturbed : PoolOK(t) /\ AnswersOK(t)

\* The words of the set that occur in the query, by place and length.
WordsIn(q) ==
    {o \in (1..Len(q)) \X (1..Len(q)) :
        o[1] + o[2] - 1 <= Len(q) /\ SubSeq(q, o[1], o[1] + o[2] - 1) \in words}

\* When main prints, an undisturbed thread has found occurrences of words of the
\* set in the query and nothing else; an occurrence begins in the share of some
\* thread, and that thread, if it is undisturbed, has found it; and two answers
\* have the same id, of which main prints one, only if they are of the same word.
AllFound ==
    main = "print" =>
        LET answers == UNION {local_answers[t] : t \in Undisturbed}
        IN  /\ {<<a.at, a.length>> : a \in answers} \subseteq WordsIn(str_buffer)
            /\ \A o \in WordsIn(str_buffer) : \E t \in Threads :
                  /\ o[1] \in Share(t)
                  /\ t \in Undisturbed => \E a \in local_answers[t] : o = <<a.at, a.length>>
            /\ \A a, c \in answers : a.id = c.id <=> Text(a) = Text(c)


-----------------------------------------------------------------------------
(* Counters and shares *)

LEMMA NextCounter ==
    ASSUME NEW n \in Nat \ {0}, NEW j \in 0..(n - 1)
    PROVE  (j + 1) % n = IF j = n - 1 THEN 0 ELSE j + 1
  OBVIOUS

LEMMA ShareSize ==
    ASSUME str_buffer \in Seq(Letters)
    PROVE  /\ search_itertion_number \in Nat \ {0}
           /\ Len(str_buffer) \in Nat
           /\ Len(str_buffer) < T * search_itertion_number
           /\ \A t \in Nat : Base(t) \in Nat /\ Base(t + 1) = Base(t) + search_itertion_number
<1> DEFINE n == Len(str_buffer)
<1>1. n \in Nat
  OBVIOUS
<1>2. n \div T \in Nat /\ n < T * (n \div T + 1)
  <2> HIDE DEF n
  <2> QED
    BY <1>1, TAssumption
<1>3. search_itertion_number \in Nat \ {0} /\ n < T * search_itertion_number
  BY <1>2 DEF search_itertion_number
<1>4. ASSUME NEW t \in Nat PROVE Base(t) \in Nat /\ Base(t + 1) = Base(t) + search_itertion_number
  BY <1>3 DEF Base
<1> QED
  BY <1>1, <1>3, <1>4

LEMMA KeepAnswers ==
    ASSUME UNCHANGED <<trie, str_buffer, behind>>
    PROVE  /\ search_itertion_number' = search_itertion_number
           /\ \A t : Base(t)' = Base(t) /\ Share(t)' = Share(t)
           /\ \A S : AnswersOf(S)' = AnswersOf(S)
<1>1. search_itertion_number' = search_itertion_number
  BY DEF search_itertion_number
<1>2. \A t : Base(t)' = Base(t) /\ Share(t)' = Share(t)
  BY <1>1 DEF Base, Share
<1>3. \A p : Answers(p)' = Answers(p)
  BY DEF Answers, Node, Bytes
<1>4. \A S : AnswersOf(S)' = AnswersOf(S)
  BY <1>3 DEF AnswersOf
<1> QED
  BY <1>1, <1>2, <1>4

\* The memory of str_buffer is the argument, a Nul and what is behind it.
LEMMA BytesFacts ==
    ASSUME TypeOK
    PROVE  /\ Bytes \in Seq(Letters \cup {Nul})
           /\ Len(str_buffer) \in Nat /\ Len(behind) \in Nat
           /\ Len(Bytes) = Len(str_buffer) + 1 + Len(behind)
           /\ \A i \in 1..Len(str_buffer) : Bytes[i] = str_buffer[i] /\ str_buffer[i] \in Letters
           /\ Bytes[Len(str_buffer) + 1] = Nul
<1> DEFINE B == Letters \cup {Nul}
           q == str_buffer
<1>1. q \in Seq(B) /\ <<Nul>> \in Seq(B) /\ behind \in Seq(B) /\ q \in Seq(Letters)
  BY DEF TypeOK
<1> HIDE DEF B
<1>2. /\ q \o <<Nul>> \in Seq(B) /\ Len(q \o <<Nul>>) = Len(q) + 1
      /\ \A i \in 1..Len(q) : (q \o <<Nul>>)[i] = q[i]
      /\ (q \o <<Nul>>)[Len(q) + 1] = Nul
  BY <1>1
<1>3. /\ Bytes \in Seq(B) /\ Len(Bytes) = Len(q \o <<Nul>>) + Len(behind)
      /\ \A i \in 1..Len(q \o <<Nul>>) : Bytes[i] = (q \o <<Nul>>)[i]
  BY <1>1, <1>2 DEF Bytes
<1>4. Len(q) \in Nat /\ Len(behind) \in Nat /\ \A i \in 1..Len(q) : q[i] \in Letters
  BY <1>1
<1> QED
  BY <1>2, <1>3, <1>4 DEF B

\* An argument is read into the memory.
LEMMA ReadFacts ==
    ASSUME TypeOK, NEW w \in Seq(Letters), Read(w)
    PROVE  str_buffer' \in Seq(Letters) /\ behind' \in Seq(Letters \cup {Nul})
<1>1. Bytes \in Seq(Letters \cup {Nul}) /\ Len(Bytes) \in Nat
  BY BytesFacts
<1>2. behind' = SubSeq(Bytes, Len(w) + 2, Len(Bytes)) /\ str_buffer' = w
  BY DEF Read
<1>3. \A i \in (Len(w) + 2)..Len(Bytes) : Bytes[i] \in Letters \cup {Nul}
  BY <1>1
<1> HIDE DEF Read
<1>4. Len(w) + 2 \in Int
  OBVIOUS
<1>5. SubSeq(Bytes, Len(w) + 2, Len(Bytes)) \in Seq(Letters \cup {Nul})
  BY <1>1, <1>3, <1>4, SubSeqProperties
<1> QED
  BY <1>2, <1>5

\* What a step has to preserve for the threads that stay undisturbed.
LEMMA Preserved ==
    ASSUME TypeOK', MainOK', SharesOK', UNCHANGED spurious,
           \A t \in Undisturbed : PoolOK(t)' /\ AnswersOK(t)'
    PROVE  SearchInv'
<1>1. Undisturbed' = Undisturbed
  BY DEF Undisturbed
<1> QED
  BY <1>1 DEF SearchInv

-----------------------------------------------------------------------------
(* The steps of a search thread *)

\* A step of a thread touches nothing of the others, and it is up to it what
\* its own part of the invariant is.
LEMMA ThreadFrame ==
    ASSUME SearchInv, NEW t \in Threads, UNCHANGED mainVars, TypeOK',
           t \in Undisturbed => PoolOK(t)' /\ AnswersOK(t)',
           \A u \in Threads \ {t} :
              /\ pc'[u] = pc[u] /\ cond_mutex'[u] = cond_mutex[u]
              /\ thread_is_sleep'[u] = thread_is_sleep[u] /\ data'[u] = data[u]
              /\ local_answers'[u] = local_answers[u]
    PROVE  SearchInv'
<1>1. /\ UNCHANGED <<main, k, tid, str_buffer, behind, spurious, finished, thread_args, trie, roots,
                     word_id_generator, words>>
  BY DEF mainVars, buffer, trieVars
<1>2. /\ search_itertion_number' = search_itertion_number
      /\ \A u : Base(u)' = Base(u) /\ Share(u)' = Share(u)
      /\ \A S : AnswersOf(S)' = AnswersOf(S)
  BY <1>1, KeepAnswers
<1>3. MainOK' /\ SharesOK'
  <2>1. TrieOK' <=> TrieOK
    BY <1>1 DEF TrieOK, PrefixClosed
  <2> QED
    BY <1>1, <1>2, <2>1 DEF SearchInv, MainOK, SharesOK, Base
<1>4. ASSUME NEW u \in Undisturbed \ {t} PROVE PoolOK(u)'
  <2>1. PoolOK(u)
    BY DEF SearchInv
  <2>2. u \in Threads \ {t}
    BY DEF Undisturbed
  <2> QED
    BY <1>1, <2>1, <2>2 DEF PoolOK, Absent, InWait, Asleep, Roused, Starting, Working, Leaving
<1>5. ASSUME NEW u \in Undisturbed \ {t} PROVE AnswersOK(u)'
  <2>1. AnswersOK(u)
    BY DEF SearchInv
  <2>2. u \in Threads \ {t}
    BY DEF Undisturbed
  <2>3. Asleep(u)' = Asleep(u) /\ Roused(u)' = Roused(u)
    BY <2>2 DEF Asleep, Roused, InWait
  <2>4. FoundOK(u)' <=> FoundOK(u)
    BY <1>1, <1>2, <2>2, <2>3 DEF FoundOK
  <2> QED
    BY <1>1, <1>2, <2>1, <2>2, <2>4 DEF AnswersOK
<1> QED
  BY <1>1, <1>3, <1>4, <1>5, Preserved


\* Only a thread that is starting, working or leaving runs.
LEMMA RunningThread ==
    ASSUME SearchInv, ~Stopped, NEW t \in Undisturbed
    PROVE  /\ pc[t] \in {"args", "search"} => main \in {"signal", "poll"} /\ t < tid /\ ~thread_is_sleep[t]
           /\ pc[t] = "woken" =>
                 \/ main \in {"signal", "poll"} /\ t < tid /\ ~thread_is_sleep[t] /\ ~finished
                 \/ main \in {"broadcast", "join", "end"} /\ finished
           /\ pc[t] \in {"lock", "flag"} =>
                 /\ ~thread_is_sleep[t]
                 /\ \/ main \in {"signal", "poll"} /\ t < tid
                    \/ main = "started" /\ t = k
<1>1. PoolOK(t) /\ MainOK /\ TypeOK
  BY DEF SearchInv
<1>2. main = "signal" => k < tid
  BY <1>1 DEF MainOK
<1>3. t \in Int /\ k \in Int /\ tid \in Int
  BY <1>1, TAssumption DEF TypeOK, Threads, Undisturbed
<1>4. main \in {"reset", "args", "command", "print", "printed", "load", "create"} =>
        pc[t] \in {"wait", "waiting", "none"}
  BY <1>1 DEF PoolOK, Absent, InWait, Asleep, Roused
<1>5. main \in {"broadcast", "join", "end"} => pc[t] \in {"wait", "waiting", "woken", "done"} /\ finished
  BY <1>1 DEF PoolOK, InWait, Asleep, Leaving, MainOK
<1>6. main = "started" => \/ pc[t] \in {"wait", "waiting", "none"}
                          \/ pc[t] \in {"lock", "flag"} /\ ~thread_is_sleep[t] /\ t = k
  BY <1>1 DEF PoolOK, Absent, InWait, Asleep, Starting
<1>7. main \in {"signal", "poll"} =>
        /\ ~finished
        /\ \/ pc[t] \in {"wait", "waiting"}
           \/ t < tid /\ ~thread_is_sleep[t]
  BY <1>1, <1>2, <1>3 DEF PoolOK, InWait, Asleep, Roused, Working, MainOK
<1> QED
  BY <1>1, <1>4, <1>5, <1>6, <1>7 DEF TypeOK, MainLabels, Stopped

\* Of a thread's own part of the invariant, its step can disturb its place in
\* the pool and what it has found.
LEMMA ThreadPart ==
    ASSUME SearchInv, ~Stopped, NEW t \in Undisturbed, UNCHANGED mainVars,
           main \in {"signal", "poll"} /\ t < tid => FoundOK(t)',
           main \notin {"signal", "poll"} \/ tid <= t => local_answers'[t] = local_answers[t]
    PROVE  AnswersOK(t)'
<1>1. UNCHANGED <<main, tid, str_buffer, behind, thread_args, trie, roots>>
  BY DEF mainVars, buffer, trieVars
<1>2. /\ search_itertion_number' = search_itertion_number
      /\ \A u : Base(u)' = Base(u) /\ Share(u)' = Share(u)
      /\ \A S : AnswersOf(S)' = AnswersOf(S)
  BY <1>1, KeepAnswers
<1>3. AnswersOK(t)
  BY DEF SearchInv
<1>4. \/ main \in {"signal", "poll"} /\ t < tid /\ ~(tid <= t)
      \/ main \notin {"signal", "poll"} \/ tid <= t
  BY TAssumption DEF SearchInv, TypeOK, Threads, Undisturbed
<1> QED
  BY <1>1, <1>2, <1>3, <1>4 DEF AnswersOK, Stopped

LEMMA LockToSleepInv ==
    ASSUME SearchInv, NEW t \in Undisturbed, ~Stopped, LockToSleep(t) PROVE SearchInv'
<1>1. /\ pc[t] = "lock" /\ UNCHANGED mainVars
      /\ UNCHANGED <<main, k, tid, str_buffer, behind, spurious, finished, thread_args, trie, roots,
                     thread_is_sleep, data, local_answers>>
      /\ pc' = [pc EXCEPT ![t] = "flag"]
      /\ cond_mutex' = [cond_mutex EXCEPT ![t] = TRUE]
  BY DEF LockToSleep, At, Goto, mainVars, buffer, trieVars
<1>2. TypeOK /\ PoolOK(t) /\ AnswersOK(t) /\ t \in Threads
  BY DEF SearchInv, Undisturbed
<1>3. TypeOK'
  BY <1>1, <1>2 DEF TypeOK, Labels
<1>4. pc'[t] = "flag" /\ cond_mutex'[t]
  BY <1>1, <1>2 DEF TypeOK
<1>5. PoolOK(t)'
  BY <1>1, <1>2, <1>4 DEF PoolOK, Absent, InWait, Asleep, Roused, Starting, Working, Leaving
<1>6. main \in {"signal", "poll"} /\ t < tid => FoundOK(t)'
  BY <1>1, <1>2, <1>4, KeepAnswers DEF AnswersOK, FoundOK, Roused, Asleep, InWait
<1>7. AnswersOK(t)'
  BY <1>1, <1>6, ThreadPart
<1> QED
  BY <1>1, <1>2, <1>3, <1>5, <1>7, ThreadFrame DEF TypeOK

LEMMA SetSleepInv ==
    ASSUME SearchInv, NEW t \in Undisturbed, ~Stopped, SetSleep(t) PROVE SearchInv'
<1>1. /\ pc[t] = "flag" /\ UNCHANGED mainVars
      /\ UNCHANGED <<main, k, tid, str_buffer, behind, spurious, finished, thread_args, trie, roots,
                     cond_mutex, data, local_answers>>
      /\ pc' = [pc EXCEPT ![t] = "wait"]
      /\ thread_is_sleep' = [thread_is_sleep EXCEPT ![t] = TRUE]
  BY DEF SetSleep, At, Goto, mainVars, buffer, trieVars
<1>2. TypeOK /\ PoolOK(t) /\ AnswersOK(t) /\ t \in Threads
  BY DEF SearchInv, Undisturbed
<1>3. TypeOK'
  BY <1>1, <1>2 DEF TypeOK, Labels
<1>4. pc'[t] = "wait" /\ thread_is_sleep'[t]
  BY <1>1, <1>2 DEF TypeOK
<1>5. PoolOK(t)'
  BY <1>1, <1>2, <1>4 DEF PoolOK, Absent, InWait, Asleep, Roused, Starting, Working, Leaving
<1>6. main \in {"signal", "poll"} /\ t < tid => FoundOK(t)'
  BY <1>1, <1>2, <1>4, KeepAnswers DEF AnswersOK, FoundOK, Roused, Asleep, InWait
<1>7. AnswersOK(t)'
  BY <1>1, <1>6, ThreadPart
<1> QED
  BY <1>1, <1>2, <1>3, <1>5, <1>7, ThreadFrame DEF TypeOK

LEMMA WaitInv ==
    ASSUME SearchInv, NEW t \in Undisturbed, ~Stopped, Wait(t) PROVE SearchInv'
<1>1. /\ pc[t] = "wait" /\ UNCHANGED mainVars
      /\ UNCHANGED <<main, k, tid, str_buffer, behind, spurious, finished, thread_args, trie, roots,
                     thread_is_sleep, data, local_answers>>
      /\ pc' = [pc EXCEPT ![t] = "waiting"]
      /\ cond_mutex' = [cond_mutex EXCEPT ![t] = FALSE]
  BY DEF Wait, At, Goto, mainVars, buffer, trieVars
<1>2. TypeOK /\ PoolOK(t) /\ AnswersOK(t) /\ t \in Threads
  BY DEF SearchInv, Undisturbed
<1>3. TypeOK'
  BY <1>1, <1>2 DEF TypeOK, Labels
<1>4. pc'[t] = "waiting" /\ ~cond_mutex'[t]
  BY <1>1, <1>2 DEF TypeOK
<1>5. PoolOK(t)'
  BY <1>1, <1>2, <1>4 DEF PoolOK, Absent, InWait, Asleep, Roused, Starting, Working, Leaving
<1>6. main \in {"signal", "poll"} /\ t < tid => FoundOK(t)'
  BY <1>1, <1>2, <1>4, KeepAnswers DEF AnswersOK, FoundOK, Roused, Asleep, InWait
<1>7. AnswersOK(t)'
  BY <1>1, <1>6, ThreadPart
<1> QED
  BY <1>1, <1>2, <1>3, <1>5, <1>7, ThreadFrame DEF TypeOK

LEMMA ResumeInv ==
    ASSUME SearchInv, NEW t \in Undisturbed, ~Stopped, Resume(t) PROVE SearchInv'
<1>1. /\ pc[t] = "woken" /\ UNCHANGED mainVars
      /\ UNCHANGED <<main, k, tid, str_buffer, behind, spurious, finished, thread_args, trie, roots,
                     cond_mutex, thread_is_sleep, data, local_answers>>
      /\ pc' = [pc EXCEPT ![t] = IF finished THEN "done" ELSE "args"]
  BY DEF Resume, At, Goto, mainVars, buffer, trieVars
<1>2. TypeOK /\ PoolOK(t) /\ AnswersOK(t) /\ t \in Threads
  BY DEF SearchInv, Undisturbed
<1>3. TypeOK'
  BY <1>1, <1>2 DEF TypeOK, Labels
<1>4. pc'[t] = IF finished THEN "done" ELSE "args"
  BY <1>1, <1>2 DEF TypeOK
<1>5. \/ main \in {"signal", "poll"} /\ t < tid /\ ~thread_is_sleep[t] /\ ~finished
      \/ main \in {"broadcast", "join", "end"} /\ finished
  BY <1>1, RunningThread
<1>6. PoolOK(t)'
  <2>1. CASE finished
    BY <1>1, <1>2, <1>4, <1>5, <2>1 DEF PoolOK, InWait, Asleep, Leaving
  <2>2. CASE ~finished
    BY <1>1, <1>2, <1>4, <1>5, <2>2 DEF PoolOK, InWait, Asleep, Roused, Working
  <2> QED
    BY <2>1, <2>2
<1>7. main \in {"signal", "poll"} /\ t < tid => FoundOK(t)'
  BY <1>1, <1>2, <1>4, <1>5 DEF AnswersOK, FoundOK, Roused, Asleep, InWait
<1>8. AnswersOK(t)'
  BY <1>1, <1>7, ThreadPart
<1> QED
  BY <1>1, <1>2, <1>3, <1>6, <1>8, ThreadFrame DEF TypeOK


LEMMA ReadArgsInv ==
    ASSUME SearchInv, NEW t \in Undisturbed, ~Stopped, ReadArgs(t) PROVE SearchInv'
<1>1. /\ pc[t] = "args" /\ UNCHANGED mainVars
      /\ UNCHANGED <<main, k, tid, str_buffer, behind, spurious, finished, thread_args, trie, roots,
                     cond_mutex, thread_is_sleep, local_answers>>
      /\ pc' = [pc EXCEPT ![t] = "search"]
      /\ data' = [data EXCEPT ![t] = [root |-> thread_args[t].root, at |-> thread_args[t].at,
                                      left |-> thread_args[t].length]]
  BY DEF ReadArgs, At, Goto, mainVars, buffer, trieVars
<1>2. TypeOK /\ PoolOK(t) /\ AnswersOK(t) /\ t \in Threads
  BY DEF SearchInv, Undisturbed
<1>3. main \in {"signal", "poll"} /\ t < tid /\ ~thread_is_sleep[t]
  BY <1>1, RunningThread
<1>4. /\ thread_args[t] = [root |-> roots, at |-> 1 + Base(t), length |-> search_itertion_number]
      /\ Base(t) < Len(str_buffer)
  BY <1>2, <1>3 DEF AnswersOK
<1>5. t \in Nat /\ Base(t) \in Nat /\ search_itertion_number \in Nat /\ Len(str_buffer) \in Nat
  BY <1>2, ShareSize, TAssumption DEF TypeOK, Threads
<1>6. /\ pc'[t] = "search"
      /\ data'[t] = [root |-> roots, at |-> 1 + Base(t), left |-> search_itertion_number]
  BY <1>1, <1>2, <1>4 DEF TypeOK
<1>7. TypeOK'
  <2>1. data' \in [Threads -> [root : Nat, at : Nat, left : Nat]]
    BY <1>1, <1>2 DEF TypeOK
  <2> QED
    BY <1>1, <1>2, <2>1 DEF TypeOK, Labels
<1>8. PoolOK(t)'
  BY <1>1, <1>2, <1>3, <1>6 DEF PoolOK, InWait, Asleep, Roused, Working
<1>9. FoundOK(t)'
  <2>1. local_answers[t] = {}
    BY <1>1, <1>2, <1>3 DEF AnswersOK, FoundOK
  <2>2. {p \in Share(t) : p < data'[t].at} = {}
    BY <1>5, <1>6 DEF Share
  <2>3. AnswersOf({}) = {}
    BY DEF AnswersOf
  <2>4. /\ data'[t].at = 1 + Base(t) /\ data'[t].left = search_itertion_number
        /\ data'[t].root = roots'
    BY <1>1, <1>6
  <2>5. /\ Base(t) < 1 + Base(t) /\ 1 + Base(t) <= Len(str_buffer) + 1
        /\ (1 + Base(t)) + search_itertion_number = Base(t) + search_itertion_number + 1
    BY <1>4, <1>5
  <2>6. /\ search_itertion_number' = search_itertion_number
        /\ Base(t)' = Base(t) /\ Share(t)' = Share(t)
        /\ \A S : AnswersOf(S)' = AnswersOf(S)
    BY <1>1, KeepAnswers
  <2>7. local_answers'[t] = AnswersOf({p \in Share(t) : p < 1 + Base(t)})
    BY <1>1, <2>1, <2>2, <2>3, <2>4
  <2> QED
    BY <1>1, <1>6, <2>1, <2>4, <2>5, <2>6, <2>7 DEF FoundOK, Roused, Asleep, InWait
<1>10. AnswersOK(t)'
  BY <1>1, <1>3, <1>9, ThreadPart
<1> QED
  BY <1>1, <1>2, <1>7, <1>8, <1>10, ThreadFrame DEF TypeOK

LEMMA SearchStepInv ==
    ASSUME SearchInv, NEW t \in Undisturbed, ~Stopped, Search(t) PROVE SearchInv'
<1>1. /\ pc[t] = "search" /\ UNCHANGED mainVars /\ HasPosition(t)
      /\ UNCHANGED <<main, k, tid, str_buffer, behind, spurious, finished, thread_args, trie, roots,
                     pc, cond_mutex, thread_is_sleep>>
      /\ local_answers' = [local_answers EXCEPT ![t] = @ \cup Answers(data[t].at)]
      /\ data[t].root = roots
      /\ data' = [data EXCEPT ![t] = [root |-> @.root, at |-> @.at + 1, left |-> @.left - 1]]
  BY DEF Search, At, mainVars, buffer, trieVars
<1>2. TypeOK /\ PoolOK(t) /\ AnswersOK(t) /\ t \in Threads
  BY DEF SearchInv, Undisturbed
<1>3. main \in {"signal", "poll"} /\ t < tid /\ ~thread_is_sleep[t]
  BY <1>1, RunningThread
<1>4. t \in Nat /\ Base(t) \in Nat /\ search_itertion_number \in Nat /\ Len(str_buffer) \in Nat
  BY <1>2, ShareSize, TAssumption DEF TypeOK, Threads
<1> DEFINE at == data[t].at
           left == data[t].left
<1>6. /\ Base(t) < at /\ at <= Len(str_buffer) + 1
      /\ at + left = Base(t) + search_itertion_number + 1
      /\ local_answers[t] = AnswersOf({p \in Share(t) : p < at})
  BY <1>1, <1>2, <1>3 DEF AnswersOK, FoundOK
<1>5. at \in Nat /\ left \in Nat /\ left > 0 /\ at <= Len(str_buffer)
  <2>1. at \in Nat /\ left \in Nat /\ left > 0 /\ Bytes[at] # Nul
    BY <1>1, <1>2 DEF HasPosition, TypeOK
  <2>2. Bytes[Len(str_buffer) + 1] = Nul
    BY <1>2, BytesFacts
  <2> HIDE DEF at, left
  <2>3. at # Len(str_buffer) + 1
    BY <2>1, <2>2
  <2> QED
    BY <1>4, <1>6, <2>1, <2>3
<1>7. /\ data'[t] = [root |-> data[t].root, at |-> at + 1, left |-> left - 1]
      /\ data[t] \in [root : Nat, at : Nat, left : Nat]
      /\ local_answers'[t] = local_answers[t] \cup Answers(at)
  BY <1>1, <1>2 DEF TypeOK
<1>8. TypeOK'
  <2>1. [root |-> data[t].root, at |-> at + 1, left |-> left - 1]
           \in [root : Nat, at : Nat, left : Nat]
    BY <1>5, <1>7
  <2>2. data' \in [Threads -> [root : Nat, at : Nat, left : Nat]]
    BY <1>1, <1>2, <2>1 DEF TypeOK
  <2> QED
    BY <1>1, <1>2, <2>2 DEF TypeOK
<1>9. PoolOK(t)'
  BY <1>1, <1>2 DEF PoolOK, Absent, InWait, Asleep, Roused, Starting, Working, Leaving
<1>10. FoundOK(t)'
  <2> HIDE DEF at, left
  <2>1. at \in Share(t)
    BY <1>4, <1>5, <1>6 DEF Share
  <2>2. \A p \in Share(t) : p \in Nat
    BY DEF Share
  <2>3. {p \in Share(t) : p < at + 1} = {p \in Share(t) : p < at} \cup {at}
    <3>1. \A p \in Share(t) : p < at + 1 <=> p < at \/ p = at
      BY <1>5, <2>2
    <3> QED
      BY <2>1, <3>1, Zenon
  <2>4. AnswersOf({p \in Share(t) : p < at} \cup {at})
          = AnswersOf({p \in Share(t) : p < at}) \cup Answers(at)
    BY DEF AnswersOf
  <2>5. local_answers'[t] = AnswersOf({p \in Share(t) : p < at + 1})
    BY <1>6, <1>7, <2>3, <2>4
  <2>6. data'[t].at = at + 1 /\ data'[t].left = left - 1 /\ data'[t].root = roots'
    BY <1>1, <1>7
  <2>7. /\ Base(t) < at + 1 /\ at + 1 <= Len(str_buffer) + 1
        /\ (at + 1) + (left - 1) = Base(t) + search_itertion_number + 1
    BY <1>4, <1>5, <1>6
  <2>8. /\ search_itertion_number' = search_itertion_number
        /\ Base(t)' = Base(t) /\ Share(t)' = Share(t)
        /\ \A S : AnswersOf(S)' = AnswersOf(S)
    BY <1>1, KeepAnswers
  <2> QED
    BY <1>1, <2>5, <2>6, <2>7, <2>8 DEF FoundOK, Roused, Asleep, InWait
<1>11. AnswersOK(t)'
  BY <1>1, <1>3, <1>4, <1>10, ThreadPart DEF SearchInv, TypeOK
<1> QED
  BY <1>1, <1>2, <1>8, <1>9, <1>11, ThreadFrame DEF TypeOK

LEMMA SearchEndsInv ==
    ASSUME SearchInv, NEW t \in Undisturbed, ~Stopped, SearchEnds(t) PROVE SearchInv'
<1>1. /\ pc[t] = "search" /\ UNCHANGED mainVars /\ ~HasPosition(t)
      /\ UNCHANGED <<main, k, tid, str_buffer, behind, spurious, finished, thread_args, trie, roots,
                     cond_mutex, thread_is_sleep, local_answers>>
      /\ pc' = [pc EXCEPT ![t] = "lock"]
      /\ data' = [data EXCEPT ![t] = [root |-> 0, at |-> 1, left |-> 0]]
  BY DEF SearchEnds, At, Goto, mainVars, buffer, trieVars
<1>2. TypeOK /\ PoolOK(t) /\ AnswersOK(t) /\ t \in Threads
  BY DEF SearchInv, Undisturbed
<1>3. main \in {"signal", "poll"} /\ t < tid /\ ~thread_is_sleep[t]
  BY <1>1, RunningThread
<1>4. t \in Nat /\ Base(t) \in Nat /\ search_itertion_number \in Nat /\ Len(str_buffer) \in Nat
  BY <1>2, ShareSize, TAssumption DEF TypeOK, Threads
<1>5. pc'[t] = "lock"
  BY <1>1, <1>2 DEF TypeOK
<1>6. TypeOK'
  <2>1. data' \in [Threads -> [root : Nat, at : Nat, left : Nat]]
    BY <1>1, <1>2 DEF TypeOK
  <2> QED
    BY <1>1, <1>2, <2>1 DEF TypeOK, Labels
<1>7. PoolOK(t)'
  BY <1>1, <1>2, <1>3, <1>5 DEF PoolOK, InWait, Asleep, Roused, Working
<1>8. FoundOK(t)'
  <2>1. /\ Base(t) < data[t].at /\ data[t].at + data[t].left = Base(t) + search_itertion_number + 1
        /\ local_answers[t] = AnswersOf({p \in Share(t) : p < data[t].at})
        /\ data[t].at <= Len(str_buffer) + 1
    BY <1>1, <1>2, <1>3 DEF AnswersOK, FoundOK
  <2>2. data[t].at \in Nat /\ data[t].left \in Nat
    BY <1>2 DEF TypeOK
  <2>3. data[t].left = 0 \/ Len(str_buffer) < data[t].at
    <3>1. data[t].left = 0 \/ Bytes[data[t].at] = Nul
      BY <1>1, <2>2 DEF HasPosition
    <3>2. \A i \in 1..Len(str_buffer) : Bytes[i] \in Letters
      BY <1>2, BytesFacts
    <3>3. data[t].at \in 1..Len(str_buffer) \/ Len(str_buffer) < data[t].at
      BY <1>4, <2>1, <2>2
    <3> QED
      BY <3>1, <3>2, <3>3, NulAssumption
  <2>4. {p \in Share(t) : p < data[t].at} = Share(t)
    BY <1>4, <2>1, <2>2, <2>3 DEF Share
  <2>5. Share(t)' = Share(t) /\ \A S : AnswersOf(S)' = AnswersOf(S)
    BY <1>1, KeepAnswers
  <2> QED
    BY <1>1, <1>5, <2>1, <2>4, <2>5 DEF FoundOK, Roused, Asleep, InWait
<1>9. AnswersOK(t)'
  BY <1>1, <1>3, <1>8, ThreadPart
<1> QED
  BY <1>1, <1>2, <1>6, <1>7, <1>9, ThreadFrame DEF TypeOK


\* The root of an undisturbed thread has not been freed.
LEMMA RootIsLive ==
    ASSUME SearchInv, NEW t \in Undisturbed, ~Stopped, SearchFreedRoot(t) PROVE FALSE
<1>1. pc[t] = "search" /\ data[t].root # roots
  BY DEF SearchFreedRoot, At
<1>2. main \in {"signal", "poll"} /\ t < tid
  BY <1>1, RunningThread
<1>3. AnswersOK(t)
  BY DEF SearchInv
<1> QED
  BY <1>1, <1>2, <1>3 DEF AnswersOK, FoundOK

\* Whatever a thread does that was disturbed, it disturbs no other.
LEMMA DisturbedInv ==
    ASSUME SearchInv, NEW t \in Threads \ Undisturbed, Thread(t), ~SearchFreedRoot(t)
    PROVE  SearchInv'
<1>1. /\ UNCHANGED mainVars
      /\ \A u \in Threads \ {t} :
            /\ pc'[u] = pc[u] /\ cond_mutex'[u] = cond_mutex[u]
            /\ thread_is_sleep'[u] = thread_is_sleep[u] /\ data'[u] = data[u]
            /\ local_answers'[u] = local_answers[u]
  BY DEF Thread, LockToSleep, SetSleep, Wait, Resume, ReadArgs, Search, SearchEnds, Goto,
     SearchInv, TypeOK
<1>2. TypeOK
  BY DEF SearchInv
<1>3. UNCHANGED <<main, k, tid, str_buffer, behind, spurious, finished, thread_args, roots>>
  BY <1>1 DEF mainVars, buffer, trieVars
<1>4. /\ pc' \in [Threads -> Labels] /\ cond_mutex' \in [Threads -> BOOLEAN]
      /\ thread_is_sleep' \in [Threads -> BOOLEAN]
  BY <1>2 DEF Thread, LockToSleep, SetSleep, Wait, Resume, ReadArgs, Search, SearchEnds, Goto,
     TypeOK, Labels
<1>5. DOMAIN local_answers' = Threads
  BY <1>2 DEF Thread, LockToSleep, SetSleep, Wait, Resume, ReadArgs, Search, SearchEnds, TypeOK
<1>6. data' \in [Threads -> [root : Nat, at : Nat, left : Nat]]
  <2>1. CASE UNCHANGED data
    BY <1>2, <2>1 DEF TypeOK
  <2>2. CASE ReadArgs(t)
    BY <1>2, <2>2 DEF ReadArgs, TypeOK
  <2>3. CASE Search(t)
    <3>1. data[t] \in [root : Nat, at : Nat, left : Nat] /\ data[t].left > 0
      BY <1>2, <2>3 DEF Search, HasPosition, TypeOK
    <3>2. data' = [data EXCEPT ![t] = [root |-> @.root, at |-> @.at + 1, left |-> @.left - 1]]
      BY <2>3 DEF Search
    <3>3. [root |-> data[t].root, at |-> data[t].at + 1, left |-> data[t].left - 1]
           \in [root : Nat, at : Nat, left : Nat]
      BY <3>1
    <3> QED
      BY <1>2, <3>2, <3>3 DEF TypeOK
  <2>4. CASE SearchEnds(t)
    BY <1>2, <2>4 DEF SearchEnds, TypeOK
  <2> QED
    BY <2>1, <2>2, <2>3, <2>4 DEF Thread, LockToSleep, SetSleep, Wait, Resume
<1>7. TypeOK'
  BY <1>2, <1>3, <1>4, <1>5, <1>6 DEF TypeOK
<1> QED
  BY <1>1, <1>7, ThreadFrame

\* The process is lost when a thread that was disturbed reads a freed root.
LEMMA SearchFreedRootInv ==
    ASSUME SearchInv, ~Stopped, NEW t \in Threads, SearchFreedRoot(t) PROVE SearchInv'
<1>1. /\ main' = "corrupt"
      /\ UNCHANGED <<k, tid, str_buffer, behind, spurious, finished, pc, cond_mutex,
                     thread_is_sleep, thread_args, data, local_answers, trie, roots,
                     word_id_generator, words>>
  BY DEF SearchFreedRoot, buffer, poolVars, trieVars
<1>2. TypeOK'
  BY <1>1 DEF SearchInv, TypeOK, MainLabels
<1>3. main # "end"
  BY DEF Stopped
<1>4. MainOK' /\ SharesOK'
  BY <1>1, <1>3 DEF SearchInv, MainOK, TrieOK, PrefixClosed, SharesOK
<1>5. ASSUME NEW u \in Undisturbed PROVE PoolOK(u)' /\ AnswersOK(u)'
  BY <1>1 DEF SearchInv, PoolOK, AnswersOK
<1> QED
  BY <1>1, <1>2, <1>4, <1>5, Preserved

LEMMA ThreadInv ==
    ASSUME SearchInv, NEW t \in Threads, Thread(t) PROVE SearchInv'
<1>1. CASE SearchFreedRoot(t)
  BY <1>1, SearchFreedRootInv DEF Thread
<1>2. CASE t \in Undisturbed /\ ~SearchFreedRoot(t)
  BY <1>2, LockToSleepInv, SetSleepInv, WaitInv, ResumeInv, ReadArgsInv, SearchStepInv,
     SearchEndsInv
  DEF Thread
<1>3. CASE t \notin Undisturbed /\ ~SearchFreedRoot(t)
  BY <1>3, DisturbedInv
<1> QED
  BY <1>1, <1>2, <1>3

\* A thread whose wait returns without a signal is disturbed from then on.
LEMMA SpuriousWakeupInv ==
    ASSUME SearchInv, NEW t \in Threads, SpuriousWakeup(t) PROVE SearchInv'
<1>1. /\ pc' = [pc EXCEPT ![t] = "woken"] /\ spurious' = [spurious EXCEPT ![t] = @ + 1]
      /\ UNCHANGED <<main, k, tid, str_buffer, behind, finished, cond_mutex, thread_is_sleep,
                     thread_args, data, local_answers, trie, roots, word_id_generator, words>>
  BY DEF SpuriousWakeup, Goto, buffer, trieVars
<1>2. TypeOK /\ TypeOK' /\ spurious'[t] # 0 /\ \A u \in Threads \ {t} : spurious'[u] = spurious[u]
  <2>1. TypeOK /\ spurious[t] \in Nat
    BY DEF SearchInv, TypeOK
  <2>2. pc' \in [Threads -> Labels]
    BY <1>1, <2>1 DEF TypeOK, Labels
  <2>3. /\ spurious' \in [Threads -> Nat] /\ spurious'[t] # 0
        /\ \A u \in Threads \ {t} : spurious'[u] = spurious[u]
    BY <1>1, <2>1 DEF TypeOK
  <2> QED
    BY <1>1, <2>1, <2>2, <2>3 DEF TypeOK
<1>3. MainOK' /\ SharesOK'
  BY <1>1 DEF SearchInv, MainOK, TrieOK, PrefixClosed, SharesOK, Base, search_itertion_number
<1>4. Undisturbed' \subseteq Undisturbed \ {t}
  BY <1>2 DEF Undisturbed
<1>5. ASSUME NEW u \in Undisturbed \ {t} PROVE PoolOK(u)' /\ AnswersOK(u)'
  <2>1. PoolOK(u) /\ AnswersOK(u) /\ u \in Threads
    BY DEF SearchInv, Undisturbed
  <2>2. pc'[u] = pc[u]
    BY <1>1, <1>2, <2>1 DEF TypeOK
  <2>3. PoolOK(u)'
    BY <1>1, <2>1, <2>2 DEF PoolOK, Absent, InWait, Asleep, Roused, Starting, Working, Leaving
  <2>4. /\ search_itertion_number' = search_itertion_number
        /\ \A v : Base(v)' = Base(v) /\ Share(v)' = Share(v)
        /\ \A S : AnswersOf(S)' = AnswersOf(S)
    BY <1>1, KeepAnswers
  <2>5. FoundOK(u)' <=> FoundOK(u)
    BY <1>1, <2>2, <2>4 DEF FoundOK, Asleep, Roused, InWait
  <2> QED
    BY <1>1, <2>1, <2>3, <2>4, <2>5 DEF AnswersOK
<1> QED
  BY <1>2, <1>3, <1>4, <1>5 DEF SearchInv

-----------------------------------------------------------------------------
(* The steps of main *)

LEMMA ThreadNumbers ==
    ASSUME SearchInv
    PROVE  /\ T \in Nat \ {0} /\ k \in Nat /\ k < T /\ tid \in Nat /\ tid <= T /\ k \in Threads
           /\ \A t \in Undisturbed : t \in Threads /\ t \in Nat /\ t < T
  BY TAssumption DEF SearchInv, TypeOK, Threads, Undisturbed

\* Between queries there are no answers.
LEMMA NoAnswers ==
    ASSUME SearchInv, main \notin {"signal", "poll", "print", "corrupt"},
           main' \notin {"args", "reset", "signal", "poll", "print"}, UNCHANGED local_answers,
           NEW t \in Undisturbed
    PROVE  AnswersOK(t)'
<1>1. AnswersOK(t)
  BY DEF SearchInv
<1> QED
  BY <1>1 DEF AnswersOK

LEMMA LoadInv ==
    ASSUME SearchInv, NEW w \in Words, Load(w) PROVE SearchInv'
<1>1. /\ main = "load" /\ Read(w) /\ insert(w)
      /\ UNCHANGED <<main, k, tid, spurious, finished, pc, cond_mutex, thread_is_sleep, thread_args,
                     data, local_answers>>
  BY DEF Load, MainAt, poolVars
<1>2. TypeOK'
  <2>1. TypeOK /\ w \in Seq(Letters) /\ roots' = roots
    BY <1>1, WordsAssumption DEF SearchInv, insert
  <2>2. str_buffer' \in Seq(Letters) /\ behind' \in Seq(Letters \cup {Nul})
    BY <1>1, <2>1, ReadFacts
  <2> QED
    BY <1>1, <2>1, <2>2 DEF TypeOK
<1>3. TrieOK'
  BY <1>1, InsertOK DEF SearchInv, MainOK
<1>4. MainOK' /\ SharesOK'
  BY <1>1, <1>3 DEF SearchInv, MainOK, SharesOK
<1>5. ASSUME NEW t \in Undisturbed PROVE PoolOK(t)' /\ AnswersOK(t)'
  <2>1. PoolOK(t)
    BY DEF SearchInv
  <2>2. PoolOK(t)'
    BY <1>1, <2>1 DEF PoolOK, Absent
  <2> QED
    BY <1>1, <2>2, NoAnswers
<1> QED
  BY <1>1, <1>2, <1>4, <1>5, Preserved

LEMMA StartThreadsInv ==
    ASSUME SearchInv, StartThreads PROVE SearchInv'
<1>1. /\ main = "load" /\ main' = "create"
      /\ UNCHANGED <<k, tid, str_buffer, behind, spurious, finished, pc, cond_mutex,
                     thread_is_sleep, thread_args, data, local_answers, trie, roots,
                     word_id_generator, words>>
  BY DEF StartThreads, MainAt, buffer, poolVars, trieVars
<1>2. TypeOK'
  BY <1>1 DEF SearchInv, TypeOK, MainLabels
<1>3. TrieOK'
  BY <1>1 DEF SearchInv, MainOK, TrieOK, PrefixClosed
<1>4. MainOK' /\ SharesOK' /\ k = 0
  BY <1>1, <1>3 DEF SearchInv, MainOK, SharesOK
<1>5. ASSUME NEW t \in Undisturbed PROVE PoolOK(t)' /\ AnswersOK(t)'
  <2>1. PoolOK(t) /\ t \in Nat
    BY ThreadNumbers DEF SearchInv
  <2>2. PoolOK(t)'
    BY <1>1, <1>4, <2>1 DEF PoolOK, Absent
  <2> QED
    BY <1>1, <2>2, NoAnswers
<1> QED
  BY <1>1, <1>2, <1>4, <1>5, Preserved

LEMMA CreateInv ==
    ASSUME SearchInv, Create PROVE SearchInv'
<1>1. /\ main = "create" /\ main' = "started" /\ pc' = [pc EXCEPT ![k] = "lock"]
      /\ UNCHANGED <<k, tid, str_buffer, behind, spurious, finished, cond_mutex, thread_is_sleep,
                     thread_args, data, local_answers, trie, roots, word_id_generator, words>>
  BY DEF Create, MainAt, buffer, threadVars, trieVars
<1>2. TypeOK'
  BY <1>1 DEF SearchInv, TypeOK, MainLabels, Labels
<1>3. TrieOK'
  BY <1>1 DEF SearchInv, MainOK, TrieOK, PrefixClosed
<1>4. MainOK' /\ SharesOK'
  BY <1>1, <1>3 DEF SearchInv, MainOK, SharesOK
<1>5. ASSUME NEW t \in Undisturbed PROVE PoolOK(t)' /\ AnswersOK(t)'
  <2>1. PoolOK(t) /\ t \in Nat /\ k \in Nat
    BY ThreadNumbers DEF SearchInv
  <2>2. pc'[t] = IF t = k THEN "lock" ELSE pc[t]
    BY <1>1, ThreadNumbers DEF SearchInv, TypeOK
  <2>3. PoolOK(t)'
    BY <1>1, <2>1, <2>2 DEF PoolOK, Absent, Asleep, InWait, Starting
  <2> QED
    BY <1>1, <2>3, NoAnswers
<1> QED
  BY <1>1, <1>2, <1>4, <1>5, Preserved

LEMMA AwaitStartInv ==
    ASSUME SearchInv, AwaitStart PROVE SearchInv'
<1>1. /\ main = "started" /\ thread_is_sleep[k] /\ k' = (k + 1) % T
      /\ main' = IF k = T - 1 THEN "command" ELSE "create"
      /\ UNCHANGED <<tid, str_buffer, behind, spurious, finished, pc, cond_mutex, thread_is_sleep,
                     thread_args, data, local_answers, trie, roots, word_id_generator, words>>
  BY DEF AwaitStart, MainAt, buffer, poolVars, trieVars
<1>2. k' = IF k = T - 1 THEN 0 ELSE k + 1
  BY <1>1, NextCounter, TAssumption DEF SearchInv, TypeOK
<1>3. TypeOK'
  BY <1>1, <1>2, TAssumption DEF SearchInv, TypeOK, MainLabels
<1>4. TrieOK'
  BY <1>1 DEF SearchInv, MainOK, TrieOK, PrefixClosed
<1>5. MainOK' /\ SharesOK'
  BY <1>1, <1>4 DEF SearchInv, MainOK, SharesOK
<1>6. ASSUME NEW t \in Undisturbed PROVE PoolOK(t)' /\ AnswersOK(t)'
  <2>1. PoolOK(t) /\ t \in Nat /\ t < T /\ k \in Nat /\ T \in Nat
    BY ThreadNumbers DEF SearchInv
  <2>2. t <= k => Asleep(t)
    BY <1>1, <2>1 DEF PoolOK, Absent, Asleep, InWait, Starting
  <2>3. k < t => Absent(t)
    BY <1>1, <2>1 DEF PoolOK
  <2>4. PoolOK(t)'
    BY <1>1, <1>2, <2>1, <2>2, <2>3 DEF PoolOK, Absent, Asleep, InWait
  <2>5. main' \in {"command", "create"}
    BY <1>1
  <2> QED
    BY <1>1, <2>4, <2>5, NoAnswers
<1> QED
  BY <1>1, <1>3, <1>5, <1>6, Preserved

LEMMA AddInv ==
    ASSUME SearchInv, NEW w \in Words, Add(w) PROVE SearchInv'
<1>1. /\ main = "command" /\ Read(w) /\ insert(w) /\ main' \in {"command", "corrupt"}
      /\ UNCHANGED <<k, tid, spurious, finished, pc, cond_mutex, thread_is_sleep, thread_args, data,
                     local_answers>>
  BY DEF Add, Command, MainAt, GoOn, poolVars
<1>2. TypeOK'
  <2>1. TypeOK /\ w \in Seq(Letters) /\ roots' = roots
    BY <1>1, WordsAssumption DEF SearchInv, insert
  <2>2. str_buffer' \in Seq(Letters) /\ behind' \in Seq(Letters \cup {Nul})
    BY <1>1, <2>1, ReadFacts
  <2> QED
    BY <1>1, <2>1, <2>2 DEF TypeOK, MainLabels
<1>3. TrieOK'
  BY <1>1, InsertOK DEF SearchInv, MainOK
<1>4. MainOK' /\ SharesOK'
  BY <1>1, <1>3 DEF SearchInv, MainOK, SharesOK
<1>5. ASSUME NEW t \in Undisturbed PROVE PoolOK(t)' /\ AnswersOK(t)'
  <2>1. PoolOK(t)
    BY DEF SearchInv
  <2>2. PoolOK(t)'
    BY <1>1, <2>1 DEF PoolOK, Asleep, InWait
  <2> QED
    BY <1>1, <2>2, NoAnswers
<1> QED
  BY <1>1, <1>2, <1>4, <1>5, Preserved

LEMMA DelInv ==
    ASSUME SearchInv, NEW w \in Words, Del(w) PROVE SearchInv'
<1>1. /\ main = "command" /\ Read(w) /\ Delete(w) /\ main' \in {"command", "corrupt"}
      /\ UNCHANGED <<k, tid, spurious, finished, pc, cond_mutex, thread_is_sleep, thread_args, data,
                     local_answers>>
  BY DEF Del, Command, MainAt, GoOn, poolVars
<1>2. TypeOK'
  <2>1. TypeOK /\ w \in Seq(Letters)
    BY <1>1, WordsAssumption DEF SearchInv
  <2>2. str_buffer' \in Seq(Letters) /\ behind' \in Seq(Letters \cup {Nul})
    BY <1>1, <2>1, ReadFacts
  <2>3. roots' \in Nat
    BY <1>1, <2>1 DEF Delete, TypeOK
  <2> QED
    BY <1>1, <2>1, <2>2, <2>3 DEF TypeOK, MainLabels
<1>3. TrieOK'
  BY <1>1, DeleteOK DEF SearchInv, MainOK
<1>4. MainOK' /\ SharesOK'
  BY <1>1, <1>3 DEF SearchInv, MainOK, SharesOK
<1>5. ASSUME NEW t \in Undisturbed PROVE PoolOK(t)' /\ AnswersOK(t)'
  <2>1. PoolOK(t)
    BY DEF SearchInv
  <2>2. PoolOK(t)'
    BY <1>1, <2>1 DEF PoolOK, Asleep, InWait
  <2> QED
    BY <1>1, <2>2, NoAnswers
<1> QED
  BY <1>1, <1>2, <1>4, <1>5, Preserved


LEMMA QueryInv ==
    ASSUME SearchInv, NEW q \in Queries, Query(q) PROVE SearchInv'
<1>1. /\ main = "command" /\ Read(q) /\ str_buffer' = q
      /\ main' \in {"args", "corrupt"} /\ k' = 0 /\ tid' = 0
      /\ UNCHANGED <<spurious, finished, pc, cond_mutex, thread_is_sleep, thread_args, data,
                     local_answers, trie, roots, word_id_generator, words>>
  BY DEF Query, Command, Read, MainAt, GoOn, poolVars, trieVars
<1>2. TypeOK'
  <2>1. TypeOK /\ q \in Seq(Letters) /\ 0 \in 0..(T - 1) /\ 0 \in 0..T
    BY <1>1, QueriesAssumption, TAssumption DEF SearchInv
  <2>2. str_buffer' \in Seq(Letters) /\ behind' \in Seq(Letters \cup {Nul})
    BY <1>1, <2>1, ReadFacts
  <2> QED
    BY <1>1, <2>1, <2>2 DEF TypeOK, MainLabels
<1>3. TrieOK'
  BY <1>1 DEF SearchInv, MainOK, TrieOK, PrefixClosed
<1>4. MainOK' /\ SharesOK'
  BY <1>1, <1>3, QueriesAssumption DEF SearchInv, MainOK, SharesOK
<1>5. ASSUME NEW t \in Undisturbed PROVE PoolOK(t)' /\ AnswersOK(t)'
  <2>1. PoolOK(t) /\ AnswersOK(t) /\ t \in Nat
    BY ThreadNumbers DEF SearchInv
  <2>2. PoolOK(t)'
    BY <1>1, <2>1 DEF PoolOK, Asleep, InWait
  <2>3. AnswersOK(t)'
    BY <1>1, <2>1 DEF AnswersOK
  <2> QED
    BY <2>2, <2>3
<1> QED
  BY <1>1, <1>2, <1>4, <1>5, Preserved

LEMMA GiveArgsInv ==
    ASSUME SearchInv, GiveArgs PROVE SearchInv'
<1> DEFINE N == search_itertion_number
<1>1. /\ main = "args" /\ str_buffer # << >>
      /\ UNCHANGED <<str_buffer, behind, spurious, finished, pc, cond_mutex, thread_is_sleep, data,
                     local_answers, trie, roots, word_id_generator, words>>
  BY DEF GiveArgs, MainAt, buffer, threadVars, trieVars, SearchInv, MainOK
<1>2. \/ /\ tid < T /\ 1 + tid * N <= Len(str_buffer)
         /\ thread_args' = [thread_args EXCEPT ![tid] = [root |-> roots, at |-> 1 + tid * N, length |-> N]]
         /\ tid' = tid + 1 /\ main' \in {"args", "corrupt"} /\ UNCHANGED k
      \/ /\ tid = T \/ 1 + tid * N > Len(str_buffer)
         /\ main' = "reset" /\ k' = 0 /\ UNCHANGED <<tid, thread_args>>
  BY DEF GiveArgs, GoOn
<1>3. /\ N' = N /\ \A u : Base(u)' = Base(u)
  BY <1>1, KeepAnswers
<1>4. /\ N \in Nat \ {0} /\ Len(str_buffer) \in Nat \ {0} /\ Base(tid) = tid * N /\ Base(tid) \in Nat
      /\ Len(str_buffer) < T * N
  BY <1>1, ShareSize, ThreadNumbers DEF SearchInv, TypeOK, Base
<1>5. TrieOK'
  BY <1>1 DEF SearchInv, MainOK, TrieOK, PrefixClosed
<1>6. ASSUME NEW t \in Undisturbed
      PROVE  /\ PoolOK(t) /\ Asleep(t)' /\ (cond_mutex[t]' <=> pc[t]' \in {"flag", "wait"})
             /\ local_answers'[t] = {} /\ t \in Nat /\ k \in Nat /\ tid \in Nat
  BY <1>1, ThreadNumbers DEF SearchInv, PoolOK, AnswersOK, Asleep, InWait
<1>7. CASE /\ tid < T /\ 1 + tid * N <= Len(str_buffer)
           /\ thread_args' = [thread_args EXCEPT ![tid] = [root |-> roots, at |-> 1 + tid * N, length |-> N]]
           /\ tid' = tid + 1 /\ main' \in {"args", "corrupt"} /\ UNCHANGED k
  <2>1. tid \in Threads /\ tid \in Nat
    BY <1>7, ThreadNumbers, TAssumption DEF Threads
  <2>2. [root |-> roots, at |-> 1 + tid * N, length |-> N] \in [root : Nat, at : Nat, length : Nat]
    <3>1. 1 + tid * N \in Nat
      BY <1>4
    <3> QED
      BY <1>4, <3>1 DEF SearchInv, TypeOK
  <2>3. TypeOK'
    <3>1. thread_args' \in [Threads -> [root : Nat, at : Nat, length : Nat]]
      BY <1>7, <2>1, <2>2 DEF SearchInv, TypeOK
    <3>2. tid' \in 0..T
      BY <1>7, <2>1, TAssumption
    <3> QED
      BY <1>1, <1>7, <3>1, <3>2 DEF SearchInv, TypeOK, MainLabels
  <2>4. MainOK' /\ SharesOK'
    BY <1>1, <1>5, <1>7 DEF SearchInv, MainOK, SharesOK
  <2>5. ASSUME NEW t \in Undisturbed PROVE PoolOK(t)' /\ AnswersOK(t)'
    <3>1. PoolOK(t)'
      BY <1>1, <1>6, <1>7 DEF PoolOK
    <3>2. thread_args'[t] =
             IF t = tid THEN [root |-> roots, at |-> 1 + tid * N, length |-> N] ELSE thread_args[t]
      BY <1>7, ThreadNumbers DEF SearchInv, TypeOK
    <3>3. t < tid => /\ Base(t) < Len(str_buffer)
                     /\ thread_args[t] = [root |-> roots, at |-> 1 + Base(t), length |-> N]
      BY <1>1 DEF SearchInv, AnswersOK
    <3>4. t < tid' => /\ Base(t) < Len(str_buffer)
                      /\ thread_args'[t] = [root |-> roots, at |-> 1 + Base(t), length |-> N]
      BY <1>4, <1>6, <1>7, <3>2, <3>3
    <3> QED
      BY <1>1, <1>3, <1>6, <1>7, <3>1, <3>4 DEF AnswersOK
  <2> QED
    BY <1>1, <2>3, <2>4, <2>5, Preserved
<1>8. CASE /\ tid = T \/ 1 + tid * N > Len(str_buffer)
           /\ main' = "reset" /\ k' = 0 /\ UNCHANGED <<tid, thread_args>>
  <2>1. TypeOK'
    BY <1>1, <1>8, TAssumption DEF SearchInv, TypeOK, MainLabels
  <2>2. Len(str_buffer) <= Base(tid)
    BY <1>4, <1>8
  <2>3. 0 < tid
    <3>1. tid # 0
      BY <1>4, <2>2
    <3> QED
      BY <3>1, ThreadNumbers
  <2>4. MainOK'
    BY <1>1, <1>5, <1>8, <2>3 DEF SearchInv, MainOK
  <2>5. SharesOK'
    BY <1>1, <1>3, <1>8, <2>2 DEF SharesOK
  <2>6. ASSUME NEW t \in Undisturbed PROVE PoolOK(t)' /\ AnswersOK(t)'
    <3>1. PoolOK(t)'
      BY <1>6, <1>8 DEF PoolOK
    <3> QED
      BY <1>1, <1>3, <1>6, <1>8, <3>1 DEF AnswersOK, SearchInv
  <2> QED
    BY <1>1, <2>1, <2>4, <2>5, <2>6, Preserved
<1> QED
  BY <1>2, <1>7, <1>8

LEMMA ResetSleepInv ==
    ASSUME SearchInv, ResetSleep PROVE SearchInv'
<1>1. /\ main = "reset" /\ thread_is_sleep' = [thread_is_sleep EXCEPT ![k] = FALSE]
      /\ k' = (k + 1) % tid /\ main' = IF k = tid - 1 THEN "signal" ELSE "reset"
      /\ UNCHANGED <<tid, str_buffer, behind, spurious, finished, pc, cond_mutex, thread_args, data,
                     local_answers, trie, roots, word_id_generator, words>>
  BY DEF ResetSleep, NextOf, MainAt, buffer, threadVars, trieVars
<1>2. k < tid /\ k \in Nat /\ tid \in Nat \ {0} /\ tid <= T
  BY <1>1, ThreadNumbers DEF SearchInv, MainOK
<1>3. k' = IF k = tid - 1 THEN 0 ELSE k + 1
  BY <1>1, <1>2, NextCounter
<1>4. TypeOK'
  <2>1. k' \in 0..(T - 1)
    BY <1>2, <1>3, TAssumption
  <2>2. main' \in MainLabels
    BY <1>1 DEF MainLabels
  <2>3. thread_is_sleep' \in [Threads -> BOOLEAN]
    BY <1>1 DEF SearchInv, TypeOK
  <2> QED
    BY <1>1, <2>1, <2>2, <2>3 DEF SearchInv, TypeOK
<1>5. TrieOK'
  BY <1>1 DEF SearchInv, MainOK, TrieOK, PrefixClosed
<1>6. MainOK'
  BY <1>1, <1>2, <1>3, <1>5 DEF SearchInv, MainOK
<1>7. /\ search_itertion_number' = search_itertion_number
      /\ \A u : Base(u)' = Base(u) /\ Share(u)' = Share(u)
      /\ \A S : AnswersOf(S)' = AnswersOf(S)
  BY <1>1, KeepAnswers
<1>8. SharesOK'
  BY <1>1, <1>7 DEF SearchInv, SharesOK
<1>9. ASSUME NEW t \in Undisturbed PROVE PoolOK(t)' /\ AnswersOK(t)'
  <2>1. PoolOK(t) /\ AnswersOK(t) /\ t \in Nat
    BY ThreadNumbers DEF SearchInv
  <2>2. /\ t = k => ~thread_is_sleep'[t]
        /\ t # k => thread_is_sleep'[t] = thread_is_sleep[t]
    BY <1>1, ThreadNumbers DEF SearchInv, TypeOK
  <2>3. t <= k => Roused(t)'
    <3>1. CASE t = k
      BY <1>1, <1>2, <2>1, <2>2, <3>1 DEF PoolOK, Roused, Asleep, InWait
    <3>2. CASE t < k
      <4>1. Roused(t)
        BY <1>1, <2>1, <3>2 DEF PoolOK
      <4>2. t # k
        BY <1>2, <2>1, <3>2
      <4> QED
        BY <1>1, <2>2, <4>1, <4>2 DEF Roused, InWait
    <3> QED
      BY <1>2, <2>1, <3>1, <3>2
  <2>4. k < t => Asleep(t)'
    BY <1>1, <1>2, <2>1, <2>2 DEF PoolOK, Roused, Asleep, InWait
  <2>5. PoolOK(t)'
    BY <1>1, <1>2, <1>3, <2>1, <2>3, <2>4 DEF PoolOK
  <2>6. local_answers'[t] = {}
    BY <1>1, <2>1 DEF AnswersOK
  <2>7. main' = "signal" /\ t < tid => FoundOK(t)'
    BY <1>1, <1>2, <2>1, <2>3, <2>6 DEF FoundOK, Roused, Asleep, InWait
  <2>8. AnswersOK(t)'
    BY <1>1, <1>7, <2>1, <2>6, <2>7 DEF AnswersOK
  <2> QED
    BY <2>5, <2>8
<1> QED
  BY <1>1, <1>4, <1>6, <1>8, <1>9, Preserved


LEMMA SignalInv ==
    ASSUME SearchInv, Signal PROVE SearchInv'
<1>1. /\ main = "signal" /\ ~cond_mutex[k]
      /\ pc' = [pc EXCEPT ![k] = IF @ = "waiting" THEN "woken" ELSE @]
      /\ k' = (k + 1) % tid /\ main' = IF k = tid - 1 THEN "poll" ELSE "signal"
      /\ UNCHANGED <<tid, str_buffer, behind, spurious, finished, thread_is_sleep, cond_mutex,
                     thread_args, data, local_answers, trie, roots, word_id_generator, words>>
  BY DEF Signal, Wake, NextOf, MainAt, buffer, threadVars, trieVars
<1>2. k < tid /\ k \in Nat /\ tid \in Nat \ {0} /\ tid <= T /\ k \in Threads
  BY <1>1, ThreadNumbers DEF SearchInv, MainOK
<1>3. k' = IF k = tid - 1 THEN 0 ELSE k + 1
  BY <1>1, <1>2, NextCounter
<1>4. k \in Undisturbed => Roused(k) /\ pc[k] = "waiting" /\ ~thread_is_sleep[k]
  <2> SUFFICES ASSUME k \in Undisturbed
               PROVE  Roused(k) /\ pc[k] = "waiting" /\ ~thread_is_sleep[k]
    OBVIOUS
  <2>1. PoolOK(k)
    BY DEF SearchInv
  <2>2. Roused(k)
    BY <1>1, <1>2, <2>1 DEF PoolOK
  <2> QED
    BY <1>1, <2>1, <2>2 DEF PoolOK, Roused, InWait
<1>5. /\ pc' \in [Threads -> Labels]
      /\ \A t \in Undisturbed : pc'[t] = IF t = k THEN "woken" ELSE pc[t]
  BY <1>1, <1>4 DEF SearchInv, TypeOK, Labels, Undisturbed
<1>6. TypeOK'
  <2>1. k' \in 0..(T - 1)
    BY <1>2, <1>3, TAssumption
  <2>2. main' \in MainLabels
    BY <1>1 DEF MainLabels
  <2>3. pc' \in [Threads -> Labels]
    BY <1>5
  <2> QED
    BY <1>1, <2>1, <2>2, <2>3 DEF SearchInv, TypeOK
<1>7. TrieOK'
  BY <1>1 DEF SearchInv, MainOK, TrieOK, PrefixClosed
<1>8. MainOK'
  BY <1>1, <1>2, <1>3, <1>7 DEF SearchInv, MainOK
<1>9. /\ search_itertion_number' = search_itertion_number
      /\ \A u : Base(u)' = Base(u) /\ Share(u)' = Share(u)
      /\ \A S : AnswersOf(S)' = AnswersOf(S)
  BY <1>1, KeepAnswers
<1>10. SharesOK'
  BY <1>1, <1>9 DEF SearchInv, SharesOK
<1>11. ASSUME NEW t \in Undisturbed PROVE PoolOK(t)' /\ AnswersOK(t)'
  <2>1. PoolOK(t) /\ AnswersOK(t) /\ t \in Nat
    BY ThreadNumbers DEF SearchInv
  <2>2. pc'[t] = IF t = k THEN "woken" ELSE pc[t]
    BY <1>5
  <2>3. \/ t <= k /\ (Working(t)' \/ Asleep(t)')
        \/ k < t /\ t < tid /\ Roused(t)'
        \/ tid <= t /\ Asleep(t)'
    <3>1. CASE t = k
      BY <1>1, <1>2, <1>4, <2>2, <3>1 DEF Working
    <3>2. CASE t # k
      BY <1>1, <1>2, <2>1, <2>2, <3>2 DEF PoolOK, Working, Asleep, Roused, InWait
    <3> QED
      BY <3>1, <3>2
  <2>4. cond_mutex'[t] <=> pc'[t] \in {"flag", "wait"}
    BY <1>1, <1>4, <2>1, <2>2 DEF PoolOK
  <2>5. PoolOK(t)'
    BY <1>1, <1>2, <1>3, <2>1, <2>3, <2>4 DEF PoolOK
  <2>6. t < tid => FoundOK(t)'
    <3>1. CASE t = k
      <4>1. local_answers[t] = {}
        BY <1>1, <1>2, <1>4, <2>1, <3>1 DEF AnswersOK, FoundOK
      <4> QED
        BY <1>1, <2>2, <3>1, <4>1 DEF FoundOK, Asleep, Roused, InWait
    <3>2. CASE t # k
      <4>1. Asleep(t)' = Asleep(t) /\ Roused(t)' = Roused(t)
        BY <1>1, <2>2, <3>2 DEF Asleep, Roused, InWait
      <4> QED
        BY <1>1, <1>9, <2>1, <2>2, <3>2, <4>1 DEF FoundOK, AnswersOK
    <3> QED
      BY <3>1, <3>2
  <2>7. AnswersOK(t)'
    BY <1>1, <1>9, <2>1, <2>6 DEF AnswersOK
  <2> QED
    BY <2>5, <2>7
<1> QED
  BY <1>1, <1>6, <1>8, <1>10, <1>11, Preserved

LEMMA PollInv ==
    ASSUME SearchInv, Poll PROVE SearchInv'
<1>1. /\ main = "poll"
      /\ UNCHANGED <<tid, str_buffer, behind, spurious, finished, pc, thread_is_sleep, cond_mutex,
                     thread_args, data, local_answers, trie, roots, word_id_generator, words>>
  BY DEF Poll, MainAt, buffer, poolVars, trieVars
<1>2. k < tid /\ k \in Nat /\ tid \in Nat \ {0} /\ tid <= T /\ k \in Threads
  BY <1>1, ThreadNumbers DEF SearchInv, MainOK
<1>3. \/ thread_is_sleep[k] /\ k # tid - 1 /\ k' = k + 1 /\ main' = "poll"
      \/ thread_is_sleep[k] /\ k = tid - 1 /\ k' = 0 /\ main' = "print"
      \/ k' = 0 /\ main' = "poll"
  BY <1>1, <1>2, NextCounter DEF Poll, NextOf
<1>4. TypeOK'
  <2>1. k' \in 0..(T - 1)
    BY <1>2, <1>3, TAssumption
  <2>2. main' \in MainLabels
    BY <1>3 DEF MainLabels
  <2> QED
    BY <1>1, <2>1, <2>2 DEF SearchInv, TypeOK
<1>5. TrieOK'
  BY <1>1 DEF SearchInv, MainOK, TrieOK, PrefixClosed
<1>6. MainOK'
  BY <1>1, <1>2, <1>3, <1>5 DEF SearchInv, MainOK
<1>7. /\ search_itertion_number' = search_itertion_number
      /\ \A u : Base(u)' = Base(u) /\ Share(u)' = Share(u)
      /\ \A S : AnswersOf(S)' = AnswersOf(S)
  BY <1>1, KeepAnswers
<1>8. SharesOK'
  BY <1>1, <1>7 DEF SearchInv, SharesOK
<1>9. ASSUME NEW t \in Undisturbed PROVE PoolOK(t)' /\ AnswersOK(t)'
  <2>1. PoolOK(t) /\ AnswersOK(t) /\ t \in Nat
    BY ThreadNumbers DEF SearchInv
  <2>2. /\ Asleep(t)' = Asleep(t) /\ Working(t)' = Working(t) /\ Roused(t)' = Roused(t)
        /\ FoundOK(t)' = FoundOK(t)
    BY <1>1, <1>7 DEF Asleep, Working, Roused, InWait, FoundOK
  <2>3. thread_is_sleep[k] /\ t = k => Asleep(t)
    BY <1>1, <1>2, <2>1 DEF PoolOK, Asleep, Working
  <2>4. CASE thread_is_sleep[k] /\ k # tid - 1 /\ k' = k + 1 /\ main' = "poll"
    <3>1. PoolOK(t)'
      BY <1>1, <1>2, <2>1, <2>2, <2>3, <2>4 DEF PoolOK
    <3> QED
      BY <1>1, <1>7, <2>1, <2>2, <2>4, <3>1 DEF AnswersOK
  <2>5. CASE thread_is_sleep[k] /\ k = tid - 1 /\ k' = 0 /\ main' = "print"
    <3>1. Asleep(t)
      BY <1>1, <1>2, <2>1, <2>3, <2>5 DEF PoolOK
    <3>2. PoolOK(t)'
      BY <1>1, <2>1, <2>2, <2>5, <3>1 DEF PoolOK
    <3>3. t < tid => local_answers[t] = AnswersOf(Share(t))
      BY <1>1, <2>1, <3>1 DEF AnswersOK, FoundOK
    <3> QED
      BY <1>1, <1>7, <2>1, <2>5, <3>2, <3>3 DEF AnswersOK
  <2>6. CASE k' = 0 /\ main' = "poll"
    <3>1. PoolOK(t)'
      BY <1>1, <1>2, <2>1, <2>2, <2>6 DEF PoolOK
    <3> QED
      BY <1>1, <1>7, <2>1, <2>2, <2>6, <3>1 DEF AnswersOK
  <2> QED
    BY <1>3, <2>4, <2>5, <2>6
<1> QED
  BY <1>1, <1>4, <1>6, <1>8, <1>9, Preserved

LEMMA PrintAnswersInv ==
    ASSUME SearchInv, PrintAnswers PROVE SearchInv'
<1>1. /\ main = "print" /\ main' \in {"printed", "corrupt"}
      /\ local_answers' = [t \in Threads |-> {}]
      /\ UNCHANGED <<k, tid, str_buffer, behind, spurious, finished, pc, thread_is_sleep,
                     cond_mutex, thread_args, data, trie, roots, word_id_generator, words>>
  BY DEF PrintAnswers, MainAt, GoOn, buffer, threadVars, trieVars
<1>2. TypeOK'
  BY <1>1 DEF SearchInv, TypeOK, MainLabels
<1>3. TrieOK'
  BY <1>1 DEF SearchInv, MainOK, TrieOK, PrefixClosed
<1>4. MainOK' /\ SharesOK'
  BY <1>1, <1>3 DEF SearchInv, MainOK, SharesOK
<1>5. ASSUME NEW t \in Undisturbed PROVE PoolOK(t)' /\ AnswersOK(t)'
  <2>1. PoolOK(t)
    BY DEF SearchInv
  <2>2. PoolOK(t)'
    BY <1>1, <2>1 DEF PoolOK, Asleep, InWait
  <2>3. local_answers'[t] = {}
    BY <1>1, ThreadNumbers
  <2> QED
    BY <1>1, <2>2, <2>3 DEF AnswersOK
<1> QED
  BY <1>1, <1>2, <1>4, <1>5, Preserved

LEMMA NextCommandInv ==
    ASSUME SearchInv, NextCommand PROVE SearchInv'
<1>1. /\ main = "printed" /\ main' = "command"
      /\ UNCHANGED <<k, tid, str_buffer, behind, spurious, finished, pc, thread_is_sleep,
                     cond_mutex, thread_args, data, local_answers, trie, roots, word_id_generator,
                     words>>
  BY DEF NextCommand, MainAt, buffer, poolVars, trieVars
<1>2. TypeOK'
  BY <1>1 DEF SearchInv, TypeOK, MainLabels
<1>3. TrieOK'
  BY <1>1 DEF SearchInv, MainOK, TrieOK, PrefixClosed
<1>4. MainOK' /\ SharesOK'
  BY <1>1, <1>3 DEF SearchInv, MainOK, SharesOK
<1>5. ASSUME NEW t \in Undisturbed PROVE PoolOK(t)' /\ AnswersOK(t)'
  <2>1. PoolOK(t)
    BY DEF SearchInv
  <2>2. PoolOK(t)'
    BY <1>1, <2>1 DEF PoolOK, Asleep, InWait
  <2> QED
    BY <1>1, <2>2, NoAnswers
<1> QED
  BY <1>1, <1>2, <1>4, <1>5, Preserved

LEMMA UnknownCommandInv ==
    ASSUME SearchInv, UnknownCommand PROVE SearchInv'
<1>1. /\ main = "command" /\ main' = "exited"
      /\ UNCHANGED <<k, tid, str_buffer, behind, spurious, finished, pc, thread_is_sleep,
                     cond_mutex, thread_args, data, local_answers, trie, roots, word_id_generator,
                     words>>
  BY DEF UnknownCommand, MainAt, buffer, poolVars, trieVars
<1>2. TypeOK'
  BY <1>1 DEF SearchInv, TypeOK, MainLabels
<1>3. TrieOK'
  BY <1>1 DEF SearchInv, MainOK, TrieOK, PrefixClosed
<1>4. MainOK' /\ SharesOK'
  BY <1>1, <1>3 DEF SearchInv, MainOK, SharesOK
<1>5. ASSUME NEW t \in Undisturbed PROVE PoolOK(t)' /\ AnswersOK(t)'
  <2>1. PoolOK(t)
    BY DEF SearchInv
  <2>2. PoolOK(t)'
    BY <1>1, <2>1 DEF PoolOK
  <2> QED
    BY <1>1, <2>2, NoAnswers
<1> QED
  BY <1>1, <1>2, <1>4, <1>5, Preserved

LEMMA EndOfInputInv ==
    ASSUME SearchInv, EndOfInput PROVE SearchInv'
<1>1. /\ main = "command" /\ main' = "broadcast" /\ finished' = TRUE /\ k' = 0
      /\ UNCHANGED <<tid, str_buffer, behind, spurious, pc, thread_is_sleep, cond_mutex,
                     thread_args, data, local_answers, trie, roots, word_id_generator, words>>
  BY DEF EndOfInput, MainAt, buffer, threadVars, trieVars
<1>2. TypeOK'
  BY <1>1, TAssumption DEF SearchInv, TypeOK, MainLabels
<1>3. TrieOK'
  BY <1>1 DEF SearchInv, MainOK, TrieOK, PrefixClosed
<1>4. MainOK' /\ SharesOK'
  BY <1>1, <1>3 DEF SearchInv, MainOK, SharesOK
<1>5. ASSUME NEW t \in Undisturbed PROVE PoolOK(t)' /\ AnswersOK(t)'
  <2>1. PoolOK(t) /\ t \in Nat
    BY ThreadNumbers DEF SearchInv
  <2>2. PoolOK(t)'
    BY <1>1, <2>1 DEF PoolOK, Asleep, InWait
  <2> QED
    BY <1>1, <2>2, NoAnswers
<1> QED
  BY <1>1, <1>2, <1>4, <1>5, Preserved

LEMMA BroadcastInv ==
    ASSUME SearchInv, Broadcast PROVE SearchInv'
<1>1. /\ main = "broadcast" /\ ~cond_mutex[k]
      /\ pc' = [pc EXCEPT ![k] = IF @ = "waiting" THEN "woken" ELSE @]
      /\ k' = (k + 1) % T /\ main' = IF k = T - 1 THEN "join" ELSE "broadcast"
      /\ UNCHANGED <<tid, str_buffer, behind, spurious, finished, thread_is_sleep, cond_mutex,
                     thread_args, data, local_answers, trie, roots, word_id_generator, words>>
  BY DEF Broadcast, Wake, MainAt, buffer, threadVars, trieVars
<1>2. k < T /\ k \in Nat /\ T \in Nat \ {0} /\ k \in Threads /\ k \in 0..(T - 1)
  BY ThreadNumbers DEF Threads
<1>3. k' = IF k = T - 1 THEN 0 ELSE k + 1
  BY <1>1, <1>2, NextCounter
<1>4. k \in Undisturbed => pc[k] = "waiting"
  <2> SUFFICES ASSUME k \in Undisturbed PROVE pc[k] = "waiting"
    OBVIOUS
  <2>1. PoolOK(k)
    BY DEF SearchInv
  <2> QED
    BY <1>1, <1>2, <2>1 DEF PoolOK, Asleep, InWait
<1>5. /\ pc' \in [Threads -> Labels]
      /\ \A t \in Undisturbed : pc'[t] = IF t = k THEN "woken" ELSE pc[t]
  BY <1>1, <1>4 DEF SearchInv, TypeOK, Labels, Undisturbed
<1>6. TypeOK'
  <2>1. k' \in 0..(T - 1)
    BY <1>2, <1>3
  <2>2. main' \in MainLabels
    BY <1>1 DEF MainLabels
  <2>3. pc' \in [Threads -> Labels]
    BY <1>5
  <2> QED
    BY <1>1, <2>1, <2>2, <2>3 DEF SearchInv, TypeOK
<1>7. TrieOK'
  BY <1>1 DEF SearchInv, MainOK, TrieOK, PrefixClosed
<1>8. MainOK' /\ SharesOK'
  BY <1>1, <1>7 DEF SearchInv, MainOK, SharesOK
<1>9. ASSUME NEW t \in Undisturbed PROVE PoolOK(t)' /\ AnswersOK(t)'
  <2>1. PoolOK(t) /\ t \in Nat /\ t < T
    BY ThreadNumbers DEF SearchInv
  <2>2. pc'[t] = IF t = k THEN "woken" ELSE pc[t]
    BY <1>5
  <2>3. t <= k => Leaving(t)'
    BY <1>1, <1>2, <2>1, <2>2 DEF PoolOK, Leaving
  <2>4. k < t => Asleep(t)'
    BY <1>1, <1>2, <2>1, <2>2 DEF PoolOK, Asleep, InWait
  <2>5. cond_mutex'[t] <=> pc'[t] \in {"flag", "wait"}
    BY <1>1, <1>4, <2>1, <2>2 DEF PoolOK
  <2>6. PoolOK(t)'
    BY <1>1, <1>2, <1>3, <2>1, <2>3, <2>4, <2>5 DEF PoolOK
  <2>7. main' \in {"join", "broadcast"}
    BY <1>1
  <2> QED
    BY <1>1, <2>6, <2>7, NoAnswers
<1> QED
  BY <1>1, <1>6, <1>8, <1>9, Preserved

LEMMA JoinAllInv ==
    ASSUME SearchInv, JoinAll PROVE SearchInv'
<1>1. /\ main = "join" /\ main' = "end"
      /\ UNCHANGED <<k, tid, str_buffer, behind, spurious, finished, pc, thread_is_sleep,
                     cond_mutex, thread_args, data, local_answers, roots>>
  BY DEF JoinAll, MainAt, buffer, poolVars
<1>2. TypeOK'
  BY <1>1 DEF SearchInv, TypeOK, MainLabels
<1>3. MainOK' /\ SharesOK'
  BY <1>1 DEF SearchInv, MainOK, SharesOK
<1>4. ASSUME NEW t \in Undisturbed PROVE PoolOK(t)' /\ AnswersOK(t)'
  <2>1. PoolOK(t)
    BY DEF SearchInv
  <2>2. PoolOK(t)'
    BY <1>1, <2>1 DEF PoolOK, Leaving
  <2> QED
    BY <1>1, <2>2, NoAnswers
<1> QED
  BY <1>1, <1>2, <1>3, <1>4, Preserved


-----------------------------------------------------------------------------
(* Theorems *)

LEMMA InitInv == Init => SearchInv
<1> SUFFICES ASSUME Init PROVE SearchInv
  OBVIOUS
<1>1. TypeOK
  <2>1. 0 \in 0..(T - 1) /\ 0 \in 0..T /\ << >> \in Seq(Letters) /\ << >> \in Seq(Letters \cup {Nul})
    BY TAssumption
  <2>2. thread_args \in [Threads -> [root : Nat, at : Nat, length : Nat]]
    BY DEF Init
  <2>3. data \in [Threads -> [root : Nat, at : Nat, left : Nat]]
    BY DEF Init
  <2>4. /\ spurious \in [Threads -> Nat] /\ pc \in [Threads -> Labels] /\ cond_mutex \in [Threads -> BOOLEAN]
        /\ thread_is_sleep \in [Threads -> BOOLEAN] /\ DOMAIN local_answers = Threads
    BY DEF Init, Labels
  <2> QED
    BY <2>1, <2>2, <2>3, <2>4 DEF Init, TrieInit, TypeOK, MainLabels
<1>2. MainOK /\ SharesOK
  BY TrieInitOK DEF Init, MainOK, SharesOK
<1>3. ASSUME NEW t \in Undisturbed PROVE PoolOK(t) /\ AnswersOK(t)
  BY DEF Init, PoolOK, AnswersOK, Absent, Undisturbed
<1> QED
  BY <1>1, <1>2, <1>3 DEF SearchInv

LEMMA StepInv == SearchInv /\ [Next]_vars => SearchInv'
<1> SUFFICES ASSUME SearchInv, [Next]_vars PROVE SearchInv'
  OBVIOUS
<1>1. CASE Main
  BY <1>1, LoadInv, AddInv, DelInv, QueryInv, StartThreadsInv, CreateInv, AwaitStartInv,
     GiveArgsInv, ResetSleepInv, SignalInv, PollInv, PrintAnswersInv, NextCommandInv,
     UnknownCommandInv, EndOfInputInv, BroadcastInv, JoinAllInv
  DEF Main
<1>2. CASE \E t \in Threads : Thread(t) \/ SpuriousWakeup(t)
  BY <1>2, ThreadInv, SpuriousWakeupInv
<1>3. CASE UNCHANGED vars
  <2>1. UNCHANGED <<main, k, tid, str_buffer, behind, spurious, finished, pc, cond_mutex,
                    thread_is_sleep, thread_args, data, local_answers, trie, roots,
                    word_id_generator, words>>
    BY <1>3 DEF vars, buffer, poolVars, trieVars
  <2>2. /\ search_itertion_number' = search_itertion_number
        /\ \A u : Base(u)' = Base(u) /\ Share(u)' = Share(u)
        /\ \A S : AnswersOf(S)' = AnswersOf(S)
    BY <2>1, KeepAnswers
  <2>3. TypeOK'
    BY <2>1 DEF SearchInv, TypeOK
  <2>4. TrieOK' <=> TrieOK
    BY <2>1 DEF TrieOK, PrefixClosed
  <2>5. MainOK' /\ SharesOK'
    BY <2>1, <2>2, <2>4 DEF SearchInv, MainOK, SharesOK
  <2>6. ASSUME NEW t \in Undisturbed PROVE PoolOK(t)' /\ AnswersOK(t)'
    <3>1. PoolOK(t) /\ AnswersOK(t)
      BY DEF SearchInv
    <3>2. PoolOK(t)'
      BY <2>1, <3>1 DEF PoolOK, Absent, InWait, Asleep, Roused, Starting, Working, Leaving
    <3>3. FoundOK(t)' <=> FoundOK(t)
      BY <2>1, <2>2 DEF FoundOK, Asleep, Roused, InWait
    <3> QED
      BY <2>1, <2>2, <3>1, <3>2, <3>3 DEF AnswersOK
  <2> QED
    BY <2>1, <2>3, <2>5, <2>6, Preserved
<1> QED
  BY <1>1, <1>2, <1>3 DEF Next, Ended

\* project1 keeps its invariant: what a thread does, of which no wait has returned
\* without a signal, follows from where main is, it sets its flag only when it has
\* found all answers of its share, and the shares are all positions of the query.
\* That is so whatever the other threads do that were disturbed.
THEOREM SearchInvariant == Spec => []SearchInv
  BY InitInv, StepInv, PTL DEF Spec

\* A thread of project1, of which no wait has returned without a signal, does not
\* run while main adds and deletes words, hands out the shares of a query or
\* prints, although main only polls flags that the threads set before they wait.
THEOREM SearchersAreQuiet == Spec => []SearchersQuiet
<1>1. SearchInv => SearchersQuiet
  BY DEF SearchInv, PoolOK, Asleep, InWait, SearchersQuiet
<1> QED
  BY <1>1, SearchInvariant, PTL

\* insert and erase of trie.cc keep the set: the nodes with an id are the words
\* added and not deleted since, for any words, also prefixes of one another.
THEOREM TrieIsSet == Spec => []TrieHoldsWords
<1>1. SearchInv => TrieHoldsWords
  BY DEF SearchInv, MainOK, TrieOK, TrieHoldsWords
<1> QED
  BY <1>1, SearchInvariant, PTL

-----------------------------------------------------------------------------
(* What a query finds *)

\* When main prints, every position was given to a thread.
LEMMA EveryPosition ==
    ASSUME SearchInv, main = "print", NEW p \in 1..Len(str_buffer)
    PROVE  \E t \in Threads : t < tid /\ p \in Share(t)
<1> DEFINE N == search_itertion_number
           L == Len(str_buffer)
           t == (p - 1) \div N
<1>1. N \in Nat \ {0} /\ L \in Nat /\ L <= tid * N /\ tid \in Nat /\ tid <= T /\ T \in Nat
  BY ShareSize, ThreadNumbers DEF SearchInv, TypeOK, SharesOK, Base
<1>2. t \in Nat /\ t * N < p /\ p <= t * N + N
  <2> HIDE DEF N, L
  <2> QED
    BY <1>1
<1>3. t < tid
  <2> HIDE DEF N, t
  <2> SUFFICES ASSUME tid <= t PROVE FALSE
    BY <1>1, <1>2
  <2>1. tid * N <= t * N
    BY <1>1, <1>2
  <2>2. t * N \in Nat /\ tid * N \in Nat
    BY <1>1, <1>2
  <2> QED
    BY <1>1, <1>2, <2>1, <2>2
<1>4. t \in Threads
  BY <1>1, <1>2, <1>3 DEF Threads
<1>5. p \in Share(t)
  BY <1>2 DEF Share, Base
<1> QED
  BY <1>3, <1>4, <1>5

\* When main prints, an undisturbed thread has the answers of its share.
LEMMA SharePrinted ==
    ASSUME SearchInv, main = "print", NEW t \in Undisturbed
    PROVE  /\ t < tid => local_answers[t] = AnswersOf(Share(t))
           /\ ~(t < tid) => local_answers[t] = {}
<1>1. AnswersOK(t)
  BY DEF SearchInv
<1>2. t < tid \/ tid <= t
  BY ThreadNumbers
<1> QED
  BY <1>1, <1>2 DEF AnswersOK

\* A string that begins in the query is part of it or holds the Nul behind it.
LEMMA Strings ==
    ASSUME TypeOK, NEW p \in 1..Len(str_buffer), NEW l \in Nat \ {0}, p + l - 1 <= Len(Bytes)
    PROVE  IF p + l - 1 <= Len(str_buffer)
           THEN SubSeq(Bytes, p, p + l - 1) = SubSeq(str_buffer, p, p + l - 1)
           ELSE SubSeq(Bytes, p, p + l - 1) \notin Seq(Letters)
<1> DEFINE q == str_buffer
           B == Letters \cup {Nul}
           u == SubSeq(Bytes, p, p + l - 1)
           v == SubSeq(q, p, p + l - 1)
<1>1. /\ Bytes \in Seq(B) /\ Len(q) \in Nat /\ Len(Bytes) \in Nat /\ q \in Seq(B)
      /\ Len(q) < Len(Bytes)
      /\ \A i \in 1..Len(q) : Bytes[i] = q[i] /\ q[i] \in Letters
      /\ Bytes[Len(q) + 1] = Nul
  <2>1. q \in Seq(B)
    BY DEF TypeOK
  <2>2. Len(Bytes) \in Nat /\ Len(q) < Len(Bytes)
    BY BytesFacts
  <2> QED
    BY <2>1, <2>2, BytesFacts
<1> HIDE DEF B, q
<1>2. p \in Nat /\ p >= 1 /\ p <= Len(q)
  BY DEF q
<1>3. /\ p \in Int /\ p + l - 1 \in Int /\ p <= p + l - 1 + 1 /\ p + l - 1 - p + 1 = l
      /\ \A i \in p..(p + l - 1) : i \in 1..Len(Bytes)
  <2>1. Len(Bytes) \in Nat
    BY <1>1
  <2>2. ASSUME NEW i \in p..(p + l - 1) PROVE i \in 1..Len(Bytes)
    BY <1>2, <2>1, <2>2
  <2>3. p \in Int /\ p + l - 1 \in Int /\ p <= p + l - 1 + 1 /\ p + l - 1 - p + 1 = l
    BY <1>2
  <2> QED
    BY <2>2, <2>3
<1>4. \A i \in p..(p + l - 1) : Bytes[i] \in B
  BY <1>1, <1>3
<1>5. u \in Seq(B) /\ Len(u) = l /\ \A i \in 1..l : u[i] = Bytes[p + i - 1]
  BY <1>1, <1>3, <1>4, SubSeqProperties
<1>6. CASE p + l - 1 <= Len(q)
  <2>1. \A i \in p..(p + l - 1) : i \in 1..Len(q)
    BY <1>1, <1>2, <1>6
  <2>2. \A i \in p..(p + l - 1) : q[i] \in B
    BY <1>1, <2>1
  <2>3. v \in Seq(B) /\ Len(v) = l /\ \A i \in 1..l : v[i] = q[p + i - 1]
    BY <1>1, <1>3, <2>2, SubSeqProperties
  <2>4. \A i \in 1..l : p + i - 1 \in 1..Len(q)
    BY <1>1, <1>2, <1>6
  <2>5. \A i \in 1..l : u[i] = v[i]
    BY <1>1, <1>5, <2>3, <2>4
  <2> HIDE DEF u, v
  <2>6. u = v
    BY <1>5, <2>3, <2>5, SameSeq
  <2> QED
    BY <1>6, <2>6 DEF u, v, q
<1>7. CASE ~(p + l - 1 <= Len(q))
  <2> DEFINE i == Len(q) + 1 - p + 1
  <2>1. i \in 1..l /\ p + i - 1 = Len(q) + 1
    BY <1>1, <1>2, <1>7
  <2>2. u[i] = Nul
    BY <1>1, <1>5, <2>1
  <2> HIDE DEF u, i
  <2>3. u \notin Seq(Letters)
    BY <1>5, <2>1, <2>2, NulAssumption
  <2> QED
    BY <1>7, <2>3 DEF u, q
<1> QED
  BY <1>6, <1>7

\* The answer at position p of length l.
Answer(p, l) ==
    [at |-> p, length |-> l, id |-> trie[SubSeq(str_buffer, p, p + l - 1)]]

\* An answer is an occurrence of a word of the set in the query, with its id.
Genuine(a) ==
    /\ a.at \in 1..Len(str_buffer) /\ a.length \in 1..Len(str_buffer)
    /\ a.at + a.length - 1 <= Len(str_buffer)
    /\ Text(a) = SubSeq(str_buffer, a.at, a.at + a.length - 1)
    /\ Text(a) \in words /\ a.id = trie[Text(a)] /\ a.id \in Nat
    /\ a = Answer(a.at, a.length)

\* There is a word of the set at position p, of length l.
WordAt(p, l) ==
    p + l - 1 <= Len(str_buffer) /\ SubSeq(str_buffer, p, p + l - 1) \in words

\* The answers at positions of the query are the words of the set there.
LEMMA AnswerFacts ==
    ASSUME TypeOK, TrieOK, NEW S, S \subseteq 1..Len(str_buffer)
    PROVE  /\ \A a \in AnswersOf(S) : Genuine(a) /\ a.at \in S
           /\ \A p \in S, l \in 1..Len(str_buffer) :
                 WordAt(p, l) => Answer(p, l) \in AnswersOf(S)
<1> DEFINE q == str_buffer
<1>1. Len(q) \in Nat /\ Len(Bytes) \in Nat /\ Len(q) < Len(Bytes)
  BY BytesFacts
<1>2. DOMAIN trie \subseteq Seq(Letters)
  BY DEF TrieOK, PrefixClosed
<1>3. ASSUME NEW a \in AnswersOf(S) PROVE Genuine(a) /\ a.at \in S
  <2>1. PICK p \in S : a \in Answers(p)
    BY <1>3 DEF AnswersOf
  <2>2. /\ a \in [at : {p}, length : 1..(Len(Bytes) - p + 1), id : 1..MaxIds]
        /\ Node(trie, SubSeq(Bytes, p, p + a.length - 1)) = a.id
    BY <2>1 DEF Answers
  <2>3. a.at = p /\ a.length \in 1..(Len(Bytes) - p + 1) /\ a.id \in 1..MaxIds
    BY <2>2
  <2>4. Node(trie, Text(a)) = a.id /\ a.id # 0 /\ a.id \in Nat
    BY <2>2, <2>3, IdsAssumption DEF Text
  <2>5. Text(a) \in DOMAIN trie /\ Text(a) \in words /\ a.id = trie[Text(a)]
    BY <2>4 DEF Node, TrieOK
  <2>6. p \in 1..Len(q) /\ a.length \in Nat \ {0} /\ p + a.length - 1 <= Len(Bytes)
    BY <1>1, <2>3
  <2>7. IF p + a.length - 1 <= Len(q)
        THEN SubSeq(Bytes, p, p + a.length - 1) = SubSeq(q, p, p + a.length - 1)
        ELSE SubSeq(Bytes, p, p + a.length - 1) \notin Seq(Letters)
    BY <2>6, Strings
  <2>8. Text(a) = SubSeq(Bytes, p, p + a.length - 1)
    BY <2>3 DEF Text
  <2>9. p + a.length - 1 <= Len(q) /\ Text(a) = SubSeq(q, p, p + a.length - 1)
    BY <1>2, <2>5, <2>7, <2>8
  <2>10. a = [at |-> a.at, length |-> a.length, id |-> a.id]
    BY <2>2
  <2>11. a = Answer(a.at, a.length)
    BY <2>3, <2>5, <2>9, <2>10 DEF Answer
  <2>12. a.length \in 1..Len(q)
    BY <1>1, <2>6, <2>9
  <2> QED
    BY <2>3, <2>4, <2>5, <2>6, <2>9, <2>11, <2>12 DEF Genuine
<1>4. ASSUME NEW p \in S, NEW l \in 1..Len(q), WordAt(p, l)
      PROVE  Answer(p, l) \in AnswersOf(S)
  <2> DEFINE w == SubSeq(q, p, p + l - 1)
             a == Answer(p, l)
  <2>1. w \in DOMAIN trie /\ trie[w] \in 1..MaxIds
    BY <1>4, IdsAssumption DEF TrieOK, WordAt
  <2>2. /\ p \in 1..Len(q) /\ l \in 1..(Len(Bytes) - p + 1) /\ l \in Nat \ {0}
        /\ p + l - 1 <= Len(q) /\ p + l - 1 <= Len(Bytes)
    BY <1>1, <1>4 DEF WordAt
  <2>3. SubSeq(Bytes, p, p + l - 1) = w
    BY <2>2, Strings
  <2>4. a = [at |-> p, length |-> l, id |-> trie[w]]
    BY DEF Answer
  <2> HIDE DEF a, w
  <2>5. a \in [at : {p}, length : 1..(Len(Bytes) - p + 1), id : 1..MaxIds]
    BY <2>1, <2>2, <2>4
  <2>6. Node(trie, SubSeq(Bytes, p, p + a.length - 1)) = a.id
    BY <2>1, <2>3, <2>4 DEF Node
  <2>7. a \in Answers(p)
    BY <2>5, <2>6 DEF Answers
  <2> QED
    BY <2>7 DEF AnswersOf, a
<1> QED
  BY <1>3, <1>4

\* A query of project1 is searched completely by the threads of which no wait has
\* returned without a signal, whatever the others do: when main prints, they have
\* found every occurrence of a word of the set in their shares, which the query
\* consists of, and nothing else; the ids by which main leaves out repetitions
\* tell the words apart.
THEOREM QueriesComplete == Spec => []AllFound
<1>1. SearchInv => AllFound
  <2> SUFFICES ASSUME SearchInv, main = "print" PROVE AllFound
    BY DEF AllFound
  <2> DEFINE q == str_buffer
             answers == UNION {local_answers[t] : t \in Undisturbed}
  <2>1. TypeOK /\ TrieOK /\ \A t : Share(t) \subseteq 1..Len(q)
    BY DEF SearchInv, MainOK, Share
  <2>2. ASSUME NEW a \in answers PROVE Genuine(a)
    <3>1. PICK t \in Undisturbed : a \in local_answers[t]
      BY <2>2
    <3>2. a \in AnswersOf(Share(t))
      BY <3>1, SharePrinted
    <3> QED
      BY <2>1, <3>2, AnswerFacts
  <2>3. ASSUME NEW o \in WordsIn(q)
        PROVE  \E t \in Threads :
                  /\ o[1] \in Share(t)
                  /\ t \in Undisturbed => \E a \in local_answers[t] : o = <<a.at, a.length>>
    <3>1. PICK p \in 1..Len(q), l \in 1..Len(q) : o = <<p, l>> /\ WordAt(p, l)
      BY DEF WordsIn, WordAt
    <3>2. PICK t \in Threads : t < tid /\ p \in Share(t)
      BY EveryPosition
    <3>3. ASSUME t \in Undisturbed PROVE \E a \in local_answers[t] : o = <<a.at, a.length>>
      <4>1. local_answers[t] = AnswersOf(Share(t))
        BY <3>2, <3>3, SharePrinted
      <4>2. Answer(p, l) \in local_answers[t]
        BY <2>1, <3>1, <3>2, <4>1, AnswerFacts
      <4>3. Answer(p, l).at = p /\ Answer(p, l).length = l
        BY DEF Answer
      <4> QED
        BY <3>1, <4>2, <4>3
    <3> QED
      BY <3>1, <3>2, <3>3
  <2>4. {<<a.at, a.length>> : a \in answers} \subseteq WordsIn(q)
    <3>1. ASSUME NEW a \in answers PROVE <<a.at, a.length>> \in WordsIn(q)
      <4>1. /\ a.at \in 1..Len(q) /\ a.length \in 1..Len(q) /\ a.at + a.length - 1 <= Len(q)
            /\ SubSeq(q, a.at, a.at + a.length - 1) \in words
        BY <2>2 DEF Genuine
      <4> QED
        BY <4>1 DEF WordsIn
    <3> HIDE DEF answers
    <3> QED
      BY <3>1
  <2>5. \A v, w \in words : trie[v] = trie[w] => v = w
    BY <2>1 DEF TrieOK
  <2> HIDE DEF answers
  <2>6. \A a, c \in answers : a.id = c.id <=> Text(a) = Text(c)
    BY <2>2, <2>5 DEF Genuine
  <2> QED
    BY <2>3, <2>4, <2>6 DEF AllFound, answers
<1> QED
  BY <1>1, SearchInvariant, PTL

-----------------------------------------------------------------------------
(* What a query prints when no thread was disturbed *)

Found == UNION {local_answers[t] : t \in Threads}

LEMMA FoundFacts ==
    ASSUME SearchInv, main = "print", Undisturbed = Threads
    PROVE  /\ \A a \in Found :
                 /\ a.at \in 1..Len(str_buffer) /\ a.length \in 1..Len(str_buffer)
                 /\ a.at + a.length - 1 <= Len(str_buffer)
                 /\ Text(a) = SubSeq(str_buffer, a.at, a.at + a.length - 1)
                 /\ Text(a) \in words /\ a.id = trie[Text(a)] /\ a.id \in Nat
                 /\ a = Answer(a.at, a.length)
           /\ \A p, l \in 1..Len(str_buffer) :
                 p + l - 1 <= Len(str_buffer) /\ SubSeq(str_buffer, p, p + l - 1) \in words
                    => Answer(p, l) \in Found
           /\ \A v, w \in words : trie[v] = trie[w] => v = w
<1>1. TypeOK /\ TrieOK /\ \A t : Share(t) \subseteq 1..Len(str_buffer)
  BY DEF SearchInv, MainOK, Share
<1>2. ASSUME NEW a \in Found PROVE Genuine(a)
  <2>1. PICK t \in Undisturbed : a \in local_answers[t]
    BY <1>2 DEF Found
  <2>2. a \in AnswersOf(Share(t))
    BY <2>1, SharePrinted
  <2> QED
    BY <1>1, <2>2, AnswerFacts
<1>3. ASSUME NEW p \in 1..Len(str_buffer), NEW l \in 1..Len(str_buffer), WordAt(p, l)
      PROVE  Answer(p, l) \in Found
  <2>1. PICK t \in Threads : t < tid /\ p \in Share(t)
    BY EveryPosition
  <2>2. local_answers[t] = AnswersOf(Share(t))
    BY <2>1, SharePrinted
  <2>3. Answer(p, l) \in local_answers[t]
    BY <1>1, <1>3, <2>1, <2>2, AnswerFacts
  <2> QED
    BY <2>3 DEF Found
<1>4. \A v, w \in words : trie[v] = trie[w] => v = w
  BY <1>1 DEF TrieOK
<1> QED
  BY <1>2, <1>3, <1>4 DEF Genuine, WordAt

\* The words of the set that occur in the query.
Occurring == {w \in words : Occurrences(w, str_buffer) # {}}

\* A part of the query of l letters.
LEMMA PartOf ==
    ASSUME NEW q \in Seq(Letters), NEW p \in 1..Len(q), NEW l \in 1..Len(q), p + l - 1 <= Len(q)
    PROVE  Len(SubSeq(q, p, p + l - 1)) = l
<1>1. p \in Int /\ p + l - 1 \in Int /\ p <= p + l - 1 + 1
  OBVIOUS
<1>2. Len(SubSeq(q, p, p + l - 1)) = (p + l - 1) - p + 1
  BY SubSeqProperties
<1> QED
  BY <1>2

\* First is the least position where a word occurs.
LEMMA FirstFacts ==
    ASSUME SearchInv, main = "print", words \subseteq Words, NEW w \in Occurring
    PROVE  LET p == First(w, str_buffer) IN
           /\ p \in 1..Len(str_buffer) /\ Len(w) \in 1..Len(str_buffer)
           /\ p + Len(w) - 1 <= Len(str_buffer)
           /\ SubSeq(str_buffer, p, p + Len(w) - 1) = w
           /\ \A r \in Occurrences(w, str_buffer) : p <= r
<1> DEFINE q == str_buffer
           O == Occurrences(w, q)
           p == First(w, q)
<1>1. w \in words /\ O # {} /\ w \in Seq(Letters) /\ w # << >>
  BY WordsAssumption DEF Occurring
<1>2. Len(q) \in Nat /\ Len(w) \in Nat /\ Len(w) >= 1
  BY <1>1, EmptySeq DEF SearchInv, TypeOK
<1>3. O \subseteq Nat
  BY DEF Occurrences
<1>4. \E l \in O : \A i \in O : l <= i
  BY <1>1, <1>3, Least, Zenon
<1>5. p \in O /\ \A r \in O : p <= r
  BY <1>4, Zenon DEF First
<1>6. p \in 1..(Len(q) - Len(w) + 1) /\ SubSeq(q, p, p + Len(w) - 1) = w
  BY <1>5 DEF Occurrences
<1> HIDE DEF p, O, q
<1>7. p \in 1..Len(q) /\ Len(w) \in 1..Len(q) /\ p + Len(w) - 1 <= Len(q)
  BY <1>2, <1>6
<1> QED
  BY <1>5, <1>6, <1>7 DEF p, O, q

\* Main prints an answer for the first occurrence of a word.
LEMMA ShownFacts ==
    ASSUME SearchInv, main = "print", Undisturbed = Threads, words \subseteq Words,
           NEW a \in Shown(Found)
    PROVE  /\ a \in Found /\ Text(a) \in Occurring
           /\ a.at = First(Text(a), str_buffer) /\ a.length = Len(Text(a))
           /\ a.at \in Nat /\ a.length \in Nat /\ a.id \in Nat
<1> DEFINE q == str_buffer
           w == Text(a)
           p == First(w, q)
<1>1. a \in Found /\ \A b \in Found : b.id = a.id => ~Before(b, a)
  BY DEF Shown
<1>2. /\ a.at \in 1..Len(q) /\ a.length \in 1..Len(q) /\ a.at + a.length - 1 <= Len(q)
      /\ w \in words /\ a.id = trie[w] /\ a.id \in Nat
      /\ w = SubSeq(q, a.at, a.at + a.length - 1)
  BY <1>1, FoundFacts
<1>3. q \in Seq(Letters) /\ Len(q) \in Nat
  BY DEF SearchInv, TypeOK
<1>4. Len(w) = a.length
  BY <1>2, <1>3, PartOf
<1>5. a.at \in Occurrences(w, q)
  <2>1. a.at \in 1..(Len(q) - Len(w) + 1)
    BY <1>2, <1>3, <1>4
  <2>2. SubSeq(q, a.at, a.at + Len(w) - 1) = w
    BY <1>2, <1>4
  <2> QED
    BY <2>1, <2>2 DEF Occurrences
<1>6. w \in Occurring
  BY <1>2, <1>5 DEF Occurring
<1>7. /\ p \in 1..Len(q) /\ Len(w) \in 1..Len(q) /\ p + Len(w) - 1 <= Len(q)
      /\ SubSeq(q, p, p + Len(w) - 1) = w
      /\ p <= a.at
  BY <1>5, <1>6, FirstFacts
<1>8. Answer(p, Len(w)) \in Found
  BY <1>2, <1>7, FoundFacts
<1>9. Answer(p, Len(w)).id = a.id /\ Answer(p, Len(w)).at = p
  BY <1>2, <1>7 DEF Answer
<1>10. ~(p < a.at)
  BY <1>1, <1>8, <1>9 DEF Before
<1> HIDE DEF w, p, q
<1>11. p = a.at
  BY <1>2, <1>7, <1>10, <1>3
<1> QED
  BY <1>1, <1>2, <1>3, <1>4, <1>6, <1>11 DEF w, p, q

\* For every word that occurs main prints one.
LEMMA OccurringShown ==
    ASSUME SearchInv, main = "print", Undisturbed = Threads, words \subseteq Words,
           NEW w \in Occurring
    PROVE  \E a \in Shown(Found) : Text(a) = w
<1> DEFINE q == str_buffer
           p == First(w, q)
           a == Answer(p, Len(w))
<1>1. /\ p \in 1..Len(q) /\ Len(w) \in 1..Len(q) /\ p + Len(w) - 1 <= Len(q)
      /\ SubSeq(q, p, p + Len(w) - 1) = w
      /\ \A r \in Occurrences(w, q) : p <= r
  BY FirstFacts
<1>2. w \in words
  BY DEF Occurring
<1>3. a \in Found
  BY <1>1, <1>2, FoundFacts
<1>4. a.at = p /\ a.length = Len(w) /\ a.id = trie[w] /\ Text(a) = w
  <2>1. a.at = p /\ a.length = Len(w) /\ a.id = trie[w]
    BY <1>1 DEF Answer
  <2>2. Text(a) = SubSeq(q, a.at, a.at + a.length - 1)
    BY <1>3, FoundFacts
  <2> QED
    BY <1>1, <2>1, <2>2
<1>5. q \in Seq(Letters) /\ Len(q) \in Nat
  BY DEF SearchInv, TypeOK
<1>6. ASSUME NEW b \in Found, b.id = a.id PROVE ~Before(b, a)
  <2>1. /\ b.at \in 1..Len(q) /\ b.length \in 1..Len(q) /\ b.at + b.length - 1 <= Len(q)
        /\ Text(b) \in words /\ b.id = trie[Text(b)] /\ b.id \in Nat
        /\ Text(b) = SubSeq(q, b.at, b.at + b.length - 1)
    BY FoundFacts
  <2>2. Text(b) = w
    BY <1>2, <1>4, <1>6, <2>1, FoundFacts
  <2>3. Len(w) = b.length
    BY <1>5, <2>1, <2>2, PartOf
  <2>4. b.at \in Occurrences(w, q)
    <3>1. b.at \in 1..(Len(q) - Len(w) + 1)
      BY <1>5, <2>1, <2>3
    <3>2. SubSeq(q, b.at, b.at + Len(w) - 1) = w
      BY <2>1, <2>2, <2>3
    <3> QED
      BY <3>1, <3>2 DEF Occurrences
  <2>5. p <= b.at
    BY <1>1, <2>4
  <2> HIDE DEF a, p, q
  <2> QED
    BY <1>1, <1>4, <1>5, <1>6, <2>1, <2>3, <2>5 DEF Before
<1> HIDE DEF a
<1> QED
  BY <1>3, <1>4, <1>6 DEF Shown

\* The answers that main prints are in the same order as the words.
LEMMA ShownOrder ==
    ASSUME SearchInv, main = "print", Undisturbed = Threads, words \subseteq Words
    PROVE  LET A == Shown(Found)
               f == [a \in A |-> Text(a)]
               R == {o \in A \X A : Before(o[1], o[2])}
               Q == {o \in Occurring \X Occurring : PrintedBefore(o[1], o[2])}
           IN  /\ IsFiniteSet(A) /\ Orders(R, A) /\ f \in Bijection(A, Occurring)
               /\ Keeps(f, R, A, Q)
<1> DEFINE A == Shown(Found)
           f == [a \in A |-> Text(a)]
           R == {o \in A \X A : Before(o[1], o[2])}
           Q == {o \in Occurring \X Occurring : PrintedBefore(o[1], o[2])}
           L == Len(str_buffer)
<1>1. ASSUME NEW a \in A
      PROVE  /\ a \in Found /\ Text(a) \in Occurring
             /\ a.at = First(Text(a), str_buffer) /\ a.length = Len(Text(a))
             /\ a.at \in Nat /\ a.length \in Nat /\ a.id \in Nat
  BY ShownFacts
<1>2. ASSUME NEW a \in A
      PROVE  a.at \in 1..L /\ a.length \in 1..L /\ a = Answer(a.at, a.length)
  BY <1>1, FoundFacts
<1>3. \A w \in Occurring : \E a \in A : Text(a) = w
  BY OccurringShown
<1>4. L \in Nat
  BY DEF SearchInv, TypeOK
<1> HIDE DEF A, L
<1>5. \A a, b \in A : a.at = b.at /\ a.length = b.length => a = b
  BY <1>2, Zenon
<1>6. IsFiniteSet(A)
  <2> DEFINE g == [a \in A |-> <<a.at, a.length>>]
             P == (1..L) \X (1..L)
  <2>1. IsFiniteSet(P)
    <3>1. IsFiniteSet(1..L)
      BY <1>4, FS_Interval
    <3> QED
      BY <3>1, FS_Product
  <2>2. g \in Injection(A, P)
    <3>1. g \in [A -> P]
      BY <1>2
    <3>2. \A a, b \in A : g[a] = g[b] => a = b
      BY <1>5
    <3> HIDE DEF g, P
    <3> QED
      BY <3>1, <3>2 DEF Injection, IsInjective
  <2> HIDE DEF g, P
  <2> QED
    BY <2>1, <2>2, FS_Injection
<1>7. \A a, b \in A : <<a, b>> \in R <=> Before(a, b)
  OBVIOUS
<1>8. Orders(R, A)
  <2> HIDE DEF R
  <2>1. \A a \in A : ~Before(a, a)
    BY <1>1 DEF Before
  <2>2. \A a, b \in A : a # b => Before(a, b) \/ Before(b, a)
    <3> SUFFICES ASSUME NEW a \in A, NEW b \in A, a # b PROVE Before(a, b) \/ Before(b, a)
      OBVIOUS
    <3>1. a.at # b.at \/ a.length # b.length
      BY <1>5
    <3> QED
      BY <1>1, <3>1 DEF Before
  <2>3. \A a, b, c \in A : Before(a, b) /\ Before(b, c) => Before(a, c)
    BY <1>1 DEF Before
  <2> QED
    BY <1>7, <2>1, <2>2, <2>3 DEF Orders
<1>9. f \in Bijection(A, Occurring)
  <2>1. f \in [A -> Occurring]
    BY <1>1
  <2>2. \A a, b \in A : f[a] = f[b] => a = b
    <3> SUFFICES ASSUME NEW a \in A, NEW b \in A, Text(a) = Text(b) PROVE a = b
      OBVIOUS
    <3> QED
      BY <1>1, <1>5
  <2>3. \A w \in Occurring : \E a \in A : f[a] = w
    BY <1>3
  <2> HIDE DEF f
  <2> QED
    BY <2>1, <2>2, <2>3 DEF Bijection, Injection, Surjection, IsInjective
<1>10. ASSUME NEW x \in A, NEW y \in A PROVE <<x, y>> \in R <=> <<f[x], f[y]>> \in Q
  <2>1. f[x] = Text(x) /\ f[y] = Text(y) /\ Text(x) \in Occurring /\ Text(y) \in Occurring
    BY <1>1
  <2>2. Before(x, y) <=> PrintedBefore(Text(x), Text(y))
    <3>1. x.at = y.at /\ x.length = y.length => x.id = y.id
      BY <1>5
    <3> QED
      BY <1>1, <3>1 DEF Before, PrintedBefore
  <2> HIDE DEF R, f
  <2> QED
    BY <1>7, <2>1, <2>2
<1> QED
  BY <1>6, <1>8, <1>9, <1>10 DEF A, Keeps

\* What main prints is what it should print.
LEMMA PrintsExpected ==
    ASSUME SearchInv, main = "print", Undisturbed = Threads, words \subseteq Words
    PROVE  Printed(Found) = Expected
<1> DEFINE A == Shown(Found)
           f == [a \in A |-> Text(a)]
           R == {o \in A \X A : Before(o[1], o[2])}
           Q == {o \in Occurring \X Occurring : PrintedBefore(o[1], o[2])}
           N == Cardinality(A)
<1>1. /\ IsFiniteSet(A) /\ Orders(R, A) /\ f \in Bijection(A, Occurring)
      /\ Keeps(f, R, A, Q)
  BY ShownOrder
<1>2. \A a \in A : f[a] = Text(a)
  OBVIOUS
<1>3. \A z \in A : Rank(R, A, z) = Cardinality({y \in A : Before(y, z)})
  <2> SUFFICES ASSUME NEW z \in A
               PROVE  {y \in A : <<y, z>> \in R} = {y \in A : Before(y, z)}
    BY DEF Rank
  <2> HIDE DEF A
  <2> QED
    OBVIOUS
<1>4. \A u \in Occurring : Rank(Q, Occurring, u)
                             = Cardinality({v \in Occurring : PrintedBefore(v, u)})
  <2> SUFFICES ASSUME NEW u \in Occurring
               PROVE  {v \in Occurring : <<v, u>> \in Q}
                      = {v \in Occurring : PrintedBefore(v, u)}
    BY DEF Rank
  <2> QED
    OBVIOUS
<1>5. Printed(Found) = [n \in 1..N |->
         Text(CHOOSE x \in A : Cardinality({y \in A : Before(y, x)}) = n - 1)]
  BY DEF Printed, InOrder
<1>6. Expected = [n \in 1..Cardinality(Occurring) |->
         CHOOSE x \in Occurring : Cardinality({y \in Occurring : PrintedBefore(y, x)}) = n - 1]
  BY DEF Expected, InOrder, Occurring
<1> HIDE DEF A, f, R, Q, N
<1>7. Cardinality(Occurring) = N /\ SamePlaces(f, R, A, Q, Occurring)
  BY <1>1, SameOrder DEF N
<1>8. ASSUME NEW n \in 1..N
      PROVE  Text(CHOOSE x \in A : Cardinality({y \in A : Before(y, x)}) = n - 1)
             = CHOOSE x \in Occurring :
                  Cardinality({y \in Occurring : PrintedBefore(y, x)}) = n - 1
  <2>1. PICK x \in A : /\ \A z \in A : Rank(R, A, z) = n - 1 <=> z = x
                       /\ \A u \in Occurring : Rank(Q, Occurring, u) = n - 1 <=> u = f[x]
    BY <1>7 DEF SamePlaces, N
  <2>2. f[x] \in Occurring
    BY <1>1 DEF Bijection, Injection
  <2>3. \A z \in A : Cardinality({y \in A : Before(y, z)}) = n - 1 <=> z = x
    BY <1>3, <2>1, Zenon
  <2>4. \A u \in Occurring :
           Cardinality({y \in Occurring : PrintedBefore(y, u)}) = n - 1 <=> u = f[x]
    BY <1>4, <2>1, Zenon
  <2>5. (CHOOSE z \in A : Cardinality({y \in A : Before(y, z)}) = n - 1) = x
    BY <2>3, Zenon
  <2>6. (CHOOSE u \in Occurring :
           Cardinality({y \in Occurring : PrintedBefore(y, u)}) = n - 1) = f[x]
    BY <2>2, <2>4, Zenon
  <2> QED
    BY <1>2, <2>5, <2>6, Zenon
<1> QED
  BY <1>5, <1>6, <1>7, <1>8, Zenon

\* Besides, no word is empty: an empty one would occur and never be found.
PrintInv == SearchInv /\ words \subseteq Words /\ AnswersComplete

LEMMA PrintStep == PrintInv /\ [Next]_vars => PrintInv'
<1> SUFFICES ASSUME PrintInv, [Next]_vars PROVE words' \subseteq Words /\ AnswersComplete'
  BY StepInv DEF PrintInv
<1>1. CASE PrintAnswers
  <2>1. /\ main = "print" /\ output' = Printed(Found)
        /\ UNCHANGED <<words, str_buffer, spurious>>
    BY <1>1 DEF PrintAnswers, MainAt, Found, buffer, threadVars, trieVars
  <2>2. ASSUME Undisturbed' = Threads PROVE output' = Expected'
    <3>1. Undisturbed = Threads
      BY <2>1, <2>2 DEF Undisturbed
    <3>2. Printed(Found) = Expected
      BY <2>1, <3>1, PrintsExpected DEF PrintInv
    <3>3. Expected' = Expected
      BY <2>1 DEF Expected, InOrder, PrintedBefore, First, Occurrences
    <3> QED
      BY <2>1, <3>2, <3>3
  <2> QED
    BY <2>1, <2>2 DEF PrintInv, AnswersComplete, QueriesCorrect
<1>2. CASE UNCHANGED <<main, output, words, str_buffer, spurious>>
  <2>1. Expected' = Expected
    BY <1>2 DEF Expected, InOrder, PrintedBefore, First, Occurrences
  <2>2. Undisturbed' = Undisturbed
    BY <1>2 DEF Undisturbed
  <2> QED
    BY <1>2, <2>1, <2>2 DEF PrintInv, AnswersComplete, QueriesCorrect
<1>3. CASE \E t \in Threads : Thread(t) /\ ~SearchFreedRoot(t)
  <2>1. UNCHANGED mainVars
    BY <1>3 DEF Thread, LockToSleep, SetSleep, Wait, Resume, ReadArgs, Search, SearchEnds
  <2> QED
    BY <1>2, <2>1 DEF mainVars, buffer, trieVars
<1>4. CASE UNCHANGED vars
  BY <1>2, <1>4 DEF vars, buffer, poolVars, trieVars
<1>5. CASE \E w \in Words : Load(w) \/ Add(w) \/ Del(w)
  <2>1. words' \subseteq Words
    BY <1>5 DEF PrintInv, Load, Add, Del, insert, Delete
  <2>2. main' # "printed"
    BY <1>5 DEF Load, Add, Del, Command, MainAt, GoOn
  <2> QED
    BY <2>1, <2>2 DEF AnswersComplete, QueriesCorrect
<1>6. CASE \/ \E q \in Queries : Query(q)
           \/ \E t \in Threads : SearchFreedRoot(t)
           \/ StartThreads \/ Create \/ AwaitStart
           \/ GiveArgs \/ ResetSleep \/ Signal \/ Poll \/ NextCommand
           \/ UnknownCommand \/ EndOfInput \/ Broadcast \/ JoinAll
  <2>1. main' # "printed"
    BY <1>6 DEF Query, SearchFreedRoot, StartThreads, Create, AwaitStart, GiveArgs, ResetSleep,
       Signal, Poll, NextCommand, UnknownCommand, EndOfInput, Broadcast, JoinAll, NextOf, MainAt,
       GoOn
  <2>2. words' = words
    BY <1>6 DEF Query, SearchFreedRoot, StartThreads, Create, AwaitStart, GiveArgs, ResetSleep,
       Signal, Poll, NextCommand, UnknownCommand, EndOfInput, Broadcast, JoinAll, trieVars
  <2> QED
    BY <2>1, <2>2 DEF PrintInv, AnswersComplete, QueriesCorrect
<1>7. CASE \E t \in Threads : SpuriousWakeup(t)
  <2>1. PICK t \in Threads : SpuriousWakeup(t)
    BY <1>7
  <2>2. spurious \in [Threads -> Nat]
    BY DEF PrintInv, SearchInv, TypeOK
  <2>3. spurious' = [spurious EXCEPT ![t] = spurious[t] + 1] /\ words' = words
    BY <2>1 DEF SpuriousWakeup, trieVars
  <2>4. spurious'[t] # 0
    BY <2>2, <2>3
  <2>5. Undisturbed' # Threads
    BY <2>4 DEF Undisturbed
  <2> QED
    BY <2>3, <2>5 DEF PrintInv, AnswersComplete
<1> QED
  BY <1>1, <1>3, <1>4, <1>5, <1>6, <1>7 DEF Next, Main, Ended

\* As long as no wait of project1 has returned without a signal, a query prints
\* every word of the set that occurs in it, each once and in the order of the
\* first occurrences, shorter words first, and nothing else, however many threads
\* search and however they are scheduled.
THEOREM QueriesPrintWords == Spec => []AnswersComplete
<1>1. Init => PrintInv
  BY InitInv DEF PrintInv, Init, TrieInit, AnswersComplete, QueriesCorrect
<1>2. PrintInv => AnswersComplete
  BY DEF PrintInv
<1> QED
  BY <1>1, <1>2, PrintStep, PTL DEF Spec
=============================================================================
