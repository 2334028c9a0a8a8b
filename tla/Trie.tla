-------------------------------- MODULE Trie ---------------------------------
(***************************************************************************)
(* The word set of project1 (trie.cc): a trie whose nodes hold the id of   *)
(* the word that ends there, or 0.                                         *)
(*                                                                         *)
(* A node is named by the letters on the way to it, so that the pointers   *)
(* of the chars arrays are the one-letter extensions of a name; the empty  *)
(* name is the root.                                                       *)
(***************************************************************************)
EXTENDS Integers, SequencesExt

CONSTANTS Letters,        \* the ALPHA_NUM letters
          Words,          \* the words of the input
          MaxIds          \* bound: insertions

ASSUME WordsAssumption == Words \subseteq (Seq(Letters) \ {<< >>})
ASSUME IdsAssumption == MaxIds \in Nat

VARIABLES
    trie,                 \* word_id of each node
    word_id_generator,
    roots,                \* how many root nodes there have been
    corrupt,              \* memory before a chars array was taken for a child
    words                 \* history: the words of the set

trieVars == <<trie, word_id_generator, roots, corrupt, words>>

root == << >>

create_trie_node == [n \in {root} |-> 0]

TrieInit ==
    /\ trie = create_trie_node
    /\ word_id_generator = 1
    /\ roots = 1
    /\ corrupt = FALSE
    /\ words = {}

-----------------------------------------------------------------------------
Node(T, n) == IF n \in DOMAIN T THEN T[n] ELSE 0

\* Mutant: a node that was there already gets no id.
insert_NewNodeOnly(w) ==
    /\ word_id_generator <= MaxIds
    /\ trie' = [n \in DOMAIN trie \cup Prefixes(w) |->
                  IF n = w /\ n \notin DOMAIN trie THEN word_id_generator
                  ELSE Node(trie, n)]
    /\ word_id_generator' = word_id_generator + 1
    /\ words' = words \cup {w}
    /\ UNCHANGED <<roots, corrupt>>

insert(w) ==
    /\ word_id_generator <= MaxIds
    /\ trie' = [n \in DOMAIN trie \cup Prefixes(w) |->
                  IF n = w THEN word_id_generator ELSE Node(trie, n)]
    /\ word_id_generator' = word_id_generator + 1
    /\ words' = words \cup {w}
    /\ UNCHANGED <<roots, corrupt>>

\* A child of n that is not on the way to w: the one that is has been freed
\* when the recursion comes back to n.
child_exist(T, w, n) ==
    \E c \in Letters : Append(n, c) \in DOMAIN T \ Prefixes(w)

\* A node on the way to w that nothing but w needs.
Useless(T, w, n) == (n = w \/ T[n] = 0) /\ ~child_exist(T, w, n)

\* The recursion frees from the end of w upwards, up to the first node that
\* something else needs.
Freed(T, w) ==
    {n \in Prefixes(w) :
        \A m \in Prefixes(w) : Len(n) <= Len(m) => Useless(T, w, m)}

\* What erase leaves of a trie that holds w.
Erased(T, w) == [n \in DOMAIN T \ Freed(T, w) |-> IF n = w THEN 0 ELSE T[n]]

\* Whether every node on the way to w is there.
Reaches(T, w) == Prefixes(w) \subseteq DOMAIN T

erase(T, w) == IF Reaches(T, w) /\ T[w] # 0 THEN Erased(T, w) ELSE T

\* At the end of the word a node without an id has no next letter: the code
\* takes the pointer at '\0' - 'a', which is before the array.
OutOfArray(T, w) == Reaches(T, w) /\ T[w] = 0

\* The command D: erase the word; a root that was freed is made again.
Delete(w) ==
    /\ trie' = IF root \in DOMAIN erase(trie, w) THEN erase(trie, w)
               ELSE create_trie_node
    /\ roots' = IF root \in DOMAIN erase(trie, w) THEN roots ELSE roots + 1
    /\ corrupt' = OutOfArray(trie, w)
    /\ words' = words \ {w}
    /\ UNCHANGED word_id_generator
=============================================================================
