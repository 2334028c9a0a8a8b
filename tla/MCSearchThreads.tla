--------------------------- MODULE MCSearchThreads ---------------------------
(* TLC instances of SearchThreads: words and queries over two letters. *)
EXTENDS SearchThreads

CONSTANTS a, b

MCWords == {<<a>>, <<a, b>>, <<b>>}
MCQueries == {<<a>>, <<b, a, b>>}

-----------------------------------------------------------------------------
(* erase of trie.cc as the code has it, to compare erase of Trie with. *)

HasChild(T0, n) == \E c \in Letters : Append(n, c) \in DOMAIN T0
Free(T0, n) == [m \in DOMAIN T0 \ {n} |-> T0[m]]

RECURSIVE erase_recur(_, _, _)
erase_recur(T0, n, rest) ==
    IF n \notin DOMAIN T0 THEN [said |-> FALSE, trie |-> T0, bad |-> FALSE]
    ELSE IF rest = << >> /\ T0[n] # 0 THEN
        [said |-> TRUE, bad |-> FALSE,
         trie |-> IF HasChild(T0, n) THEN [T0 EXCEPT ![n] = 0] ELSE Free(T0, n)]
    ELSE IF rest = << >> THEN [said |-> FALSE, trie |-> T0, bad |-> TRUE]
    ELSE LET r == erase_recur(T0, Append(n, Head(rest)), Tail(rest)) IN
        IF r.said /\ T0[n] = 0 /\ ~HasChild(r.trie, n)
        THEN [r EXCEPT !.trie = Free(@, n)] ELSE r

\* The tries with words of at most two letters; of an id, erase sees whether
\* it is 0.
Strings(n) == UNION {[1..l -> Letters] : l \in 0..n}
Tries ==
    LET Closed == {N \in SUBSET Strings(2) :
                      root \in N /\ \A n \in N : Prefixes(n) \subseteq N}
    IN  UNION {[N -> {0, 1}] : N \in Closed}

ASSUME EraseAssumption ==
    \A T0 \in Tries, w \in Strings(3) \ {root} :
        LET r == erase_recur(T0, root, w) IN
        erase(T0, w) = r.trie /\ OutOfArray(T0, w) = r.bad
=============================================================================
