---------------------------- MODULE WaitForGraph ----------------------------
(***************************************************************************)
(* The wait-for graph of project2 as the lock table sees it: a function    *)
(* that gives every thread the set of threads it waits for.  The adjacency *)
(* vectors and the depth-first search of directed_graph.cc are modelled in *)
(* DirectedGraph, which is checked and proved against the operators of     *)
(* this module.                                                            *)
(***************************************************************************)
CONSTANT Threads

\* The type of a wait-for graph.
Graphs == [Threads -> SUBSET Threads]

\* directed_graph::directed_graph: N nodes without edges.
NoEdges == [t \in Threads |-> {}]

\* A run of add_edge(t, d), d in D.
AddEdges(g, t, D) == [g EXCEPT ![t] = @ \cup D]

\* A run of remove_edge(t, d), d in D.
RemoveEdges(g, t, D) == [g EXCEPT ![t] = @ \ D]

\* A run of remove_edge(t, d), t in T.
RemoveEdgesTo(g, T, d) ==
    [t \in Threads |-> IF t \in T THEN g[t] \ {d} ELSE g[t]]

-----------------------------------------------------------------------------
\* No edge leaves S.
ClosedUnder(g, S) == \A x \in S : g[x] \subseteq S

\* There is a path of at least one edge from a to b: every set that holds
\* the successors of a and that no edge leaves holds b.
Reaches(g, a, b) ==
    \A S \in SUBSET Threads : g[a] \subseteq S /\ ClosedUnder(g, S) => b \in S

\* Mutant: the search stops after two edges.
HasCycle_TwoEdges(g, t) == \E u \in g[t] : t \in g[u]

\* directed_graph::get_cycle(t) returns a nonempty vector.
HasCycle(g, t) == Reaches(g, t, t)

\* The nodes get_cycle(t) may place in cycle_member[1]: those that wait for t
\* and lie on a cycle through t.
CyclePredecessors(g, t) == {u \in Threads : t \in g[u] /\ Reaches(g, t, u)}

Acyclic(g) == \A t \in Threads : ~Reaches(g, t, t)
=============================================================================
