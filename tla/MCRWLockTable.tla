---------------------------- MODULE MCRWLockTable ----------------------------
(***************************************************************************)
(* The TLC instance of the lock table of project2 and of its graph: the    *)
(* lock table with the operators of WaitForGraph, or the search of         *)
(* DirectedGraph over every graph whose nodes are the threads, with every  *)
(* order of the destinations and from every node.                          *)
(***************************************************************************)
EXTENDS RWLockTable, DirectedGraph, TLC

VARIABLE machine           \* the one that runs

MCInit == Init /\ GraphInit /\ machine \in {"lock table", "graph"}

MCNext ==
    \/ machine = "lock table" /\ Next /\ UNCHANGED <<machine, graphVars>>
    \/ machine = "graph" /\ GraphNext /\ UNCHANGED <<machine, vars>>

MCSpec == MCInit /\ [][MCNext]_<<machine, vars, graphVars>>

\* Threads and records are interchangeable.
Symmetry == Permutations(Threads) \cup Permutations(Records)
=============================================================================
