---------------------------- MODULE DirectedGraph ----------------------------
(***************************************************************************)
(* The graph of project2 as src/directed_graph.cc stores and searches it:  *)
(* a vector of destinations per node, and a depth-first search for a cycle *)
(* through a given node.  RWLockTable uses the operators of WaitForGraph   *)
(* in its place; this module is checked and proved against them.           *)
(*                                                                         *)
(* The count of a destination is 1 for ever: add_edge asserts that an edge *)
(* does not exist yet, so it is left out and the assertion is a guard here *)
(* (RWLockTable!AssertionsHold shows that the lock table respects it).     *)
(*                                                                         *)
(* The search is a state machine.  The calls of get_cycle and              *)
(* get_cycle_recur that have not returned are frames of a stack: the node  *)
(* whose destinations the call's loop visits, and the index of the         *)
(* destination it has come to.  The first frame is get_cycle's.  The       *)
(* callers hold global_mutex, so no edge changes during a search.          *)
(***************************************************************************)
EXTENDS Integers, Sequences, SequencesExt

CONSTANT Nodes

VARIABLES
    nodes,               \* nodes[n]: the destinations of n in insertion order
    search,              \* "idle"; "down": looking for from; "up": found, the
                         \* calls return true; "done": get_cycle returns
    stack,               \* the calls that have not returned
    visited,             \* the nodes that have been visited
    cycle_member_nodes   \* the vector that get_cycle returns

searchVars == <<search, stack, visited, cycle_member_nodes>>
graphVars == <<nodes, searchVars>>

W == INSTANCE WaitForGraph WITH Threads <- Nodes

GraphInit ==
    /\ nodes = [n \in Nodes |-> << >>]
    /\ search = "idle"
    /\ stack = << >>
    /\ visited = {}
    /\ cycle_member_nodes = << >>

IsEdge(a, b) == b \in ToSet(nodes[a])

add_edge(a, b) ==
    /\ search = "idle"
    /\ a # b
    /\ ~IsEdge(a, b)
    /\ nodes' = [nodes EXCEPT ![a] = Append(@, b)]
    /\ UNCHANGED searchVars

\* vector::erase keeps the order of the other destinations.
remove_edge(a, b) ==
    /\ search = "idle"
    /\ \E n \in 1..Len(nodes[a]) :
          /\ nodes[a][n] = b
          /\ nodes' = [nodes EXCEPT ![a] = RemoveAt(@, n)]
    /\ UNCHANGED searchVars

-----------------------------------------------------------------------------
(* get_cycle *)

Call(node, n) == [node |-> node, n |-> n]

from == stack[1].node
Top == stack[Len(stack)]

\* The loop of the innermost call has a destination left, and which.
More == Top.n <= Len(nodes[Top.node])
Dest == nodes[Top.node][Top.n]

\* The innermost loop goes on to its next destination.
Advance(s) == [s EXCEPT ![Len(s)] = Call(@.node, @.n + 1)]

get_cycle(a) ==
    /\ search = "idle"
    /\ search' = "down"
    /\ stack' = <<Call(a, 1)>>
    /\ visited' = {}
    /\ cycle_member_nodes' = << >>
    /\ UNCHANGED nodes

\* The innermost loop calls get_cycle_recur for a destination.  Only the loop
\* of get_cycle does not ask whether the destination was visited.
Visit ==
    /\ search = "down"
    /\ More
    /\ Len(stack) = 1 \/ Dest \notin visited
    /\ visited' = visited \cup {Dest}
    /\ UNCHANGED <<nodes, cycle_member_nodes>>

\* The destination has no edges: the call returns false.
CallDeadEnd ==
    /\ Visit
    /\ nodes[Dest] = << >>
    /\ stack' = Advance(stack)
    /\ UNCHANGED search

\* The destination is from: the call returns true.
CallFound ==
    /\ Visit
    /\ nodes[Dest] # << >> /\ Dest = from
    /\ search' = "up"
    /\ UNCHANGED stack

\* The call begins its own loop.
CallDescends ==
    /\ Visit
    /\ nodes[Dest] # << >> /\ Dest # from
    /\ stack' = Append(stack, Call(Dest, 1))
    /\ UNCHANGED search

\* A visited destination is skipped.
Skip ==
    /\ search = "down"
    /\ More
    /\ Len(stack) > 1 /\ Dest \in visited
    /\ stack' = Advance(stack)
    /\ UNCHANGED <<nodes, search, visited, cycle_member_nodes>>

\* Mutant: a call that finds nothing ends the whole search.
LoopEnds_GivesUp ==
    /\ search = "down"
    /\ ~More
    /\ search' = "done"
    /\ UNCHANGED <<nodes, stack, visited, cycle_member_nodes>>

\* The innermost loop has no destination left.  get_cycle returns the empty
\* vector; get_cycle_recur returns false, and its caller's loop goes on.
LoopEnds ==
    /\ search = "down"
    /\ ~More
    /\ IF Len(stack) = 1
       THEN search' = "done" /\ UNCHANGED stack
       ELSE stack' = Advance(Front(stack)) /\ UNCHANGED search
    /\ UNCHANGED <<nodes, visited, cycle_member_nodes>>

\* Mutant: the members are listed in the direction of the edges.
ReturnTrue_Forward ==
    /\ search = "up"
    /\ cycle_member_nodes' = <<Dest>> \o cycle_member_nodes
    /\ IF Len(stack) = 1
       THEN search' = "done" /\ UNCHANGED stack
       ELSE stack' = Front(stack) /\ UNCHANGED search
    /\ UNCHANGED <<nodes, visited>>

\* A call returned true: the loop that made it pushes the destination, and
\* the call of that loop returns.
ReturnTrue ==
    /\ search = "up"
    /\ cycle_member_nodes' = Append(cycle_member_nodes, Dest)
    /\ IF Len(stack) = 1
       THEN search' = "done" /\ UNCHANGED stack
       ELSE stack' = Front(stack) /\ UNCHANGED search
    /\ UNCHANGED <<nodes, visited>>

\* The caller has the vector; the locals of get_cycle are gone.
Returned ==
    /\ search = "done"
    /\ search' = "idle"
    /\ stack' = << >>
    /\ visited' = {}
    /\ cycle_member_nodes' = << >>
    /\ UNCHANGED nodes

SearchStep ==
    \/ CallDeadEnd \/ CallFound \/ CallDescends \/ Skip \/ LoopEnds
    \/ ReturnTrue \/ Returned

GraphNext ==
    \/ \E a, b \in Nodes : add_edge(a, b) \/ remove_edge(a, b)
    \/ \E a \in Nodes : get_cycle(a)
    \/ SearchStep

GraphSpec == GraphInit /\ [][GraphNext]_graphVars

-----------------------------------------------------------------------------
(* Properties *)

\* The graph as the lock table sees it.
Edges == [n \in Nodes |-> ToSet(nodes[n])]

\* get_cycle finds a cycle through a node exactly when there is one, although
\* the search never visits a node twice: is_deadlock_exist neither misses a
\* deadlock nor reports one that is not there.
CycleFoundIffExists ==
    search = "done" => (cycle_member_nodes # << >> <=> W!HasCycle(Edges, from))

\* The vector returned is a cycle, listed against the edges and beginning with
\* the node asked for: cycle_member[0] is the caller and cycle_member[1], which
\* clear_abort signals, is one that waits for it.
CycleIsGenuine ==
    search = "done" /\ cycle_member_nodes # << >> =>
       LET cycle == cycle_member_nodes IN
       /\ Len(cycle) >= 2
       /\ cycle[1] = from
       /\ cycle[2] \in W!CyclePredecessors(Edges, from)
       /\ IsInjective(cycle)
       /\ \A m \in 2..Len(cycle) : IsEdge(cycle[m], cycle[m - 1])
       /\ IsEdge(from, cycle[Len(cycle)])
=============================================================================
