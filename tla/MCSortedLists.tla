---------------------------- MODULE MCSortedLists ----------------------------
(***************************************************************************)
(* The TLC instance of the two sorted lists of lab11: two programs over    *)
(* the same workload, of which one runs.                                   *)
(***************************************************************************)
EXTENDS FineGrainedList, TLC

CONSTANT opt_num_work     \* num_work of optimistic.cpp

VARIABLES
    program,              \* the program that runs
    o_key, o_next, o_mutex, o_pc, o_op, o_prev, o_curr, o_it, o_result, o_i, o_set

optVars == <<o_key, o_next, o_mutex, o_pc, o_op, o_prev, o_curr, o_it, o_result,
             o_i, o_set>>

\* The module of the proofs of OptimisticList, so that its theorems can be cited.
Opt == INSTANCE OptimisticListProofs WITH
    num_work <- opt_num_work,
    key <- o_key, next <- o_next, mutex <- o_mutex, pc <- o_pc, op <- o_op,
    prev <- o_prev, curr <- o_curr, it <- o_it, result <- o_result, i <- o_i,
    set <- o_set

ASSUME OptAssumption == Opt!ConstantsOK

MCInit == Init /\ Opt!Init /\ program \in {"fine_grained", "optimistic"}

MCNext ==
    \/ program = "fine_grained" /\ Next /\ UNCHANGED <<program, optVars>>
    \/ program = "optimistic" /\ Opt!Next /\ UNCHANGED <<program, vars>>

MCSpec == MCInit /\ [][MCNext]_<<program, vars, optVars>>

\* The list of optimistic.cpp is sorted and holds the keys of the set.
OptListIsSet == Opt!OptListIsSet

\* What list_validate of optimistic.cpp finds stays true until it is used.
OptValidatedIsCurrent == Opt!OptValidatedIsCurrent

Symmetry == Permutations(Threads) \cup Permutations(Nodes)
=============================================================================
