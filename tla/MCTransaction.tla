---------------------------- MODULE MCTransaction ----------------------------
(* TLC instances of Transaction. *)
EXTENDS Transaction, TLC

Symmetry == Permutations(Threads) \cup Permutations(Records)
=============================================================================
