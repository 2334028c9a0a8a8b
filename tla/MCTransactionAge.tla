-------------------------- MODULE MCTransactionAge --------------------------
(* TLC instance of TransactionAge. *)
EXTENDS TransactionAge, TLC
=============================================================================
