------------------------------ MODULE MCCLHLock ------------------------------
(* The TLC instance of CLHLock: one address more than the lock should need. *)
EXTENDS CLHLock
=============================================================================
