---------------------------- MODULE MCWFSnapshot -----------------------------
(* TLC instances of WFSnapshot. *)
EXTENDS WFSnapshot
=============================================================================
