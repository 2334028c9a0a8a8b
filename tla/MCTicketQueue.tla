---------------------------- MODULE MCTicketQueue ----------------------------
(* The TLC instance of TicketQueue: each slot is used in three rounds. *)
EXTENDS TicketQueue
=============================================================================
