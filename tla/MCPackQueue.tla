---------------------------- MODULE MCPackQueue ----------------------------
(* A connection with one worker. *)
EXTENDS PackQueue
=============================================================================
