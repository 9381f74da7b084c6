---------------------------- MODULE MCTimeWheel ----------------------------
(* A wheel of three slots and delays of up to two turns; two callers, one key *)
(* of theirs and anonymous timers whose key wraps at once.                   *)
EXTENDS TimeWheel
=============================================================================
