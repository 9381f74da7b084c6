--------------------------- MODULE MCGateSession ---------------------------
(* Instances of GateSession for TLC; callers, sessions and users are alike. *)
EXTENDS GateSession, TLC

Symmetry == Permutations(Sessions) \cup Permutations(Callers) \cup Permutations(Users)
=============================================================================
