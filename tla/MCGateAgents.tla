--------------------------- MODULE MCGateAgents ---------------------------
(* Instances of GateAgents for TLC *)
EXTENDS GateAgents
=============================================================================
