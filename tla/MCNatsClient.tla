--------------------------- MODULE MCNatsClient ---------------------------
(* The model-checking instance of NatsClient: client.cfg. *)
EXTENDS NatsClient
=============================================================================
