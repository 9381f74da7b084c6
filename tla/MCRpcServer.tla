---------------------------- MODULE MCRpcServer ----------------------------
(* Model-checking instances of RpcServer. *)
EXTENDS RpcServer
=============================================================================
