------------------------ MODULE MCModuleLifecycle ------------------------
(* The Timer and two RPC modules *)
EXTENDS ModuleLifecycle
=============================================================================
