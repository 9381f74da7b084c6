-------------------------- MODULE MCSelectorCache --------------------------
(* Two instances of different versions of the service. *)
EXTENDS SelectorCache, TLC

CONSTANTS n1, n2

TwoVersions == n1 :> "1.0" @@ n2 :> "2.0"
=============================================================================
