----------------------------- MODULE MCAppRoute -----------------------------
(* Two processes of one ServerID: the second is the restart of the first,  *)
(* and both may be registered for a while.                                 *)
EXTENDS AppRoute, TLC

CONSTANTS i1, i2

TwoServers == i1 :> "gate@1" @@ i2 :> "gate@1"
TwoStarts == i1 :> 1 @@ i2 :> 2
TwoVersions == i1 :> "1.0" @@ i2 :> "2.0"
TwoLabels == i1 :> "blue" @@ i2 :> None
TwoEndpoints == "1.0" :> {"HD_login"} @@ "2.0" :> {"HD_login", "HD_move"}

RouteSymmetry == Permutations(Clients) \cup Permutations(Threads)
=============================================================================
