--------------------------- MODULE MCConsulWatcher ---------------------------
(* ConsulWatcher for TLC: the instances of the service are alike, and so    *)
(* are its versions.                                                        *)
EXTENDS ConsulWatcher, TLC

Symmetry == Permutations(Instances) \cup Permutations(Versions)
=============================================================================
