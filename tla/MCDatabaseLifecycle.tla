------------------------ MODULE MCDatabaseLifecycle ------------------------
(* Instances of DatabaseLifecycle for TLC.                                 *)
EXTENDS DatabaseLifecycle, TLC

Symmetry == Permutations(Hands)
=============================================================================
