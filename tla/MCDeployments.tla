--------------------------- MODULE MCDeployments ---------------------------
(* Instances of Deployments for TLC.                                       *)
EXTENDS Deployments, TLC

Symmetry == Permutations(Slots) \cup Permutations(Pumps)
=============================================================================
