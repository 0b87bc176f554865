-------------------------- MODULE MCSnapshotCopies --------------------------
(* Instances of SnapshotCopies for TLC.                                      *)
EXTENDS SnapshotCopies, TLC

Symmetry == Permutations(Hands)
=============================================================================
