-------------------------- MODULE MCWorkerSessions --------------------------
(* Instances of WorkerSessions for TLC.                                    *)
EXTENDS WorkerSessions, TLC

Symmetry == Permutations(Workers) \cup Permutations(Commands)
=============================================================================
