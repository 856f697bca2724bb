---------------------------- MODULE MCIndexQueue ----------------------------
(* Instances of IndexQueue for TLC.                                        *)
EXTENDS IndexQueue, TLC

Symmetry == Permutations(Nodes) \cup Permutations(Procs)
=============================================================================
