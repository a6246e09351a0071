---------------------------- MODULE MCDetailQueue ----------------------------
(* Instances of DetailQueue for TLC.                                         *)
EXTENDS DetailQueue, TLC

Symmetry == Permutations(Slots) \cup Permutations(Listers)
=============================================================================
