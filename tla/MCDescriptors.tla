--------------------------- MODULE MCDescriptors ---------------------------
(* Instances of Descriptors for TLC: descriptions are interchangeable. *)
EXTENDS Descriptors, TLC

Symmetry == Permutations(Descs)
=============================================================================
