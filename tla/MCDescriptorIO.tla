--------------------------- MODULE MCDescriptorIO ---------------------------
(* Instances of DescriptorIO for TLC: processes are interchangeable. *)
EXTENDS DescriptorIO, TLC

Symmetry == Permutations(Forks)
=============================================================================
