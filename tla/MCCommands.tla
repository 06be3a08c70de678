----------------------------- MODULE MCCommands -----------------------------
(* Instances of Commands for TLC: memfds are interchangeable. *)
EXTENDS Commands, TLC

Symmetry == Permutations(Files)
=============================================================================
