------------------------------ MODULE MCObjects ------------------------------
(* An instance of Objects for TLC; the objects are interchangeable. *)
EXTENDS Objects, TLC

Symmetry == Permutations(Objs) \cup Permutations(Procs \ {First})
=============================================================================
