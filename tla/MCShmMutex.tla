----------------------------- MODULE MCShmMutex ------------------------------
(* Instances of ShmMutex for TLC. *)
EXTENDS ShmMutex, TLC

\* Objects are interchangeable; of the processes only the shells are, because the
\* others start unborn.
Symmetry == Permutations(Shells) \cup Permutations(Objs)
==============================================================================
