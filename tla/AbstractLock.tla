---------------------------- MODULE AbstractLock -----------------------------
(***************************************************************************)
(* What a collection of process-shared locks promises: each lock has at    *)
(* most one holder, only the holder gives it up, and a lock whose holder   *)
(* terminated is either taken over by one process or stays unavailable.    *)
(***************************************************************************)
CONSTANTS Procs, Objs, NoProc

VARIABLES holder,  \* the process each lock is held by, or NoProc
          orphans  \* locks whose holder terminated while holding them

vars == <<holder, orphans>>

Available(o) == holder[o] = NoProc /\ o \notin orphans

Init == holder = [o \in Objs |-> NoProc] /\ orphans = {}

Acquire(p, o) ==
  /\ Available(o)
  /\ holder' = [holder EXCEPT ![o] = p]
  /\ UNCHANGED orphans

Recover(p, o) ==
  /\ o \in orphans
  /\ holder' = [holder EXCEPT ![o] = p]
  /\ orphans' = orphans \ {o}

\* A process gives up some of its own locks ...
Release(p, S) ==
  /\ \A o \in S : holder[o] = p
  /\ holder' = [o \in Objs |-> IF o \in S THEN NoProc ELSE holder[o]]
  /\ UNCHANGED orphans

\* ... or terminates, which orphans all it still holds.
Terminate(p) ==
  /\ holder' = [o \in Objs |-> IF holder[o] = p THEN NoProc ELSE holder[o]]
  /\ orphans' = orphans \cup {o \in Objs : holder[o] = p}

Next == \E p \in Procs :
  \/ \E o \in Objs : Acquire(p, o) \/ Recover(p, o)
  \/ \E S \in SUBSET Objs : Release(p, S)
  \/ Terminate(p)

Spec == Init /\ [][Next]_vars
==============================================================================
