--------------------------- MODULE AbstractBarrier ---------------------------
(***************************************************************************)
(* What a barrier promises: it opens at the Count-th arrival of a round    *)
(* and stays open until it is reset, a call is told "ok" only while it is  *)
(* open, and whoever is inside is there because it arrived while closed.   *)
(***************************************************************************)
EXTENDS Naturals

CONSTANTS Procs, Count

VARIABLES open,    \* the barrier is satisfied
          arrived, \* arrivals of the current round
          inside,  \* processes blocked in a wait
          last     \* the result of each process's last wait

vars == <<open, arrived, inside, last>>

Init == open = FALSE /\ arrived = 0 /\ inside = {} /\ last = [p \in Procs |-> "none"]

\* The last arrival opens the barrier and passes; the others wait, or, when they
\* only poll, are told that it is closed.
Arrive(p) ==
  /\ ~open /\ p \notin inside
  /\ arrived' = arrived + 1
  /\ open' = (arrived' = Count)
  /\ \/ /\ ~open' /\ inside' = inside \cup {p} /\ UNCHANGED last
     \/ /\ last' = [last EXCEPT ![p] = IF open' THEN "ok" ELSE "fail"]
        /\ UNCHANGED inside

Pass(p) ==
  /\ open
  /\ last' = [last EXCEPT ![p] = "ok"]
  /\ inside' = inside \ {p}
  /\ UNCHANGED <<open, arrived>>

GiveUp(p) ==
  /\ p \in inside
  /\ last' = [last EXCEPT ![p] = "fail"]
  /\ inside' = inside \ {p}
  /\ UNCHANGED <<open, arrived>>

Vanish(p) == inside' = inside \ {p} /\ UNCHANGED <<open, arrived, last>>

Reset == open' = FALSE /\ arrived' = 0 /\ UNCHANGED <<inside, last>>

Next == Reset \/ \E p \in Procs : Arrive(p) \/ Pass(p) \/ GiveUp(p) \/ Vanish(p)

Spec == Init /\ [][Next]_vars
==============================================================================
