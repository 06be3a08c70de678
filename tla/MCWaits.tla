------------------------------ MODULE MCWaits ------------------------------
(* An instance of Waits for TLC: an eventfd and a timerfd, and a description to reuse. *)
EXTENDS Waits, TLC

CONSTANTS e1, t
Two == 1 :> e1 @@ 2 :> t
=============================================================================
