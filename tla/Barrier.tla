------------------------------- MODULE Barrier -------------------------------
(***************************************************************************)
(* One barrier in shared memory (l_builtin/src/cmd_barrier.rs), at the     *)
(* grain of its mutex and condition variable: the processes that `wait` on *)
(* it (blocking, with -t, with -n) and `reset` it, wake spuriously, time   *)
(* out, or are killed at any step.  The mutex is not robust: one that a    *)
(* killed process held stays locked.                                       *)
(***************************************************************************)
EXTENDS Naturals, FiniteSets

CONSTANTS Procs, NoProc,
          Count,    \* the target of the barrier
          Requests, \* the calls scripts make: "block", "timed", "poll", "reset"
          Killable, \* processes that may be killed
          MaxCalls  \* bound: calls one process makes

ASSUME BarrierAssumption ==
  /\ NoProc \notin Procs /\ Killable \subseteq Procs
  /\ Count \in Nat \ {0} /\ MaxCalls \in Nat
  /\ Requests \subseteq {"block", "timed", "poll", "reset"}

VARIABLES
  mtx,       \* the process that holds bar.mtx
  count, satisfied,
  pc,        \* where each process is, see PCs
  req,       \* the call it is in, or its last one
  ret,       \* the result of its last wait
  calls,     \* how many calls it has made
  counted    \* history: the wait calls that arrived in the current round

vars == <<mtx, count, satisfied, pc, req, ret, calls, counted>>

\* "locking" the guard, "holding" it, asleep on the condition variable ("sleeping"),
\* out of it and about to lock again after a wake or a timeout, or dead.
PCs == {"idle", "locking", "holding", "sleeping", "woken", "timedout", "dead"}
Waiting(p) == pc[p] \in {"sleeping", "woken", "timedout"}

TypeOK ==
  /\ mtx \in Procs \cup {NoProc}
  /\ count \in 0..Count
  /\ satisfied \in BOOLEAN
  /\ pc \in [Procs -> PCs]
  /\ req \in [Procs -> Requests \cup {"none"}]
  /\ ret \in [Procs -> {"none", "ok", "fail"}]
  /\ calls \in [Procs -> 0..MaxCalls]
  /\ counted \subseteq Procs \X (0..MaxCalls)

Init ==
  /\ mtx = NoProc /\ count = 0 /\ satisfied = FALSE
  /\ pc = [p \in Procs |-> "idle"]
  /\ req = [p \in Procs |-> "none"]
  /\ ret = [p \in Procs |-> "none"]
  /\ calls = [p \in Procs |-> 0]
  /\ counted = {}

Call(p, r) ==
  /\ pc[p] = "idle" /\ calls[p] < MaxCalls
  /\ pc' = [pc EXCEPT ![p] = "locking"]
  /\ req' = [req EXCEPT ![p] = r]
  /\ calls' = [calls EXCEPT ![p] = @ + 1]
  /\ UNCHANGED <<mtx, count, satisfied, ret, counted>>

\* PthreadMutexGuard::lock: a plain pthread_mutex_lock, for -n and -t as well.
Lock(p) ==
  /\ pc[p] = "locking" /\ mtx = NoProc
  /\ mtx' = p
  /\ pc' = [pc EXCEPT ![p] = "holding"]
  /\ UNCHANGED <<count, satisfied, req, ret, calls, counted>>

\* Mutant of Broadcast: pthread_cond_signal.
Signal(p, to) ==
  LET sleepers == {q \in Procs \ {p} : pc[q] = "sleeping"} IN
    IF sleepers = {} THEN pc' = [pc EXCEPT ![p] = to]
    ELSE \E q \in sleepers : pc' = [pc EXCEPT ![p] = to, ![q] = "woken"]

\* pthread_cond_broadcast, and p leaving its call or falling asleep.
Broadcast(p, to) ==
  pc' = [q \in Procs |-> IF q = p THEN to ELSE IF pc[q] = "sleeping" THEN "woken" ELSE pc[q]]

Return(p, result) == ret' = [ret EXCEPT ![p] = result]

\* barrier_wait on a barrier that is satisfied already.
WaitOpen(p) ==
  /\ pc[p] = "holding" /\ req[p] # "reset" /\ satisfied
  /\ Return(p, "ok")
  /\ pc' = [pc EXCEPT ![p] = "idle"]
  /\ mtx' = NoProc
  /\ UNCHANGED <<count, satisfied, req, calls, counted>>

\* barrier_arrive by the last process the round needs.
ArriveLast(p) ==
  /\ pc[p] = "holding" /\ req[p] # "reset" /\ ~satisfied /\ count + 1 = Count
  /\ count' = count + 1 /\ satisfied' = TRUE
  /\ Broadcast(p, "idle")
  /\ Return(p, "ok")
  /\ mtx' = NoProc
  /\ counted' = counted \cup {<<p, calls[p]>>}
  /\ UNCHANGED <<req, calls>>

\* Mutant of ArriveEarly: -n returns without giving the guard back.
ArriveEarlyLocked(p) ==
  /\ pc[p] = "holding" /\ req[p] # "reset" /\ ~satisfied /\ count + 1 # Count
  /\ count' = count + 1
  /\ IF req[p] = "poll"
       THEN pc' = [pc EXCEPT ![p] = "idle"] /\ Return(p, "fail") /\ UNCHANGED mtx
       ELSE pc' = [pc EXCEPT ![p] = "sleeping"] /\ mtx' = NoProc /\ UNCHANGED ret
  /\ counted' = counted \cup {<<p, calls[p]>>}
  /\ UNCHANGED <<satisfied, req, calls>>

\* An earlier arrival: -n gives up at once, the others go to sleep.
ArriveEarly(p) ==
  /\ pc[p] = "holding" /\ req[p] # "reset" /\ ~satisfied /\ count + 1 # Count
  /\ count' = count + 1
  /\ IF req[p] = "poll"
       THEN pc' = [pc EXCEPT ![p] = "idle"] /\ Return(p, "fail")
       ELSE pc' = [pc EXCEPT ![p] = "sleeping"] /\ UNCHANGED ret
  /\ mtx' = NoProc
  /\ counted' = counted \cup {<<p, calls[p]>>}
  /\ UNCHANGED <<satisfied, req, calls>>

\* Mutants of WaitWoken: no loop around pthread_cond_wait, or one that arrives again.
WaitWokenOnce(p) ==
  /\ pc[p] = "woken" /\ mtx = NoProc
  /\ pc' = [pc EXCEPT ![p] = "idle"] /\ Return(p, "ok")
  /\ UNCHANGED <<mtx, count, satisfied, req, calls, counted>>

WaitWokenArriving(p) ==
  /\ pc[p] = "woken" /\ mtx = NoProc
  /\ count' = IF satisfied THEN count ELSE count + 1
  /\ satisfied' = (count' = Count)
  /\ IF satisfied'
       THEN /\ pc' = [pc EXCEPT ![p] = "idle"] /\ Return(p, "ok")
       ELSE pc' = [pc EXCEPT ![p] = "sleeping"] /\ UNCHANGED ret
  /\ UNCHANGED <<mtx, req, calls, counted>>

\* The loop of barrier_wait: woken, it looks at `satisfied` and may sleep again.
WaitWoken(p) ==
  /\ pc[p] = "woken" /\ mtx = NoProc
  /\ IF satisfied
       THEN /\ pc' = [pc EXCEPT ![p] = "idle"] /\ Return(p, "ok")
       ELSE pc' = [pc EXCEPT ![p] = "sleeping"] /\ UNCHANGED ret
  /\ UNCHANGED <<mtx, count, satisfied, req, calls, counted>>

\* A timed-out wait fails without a look at `satisfied`; its arrival stays counted.
WaitTimedOut(p) ==
  /\ pc[p] = "timedout" /\ mtx = NoProc
  /\ pc' = [pc EXCEPT ![p] = "idle"] /\ Return(p, "fail")
  /\ UNCHANGED <<mtx, count, satisfied, req, calls, counted>>

\* Mutant of Reset: the count is forgotten, as if `satisfied` were all of the state.
ResetKeepsCount(p) ==
  /\ pc[p] = "holding" /\ req[p] = "reset"
  /\ satisfied' = FALSE
  /\ Broadcast(p, "idle")
  /\ mtx' = NoProc
  /\ counted' = {}
  /\ UNCHANGED <<count, req, ret, calls>>

\* barrier_reset: a new round for those who come, not for those who are inside.
Reset(p) ==
  /\ pc[p] = "holding" /\ req[p] = "reset"
  /\ count' = 0 /\ satisfied' = FALSE
  /\ Broadcast(p, "idle")
  /\ mtx' = NoProc
  /\ counted' = {}
  /\ UNCHANGED <<req, ret, calls>>

Timeout(p) ==
  /\ pc[p] = "sleeping" /\ req[p] = "timed"
  /\ pc' = [pc EXCEPT ![p] = "timedout"]
  /\ UNCHANGED <<mtx, count, satisfied, req, ret, calls, counted>>

Spurious(p) ==
  /\ pc[p] = "sleeping"
  /\ pc' = [pc EXCEPT ![p] = "woken"]
  /\ UNCHANGED <<mtx, count, satisfied, req, ret, calls, counted>>

Kill(p) ==
  /\ p \in Killable /\ pc[p] # "dead"
  /\ pc' = [pc EXCEPT ![p] = "dead"]
  /\ UNCHANGED <<mtx, count, satisfied, req, ret, calls, counted>>

Progress(p) ==
  Lock(p) \/ WaitOpen(p) \/ ArriveLast(p) \/ ArriveEarly(p) \/ WaitWoken(p)
    \/ WaitTimedOut(p) \/ Reset(p)

Next == \E p \in Procs :
  \/ Progress(p)
  \/ \E r \in Requests : Call(p, r)
  \/ Timeout(p) \/ Spurious(p) \/ Kill(p)

Spec == Init /\ [][Next]_vars

\* Processes run, the mutex is handed to whoever waits for it, and clocks advance;
\* nobody has to make a call, wake spuriously or be killed.
FairSpec == Spec /\ \A p \in Procs : WF_vars(Progress(p)) /\ WF_vars(Timeout(p))

------------------------------------------------------------------------------
(* Properties. *)

\* `satisfied` says that the round is full, and the count never runs past the target.
SatisfiedIffFull == satisfied <=> count = Count

\* Nobody sleeps at an open barrier: the arrival that opened it has woken everyone
\* and nobody goes to sleep without having seen it closed (barrier_wait's loop).
NoSleeperWhenOpen == satisfied => \A p \in Procs : pc[p] # "sleeping"

\* Each wait call counts once in the round it arrives in, and in no other, however often it
\* wakes, times out or sleeps on through a reset.  Calls are what counts, and not distinct
\* processes: one that calls again after its -t or -n failed is counted again.
EachCallCountsOnce == count = Cardinality(counted)

\* The guard is given back, unless its holder was killed with it.
GuardReturned == [](mtx # NoProc => <>(mtx = NoProc \/ pc[mtx] = "dead"))

\* Once the barrier is satisfied everyone inside leaves, unless it is reset first or a
\* process was killed with the guard.
OpenReleasesAll ==
  \A p \in Procs : (satisfied /\ Waiting(p)) ~>
    (~Waiting(p) \/ ~satisfied \/ (mtx # NoProc /\ pc[mtx] = "dead"))

\* The barrier implements the abstract one.
Abs == INSTANCE AbstractBarrier WITH
  open <- satisfied, arrived <- count, inside <- {p \in Procs : Waiting(p)}, last <- ret
ImplementsAbstractBarrier == Abs!Spec
==============================================================================
