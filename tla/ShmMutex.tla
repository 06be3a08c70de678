------------------------------ MODULE ShmMutex -------------------------------
(***************************************************************************)
(* The `mutex` subcommand (l_builtin/src/cmd_mutex.rs): process-shared,    *)
(* error-checking, optionally robust pthread mutexes in shared memory,     *)
(* with the processes that create, open, inherit, lock, close and destroy  *)
(* them, and that may be killed at every step.                             *)
(*                                                                         *)
(* A failing call that changes nothing (a busy trylock, EDEADLK, EPERM, an *)
(* unknown handle) is a stuttering step, so it has no action of its own.   *)
(***************************************************************************)
EXTENDS Handles, FiniteSets

CONSTANTS Procs,   \* processes, alive or not yet forked
          Shells,  \* the processes alive at the start: unrelated shells
          NoProc, NoObj,
          Habits   \* what the scripts are careless enough to do, see below

ASSUME MutexAssumption ==
  /\ Shells \subseteq Procs
  /\ NoProc \notin Procs /\ NoObj \notin Objs
  /\ Habits \subseteq {"recreate", "early", "close_held"}

VARIABLES
  stage,   \* of each object: "free" not allocated, "empty" of size 0, "raw" zero
           \* bytes that mutex_init has not touched, "ready" a mutex
  anon,    \* the object is anonymous memory, known only by inheritance
  robust,  \* PTHREAD_MUTEX_ROBUST
  owner,   \* the thread id stored in the mutex, NoProc when unlocked
  via,     \* the owner's handle whose mapping its robust list runs through; 0
           \* when there is none, so that the kernel cannot reach the mutex
  died,    \* FUTEX_OWNER_DIED: the next lock returns EOWNERDEAD
  waiters, \* FUTEX_WAITERS: whoever gives the mutex up has to wake a sleeper
  bound,   \* /dev/shm: the object each name is bound to
  status,  \* "unborn" (not forked yet), "running" or "dead"
  reg,     \* MUTEX_REGISTRY of each process
  call,    \* the subcommand each process is inside of
  held,    \* what each script was told it holds: locks granted, less unlocks
  adrift   \* a history: the sleepers whose wake-up was lost to an initialisation of
           \* the mutex under them, or to the death of the process it went to

mutexVars == <<stage, anon, robust, owner, via, died, waiters>>
vars == <<mutexVars, bound, status, reg, call, held, adrift>>

Idle == [op |-> "idle"]
Creating(o, n, r, s) == [op |-> "create", obj |-> o, name |-> n, robust |-> r, step |-> s]
Blocked(o, h, a) == [op |-> "lock", obj |-> o, handle |-> h, at |-> a]

\* Where a blocked lock is: asleep on a futex that all processes share, woken and
\* about to try again, or asleep on a futex private to it, that nobody can wake.
Places == {"asleep", "woken", "private"}

Calls ==
  {Idle}
    \cup [op : {"create"}, obj : Objs, name : Names, robust : BOOLEAN,
          step : {"truncate", "init"}]
    \cup [op : {"lock"}, obj : Objs, handle : Handles, at : Places]

TypeOK ==
  /\ stage \in [Objs -> {"free", "empty", "raw", "ready"}]
  /\ anon \in [Objs -> BOOLEAN]
  /\ robust \in [Objs -> BOOLEAN]
  /\ owner \in [Objs -> Procs \cup {NoProc}]
  /\ via \in [Objs -> 0..MaxHandle]
  /\ died \in [Objs -> BOOLEAN]
  /\ waiters \in [Objs -> BOOLEAN]
  /\ bound \in [Names -> Objs \cup {NoObj}]
  /\ status \in [Procs -> {"unborn", "running", "dead"}]
  /\ reg \in [Procs -> Registries]
  /\ call \in [Procs -> Calls]
  /\ held \in [Procs -> SUBSET Objs]
  /\ adrift \in SUBSET Procs

Init ==
  /\ stage = [o \in Objs |-> "free"]
  /\ anon = [o \in Objs |-> FALSE]
  /\ robust = [o \in Objs |-> FALSE]
  /\ owner = [o \in Objs |-> NoProc]
  /\ via = [o \in Objs |-> 0]
  /\ died = [o \in Objs |-> FALSE]
  /\ waiters = [o \in Objs |-> FALSE]
  /\ bound = [n \in Names |-> NoObj]
  /\ status = [p \in Procs |-> IF p \in Shells THEN "running" ELSE "unborn"]
  /\ reg = [p \in Procs |-> EmptyRegistry]
  /\ call = [p \in Procs |-> Idle]
  /\ held = [p \in Procs |-> {}]
  /\ adrift = {}

\* At a prompt, or between two commands of a script.
Ready(p) == status[p] = "running" /\ call[p] = Idle
Inside(p, op) == status[p] = "running" /\ call[p].op = op

\* The processes inside a lock of o that are at one of these places.
Waiting(o, places) ==
  {p \in Procs : call[p].op = "lock" /\ call[p].obj = o /\ call[p].at \in places}
Sleepers(o) == Waiting(o, {"asleep", "private"})

\* futex_wake: one of those asleep on each mutex of O, if there are any but p.
Asleep(o) == Waiting(o, {"asleep"})
Wakes(O, p) ==
  {W \in SUBSET ((UNION {Asleep(o) : o \in O}) \ {p}) :
     \A o \in O : Asleep(o) \subseteq {p} \/ \E q \in W : W \cap Asleep(o) = {q}}
Woken(W, calls) ==
  [q \in Procs |-> IF q \in W THEN [calls[q] EXCEPT !.at = "woken"] ELSE calls[q]]

------------------------------------------------------------------------------
(***************************************************************************)
(* The three careless habits.  "recreate": `create -n` of a name that is   *)
(* in use, which O_CREAT without O_EXCL allows, with the -r of the other.  *)
(* "early": `open` before the creator's `create` has returned.             *)
(* "close_held": `close` or `destroy` of a handle whose mutex the script   *)
(* locked through it and has not unlocked.                                 *)
(***************************************************************************)

MayRecreate(n, r) ==
  bound[n] # NoObj =>
    /\ "recreate" \in Habits
    /\ stage[bound[n]] = "ready" => robust[bound[n]] = r
    /\ \A p \in Procs : Inside(p, "create") /\ call[p].obj = bound[n] => call[p].robust = r
MayOpen(o) == stage[o] = "ready" \/ "early" \in Habits
MayUnmap(p, h) ==
  \/ "close_held" \in Habits
  \/ ~ \E o \in held[p] : owner[o] = p /\ via[o] = h

------------------------------------------------------------------------------
(* Creating and opening. *)

\* pthread_mutex_init rewrites the whole mutex, whoever holds it or waits for it: it
\* forgets that there are sleepers, and wakes none.
InitMutex(o, r, a) ==
  /\ stage' = [stage EXCEPT ![o] = "ready"]
  /\ anon' = [anon EXCEPT ![o] = a]
  /\ robust' = [robust EXCEPT ![o] = r]
  /\ owner' = [owner EXCEPT ![o] = NoProc]
  /\ via' = [via EXCEPT ![o] = 0]
  /\ died' = [died EXCEPT ![o] = FALSE]
  /\ waiters' = [waiters EXCEPT ![o] = FALSE]
  /\ adrift' = adrift \cup Sleepers(o)

\* Anonymous memory is mapped nowhere else yet: one step.
CreateAnon(p, o, r) ==
  /\ Ready(p) /\ HasRoom(reg[p]) /\ stage[o] = "free"
  /\ InitMutex(o, r, TRUE)
  /\ reg' = [reg EXCEPT ![p] = Store(@, o, NoName)]
  /\ UNCHANGED <<bound, status, call, held>>

\* shm_open(O_CREAT): a new object of size 0, or the one the name is bound to.
CreateOpen(p, n, o, r) ==
  /\ Ready(p) /\ HasRoom(reg[p]) /\ MayRecreate(n, r)
  /\ IF bound[n] = NoObj
       THEN /\ stage[o] = "free"
            /\ stage' = [stage EXCEPT ![o] = "empty"]
            /\ bound' = [bound EXCEPT ![n] = o]
       ELSE o = bound[n] /\ UNCHANGED <<stage, bound>>
  /\ call' = [call EXCEPT ![p] = Creating(o, n, r, "truncate")]
  /\ UNCHANGED <<anon, robust, owner, via, died, waiters, status, reg, held, adrift>>

\* ftruncate grows a new object with zero bytes and leaves one of full size alone.
CreateTruncate(p) ==
  /\ Inside(p, "create") /\ call[p].step = "truncate"
  /\ stage' = [stage EXCEPT ![call[p].obj] = IF @ = "empty" THEN "raw" ELSE @]
  /\ call' = [call EXCEPT ![p].step = "init"]
  /\ UNCHANGED <<anon, robust, owner, via, died, waiters, bound, status, reg, held, adrift>>

CreateInit(p) ==
  /\ Inside(p, "create") /\ call[p].step = "init"
  /\ InitMutex(call[p].obj, call[p].robust, FALSE)
  /\ reg' = [reg EXCEPT ![p] = Store(@, call[p].obj, call[p].name)]
  /\ call' = [call EXCEPT ![p] = Idle]
  /\ UNCHANGED <<bound, status, held>>

\* map_named without O_CREAT: whatever the object holds is taken for a mutex.
Open(p, n) ==
  /\ Ready(p) /\ HasRoom(reg[p]) /\ bound[n] # NoObj /\ MayOpen(bound[n])
  /\ reg' = [reg EXCEPT ![p] = Store(@, bound[n], n)]
  /\ UNCHANGED <<mutexVars, bound, status, call, held, adrift>>

------------------------------------------------------------------------------
(* The end of a process: a kill, an exit, or a fault. *)

\* The mutexes as a process leaves them that dies after unlocking those of U.
Released(U) == [o \in Objs |-> IF o \in U THEN NoProc ELSE owner[o]]

\* What the kernel reaches through the robust list of p, and the mutex it wakes a
\* sleeper of because p was in a robust lock (list_op_pending) that nobody owns.
Reachable(p, U) == {o \in Objs : Released(U)[o] = p /\ robust[o] /\ via[o] # 0}
Pending(p) ==
  {o \in Objs : p \in Waiting(o, {"asleep", "woken"}) /\ robust[o]
                  /\ (owner[o] = NoProc \/ died[o])}

\* A wake-up that went to p and dies with it: the others on o sleep on, unless the
\* owner has been told of them.
LostWith(p) ==
  {o \in Objs \ Pending(p) : p \in Waiting(o, {"woken"})
                  /\ (owner[o] = NoProc \/ died[o] \/ ~waiters[o])}

\* Mutant of Die: the mutex is not robust, whatever `-r` asked for.
DieUnmarked(p, U) ==
  /\ status' = [status EXCEPT ![p] = "dead"]
  /\ owner' = Released(U)
  /\ waiters' = [o \in Objs |-> waiters[o] /\ o \notin U]
  /\ reg' = [reg EXCEPT ![p] = EmptyRegistry]
  /\ call' = [call EXCEPT ![p] = Idle]
  /\ held' = [held EXCEPT ![p] = {}]
  /\ UNCHANGED <<stage, anon, robust, via, died, bound, adrift>>

\* The kernel walks the robust list and marks every mutex it can still reach; it
\* wakes a sleeper of each, as the unlocks of U have done.
Die(p, U) ==
  /\ status' = [status EXCEPT ![p] = "dead"]
  /\ owner' = Released(U)
  /\ died' = [o \in Objs |-> died[o] \/ o \in Reachable(p, U)]
  /\ waiters' = [o \in Objs |-> waiters[o] /\ o \notin U]
  /\ reg' = [reg EXCEPT ![p] = EmptyRegistry]
  /\ held' = [held EXCEPT ![p] = {}]
  /\ \E W \in Wakes({o \in U \cup Reachable(p, U) : waiters[o]} \cup Pending(p), p) :
       /\ call' = Woken(W, [call EXCEPT ![p] = Idle])
       /\ adrift' = (adrift \cup UNION {Sleepers(o) : o \in LostWith(p)}) \ (W \cup {p})
  /\ UNCHANGED <<stage, anon, robust, via, bound>>

Exit(p) == status[p] = "running" /\ Die(p, {})

\* A forked child has its parent's mappings and handles, and none of its locks.
Fork(p, c) ==
  /\ Ready(p) /\ status[c] = "unborn"
  /\ status' = [status EXCEPT ![c] = "running"]
  /\ reg' = [reg EXCEPT ![c] = reg[p]]
  /\ UNCHANGED <<mutexVars, bound, call, held, adrift>>

------------------------------------------------------------------------------
(* Locking.  Zero bytes are a default mutex to pthread: not error-checking, not    *)
(* robust.  Touching a mapping of an object of size 0 raises SIGBUS.               *)

Obtainable(o) == owner[o] = NoProc \/ died[o]

\* The lock call returned 0, or EOWNERDEAD and pthread_mutex_consistent did.
Grant(p, o, h) ==
  /\ owner' = [owner EXCEPT ![o] = p]
  /\ via' = [via EXCEPT ![o] = h]
  /\ died' = [died EXCEPT ![o] = FALSE]
  /\ held' = [held EXCEPT ![p] = @ \cup {o}]
  /\ UNCHANGED <<stage, anon, robust, bound, status, reg>>

\* FUTEX_WAITERS is set, by one that goes to sleep or that has slept: those asleep on
\* the shared futex of o will be woken again.
Announce(p, o) ==
  /\ waiters' = [waiters EXCEPT ![o] = TRUE]
  /\ adrift' = adrift \ (Asleep(o) \cup {p})

\* lock, lock -t and lock -n alike, when the mutex can be had at once.  It comes
\* before a sleeper that has been woken, and leaves FUTEX_WAITERS as it is.
LockNow(p, h) ==
  /\ Ready(p) /\ Known(reg[p], h)
  /\ LET o == reg[p].map[h].obj IN
       /\ stage[o] # "empty" /\ Obtainable(o)
       /\ Grant(p, o, h)
  /\ UNCHANGED <<waiters, call, adrift>>

\* Mutant of LockBlock: the mutex type is the default one, which lets its owner sleep.
LockBlockNormal(p, h) ==
  /\ Ready(p) /\ Known(reg[p], h)
  /\ LET o == reg[p].map[h].obj IN
       /\ stage[o] # "empty" /\ ~Obtainable(o)
       /\ Announce(p, o)
       /\ call' = [call EXCEPT ![p] = Blocked(o, h, "asleep")]
  /\ UNCHANGED <<stage, anon, robust, owner, via, died, bound, status, reg, held>>

\* Mutant of LockBlock: mutex_init does not ask for PTHREAD_PROCESS_SHARED.
LockBlockPrivate(p, h) ==
  /\ Ready(p) /\ Known(reg[p], h)
  /\ LET o == reg[p].map[h].obj IN
       /\ stage[o] # "empty" /\ ~Obtainable(o)
       /\ stage[o] = "ready" => owner[o] # p
       /\ Announce(p, o)
       /\ call' = [call EXCEPT ![p] = Blocked(o, h, "private")]
  /\ UNCHANGED <<stage, anon, robust, owner, via, died, bound, status, reg, held>>

\* lock and lock -t sleep, except that an error-checking mutex refuses its owner.
\* Zero bytes are a mutex that only one process uses.
LockBlock(p, h) ==
  /\ Ready(p) /\ Known(reg[p], h)
  /\ LET o == reg[p].map[h].obj IN
       /\ stage[o] # "empty" /\ ~Obtainable(o)
       /\ stage[o] = "ready" => owner[o] # p
       /\ Announce(p, o)
       /\ call' = [call EXCEPT
            ![p] = Blocked(o, h, IF stage[o] = "ready" THEN "asleep" ELSE "private")]
  /\ UNCHANGED <<stage, anon, robust, owner, via, died, bound, status, reg, held>>

\* Mutant of LockWake: every return of the lock call counts as success.
LockWakeAnyhow(p) ==
  /\ Inside(p, "lock")
  /\ Grant(p, call[p].obj, call[p].handle)
  /\ Announce(p, call[p].obj)
  /\ call' = [call EXCEPT ![p] = Idle]

\* A sleeper tries again, because it was woken or because a signal interrupted its
\* sleep.  (One on a private futex is left to sleep once the mutex is initialised.)
LockWake(p) ==
  /\ Inside(p, "lock")
  /\ call[p].at = "private" => stage[call[p].obj] = "raw"
  /\ Obtainable(call[p].obj)
  /\ Grant(p, call[p].obj, call[p].handle)
  /\ Announce(p, call[p].obj)
  /\ call' = [call EXCEPT ![p] = Idle]

\* It finds the mutex taken by another, and sleeps again.
LockAgain(p) ==
  /\ Inside(p, "lock") /\ call[p].at # "private" /\ ~Obtainable(call[p].obj)
  /\ Announce(p, call[p].obj)
  /\ call' = [call EXCEPT ![p].at = "asleep"]
  /\ UNCHANGED <<stage, anon, robust, owner, via, died, bound, status, reg, held>>

\* ETIMEDOUT: any sleeper may have been given -t, which makes no difference until then.
\* One that was woken gets it only after it has tried again.
LockTimeout(p) ==
  /\ Inside(p, "lock") /\ call[p].at # "woken"
  /\ call' = [call EXCEPT ![p] = Idle]
  /\ adrift' = adrift \ {p}
  /\ UNCHANGED <<mutexVars, bound, status, reg, held>>

\* Mutant of Unlockable: the default mutex type lets anybody unlock.
UnlockableByAll(p, S) == {o \in S : stage[o] \in {"raw", "ready"}}

\* The mutexes of S whose pthread_mutex_unlock by p returns 0: those p owns, and
\* those of zero bytes, which do not ask who owns them.
Unlockable(p, S) == {o \in S : stage[o] = "raw" \/ (stage[o] = "ready" /\ owner[o] = p)}

\* pthread_mutex_unlock of each of S: a mutex that has waiters wakes one of them.
UnlockObjs(p, S) ==
  LET U == Unlockable(p, S) IN
    /\ owner' = Released(U)
    /\ via' = [o \in Objs |-> IF o \in U THEN 0 ELSE via[o]]
    /\ waiters' = [o \in Objs |-> waiters[o] /\ o \notin U]
    /\ held' = [held EXCEPT ![p] = @ \ U]
    /\ \E W \in Wakes({o \in U : waiters[o]}, p) :
         call' = Woken(W, call) /\ adrift' = adrift \ W
    /\ UNCHANGED <<stage, anon, robust, died, bound, status, reg>>

Unlock(p, h) ==
  /\ Ready(p) /\ Known(reg[p], h) /\ stage[reg[p].map[h].obj] # "empty"
  /\ UnlockObjs(p, {reg[p].map[h].obj})

\* Mutant of UnlockAll: it ends with the first mutex that could be unlocked.
UnlockAllUntilOne(p) ==
  /\ Ready(p) /\ \A o \in Mapped(reg[p]) : stage[o] # "empty"
  /\ \E o \in Mapped(reg[p]) : UnlockObjs(p, {o})

\* unlock -a: every registered handle, errors ignored.
UnlockAll(p) ==
  /\ Ready(p) /\ \A o \in Mapped(reg[p]) : stage[o] # "empty"
  /\ UnlockObjs(p, Mapped(reg[p]))

\* SIGBUS in lock, unlock, or unlock -a, which has got through some mutexes by then.
Fault(p) ==
  /\ Ready(p)
  /\ \E o \in Mapped(reg[p]) : stage[o] = "empty"
  /\ \E S \in SUBSET Mapped(reg[p]) : Die(p, Unlockable(p, S))

------------------------------------------------------------------------------
(* Unmapping. *)

\* munmap of a mutex locked through h leaves a dangling entry in the robust list of
\* its owner: the kernel stops there, so that mutex is out of its reach, and so may
\* be others p holds.  (What p locks next may fault on the list: a case of Exit.)
Unmap(p, h) ==
  /\ Ready(p) /\ Known(reg[p], h) /\ MayUnmap(p, h)
  /\ reg' = [reg EXCEPT ![p] = Take(@, h)]
  /\ \E lost \in SUBSET {o \in Objs : owner[o] = p} :
       /\ \A o \in Objs : owner[o] = p /\ via[o] = h => o \in lost
       /\ lost # {} => \E o \in lost : via[o] = h
       /\ via' = [o \in Objs |-> IF o \in lost THEN 0 ELSE via[o]]
  /\ UNCHANGED <<stage, anon, robust, owner, died, waiters, status, call, held, adrift>>

Close(p, h) == Unmap(p, h) /\ UNCHANGED bound

\* shm_unlink removes the name the handle was made with, whatever it is bound to now.
Destroy(p, h) ==
  /\ Unmap(p, h)
  /\ LET n == reg[p].map[h].name IN
       bound' = IF n = NoName THEN bound ELSE [bound EXCEPT ![n] = NoObj]

------------------------------------------------------------------------------
HandleStep(p, h) ==
  \/ LockNow(p, h)
  \/ LockBlock(p, h)
  \/ Unlock(p, h)
  \/ Close(p, h)
  \/ Destroy(p, h)

CreateStep(p) ==
  \/ \E r \in BOOLEAN, o \in Objs :
       CreateAnon(p, o, r) \/ \E n \in Names : CreateOpen(p, n, o, r)
  \/ CreateTruncate(p)
  \/ CreateInit(p)
  \/ \E n \in Names : Open(p, n)

Step(p) ==
  \/ CreateStep(p)
  \/ \E h \in Handles : HandleStep(p, h)
  \/ LockWake(p)
  \/ LockAgain(p)
  \/ LockTimeout(p)
  \/ UnlockAll(p)
  \/ Fault(p)
  \/ Exit(p)
  \/ \E c \in Procs : Fork(p, c)

Next == \E p \in Procs : Step(p)

Spec == Init /\ [][Next]_vars

------------------------------------------------------------------------------
(* Properties. *)

\* Objects whose initialisation nothing can come before or repeat: anonymous ones
\* always, named ones when scripts neither recreate a name nor open it early.
Clean(o) == anon[o] \/ Habits \cap {"recreate", "early"} = {}

\* No two scripts are both told that they hold one mutex, however processes fork,
\* die, time out, close and recover it (cmd_mutex.rs mutex_lock, mutex_unlock).
MutualExclusion ==
  \A o \in Objs : Clean(o) =>
    \A p, q \in Procs : o \in held[p] /\ o \in held[q] => p = q

\* A robust mutex whose owner is gone has been marked, so that the next lock
\* recovers it; this takes scripts that do not unmap what they hold.
RobustMarked ==
  "close_held" \notin Habits =>
    \A o \in Objs :
      (stage[o] = "ready" /\ robust[o] /\ owner[o] # NoProc /\ status[owner[o]] = "dead")
        => died[o]

\* Nobody sleeps on a mutex it owns itself: the error-checking type that
\* mutex_init asks for refuses a second lock.
NoSelfDeadlock ==
  \A p \in Procs :
    (Inside(p, "lock") /\ stage[call[p].obj] = "ready") => owner[call[p].obj] # p

\* A closed or destroyed handle never resolves again, so a script that kept the
\* number cannot lock another mutex with it (handles.rs store).
StaleHandlesStayStale ==
  [][\A p \in Procs, h \in Handles :
       h < reg[p].next /\ ~Known(reg[p], h) => ~Known(reg'[p], h)]_vars

\* `unlock -a` leaves a script holding nothing, if it closed no handle of a mutex
\* it held and nobody recreated one under it (mutex_unlock_subcommand).
UnlockAllReleasesAll ==
  [][\A p \in Procs : UnlockAll(p) /\ "close_held" \notin Habits =>
       \A o \in held'[p] : ~Clean(o)]_vars

\* No wake-up is lost: while a mutex can be had and a process sleeps on it, another
\* has been woken and will try, however often owners and woken ones die or give up.
\* Excepted are those adrift: an initialisation under a sleeper forgets it, and so
\* does a woken one that is killed after a newcomer has overtaken it.
SleepersWoken ==
  \A o \in Objs :
    stage[o] = "ready" /\ Obtainable(o) /\ ~(Sleepers(o) \subseteq adrift)
      => Waiting(o, {"woken"}) # {}

\* The mutexes implement abstract locks, seen through what the scripts were told.
HolderOf(o) ==
  IF \E p \in Procs : o \in held[p] THEN CHOOSE p \in Procs : o \in held[p] ELSE NoProc
AbsLock == INSTANCE AbstractLock WITH
  holder <- [o \in Objs |-> HolderOf(o)],
  orphans <- {o \in Objs : owner[o] # NoProc /\ status[owner[o]] # "running"}
ImplementsAbstractLock == AbsLock!Spec

------------------------------------------------------------------------------
(* The inductive invariant under MutualExclusion. *)

\* Only running processes are inside a call, a create in progress still has the
\* handle it checked for, and a process that does not exist yet knows no handle.
Reserved ==
  \A p \in Procs :
    /\ call[p].op = "create" => HasRoom(reg[p]) /\ status[p] = "running"
    /\ call[p].op = "lock" => status[p] = "running"
    /\ status[p] = "unborn" => reg[p] = EmptyRegistry

\* Whatever a process can reach has been allocated, and a name never leads to
\* anonymous memory.
Reached ==
  /\ \A o \in Objs : stage[o] = "free" => ~anon[o]
  /\ \A n \in Names : bound[n] # NoObj => stage[bound[n]] # "free" /\ ~anon[bound[n]]
  /\ \A p \in Procs, h \in Handles : Known(reg[p], h) => stage[reg[p].map[h].obj] # "free"
  /\ \A p \in Procs : call[p].op \in {"create", "lock"} => stage[call[p].obj] # "free"
  /\ \A p \in Procs : call[p].op = "create" => ~anon[call[p].obj]

\* A clean object is mapped or waited for only once it is ready, and until then
\* exactly one process is creating it.
Published ==
  /\ \A p \in Procs, h \in Handles :
       Known(reg[p], h) /\ Clean(reg[p].map[h].obj) => stage[reg[p].map[h].obj] = "ready"
  /\ \A p \in Procs : call[p].op = "lock" /\ Clean(call[p].obj) => stage[call[p].obj] = "ready"
  /\ \A p \in Procs : call[p].op = "create" /\ Clean(call[p].obj) =>
       /\ stage[call[p].obj] # "ready"
       /\ \A q \in Procs \ {p} : call[q].op = "create" => call[q].obj # call[p].obj

\* What a script was told it holds, the mutex says too.
HeldIsOwned ==
  \A p \in Procs : \A o \in held[p] :
    /\ stage[o] # "free"
    /\ Clean(o) => stage[o] = "ready" /\ owner[o] = p /\ ~died[o] /\ status[p] = "running"

MutexInv == TypeOK /\ Reserved /\ Reached /\ Published /\ HeldIsOwned

\* What the mutex says, the script was told; the kernel can reach the mutexes of a
\* running process, and has marked the robust ones of a dead one.
OwnersKnown ==
  \A o \in Objs : owner[o] # NoProc =>
    /\ status[owner[o]] # "unborn"
    /\ status[owner[o]] = "running" => o \in held[owner[o]]
    /\ "close_held" \notin Habits =>
         IF status[owner[o]] = "running" THEN via[o] # 0 ELSE robust[o] => died[o]

\* Whoever sleeps on a mutex and is not adrift sleeps where it can be woken, and the
\* owner is told to wake it, unless a process was woken that will tell it.
WakesKept ==
  \A o \in Objs : stage[o] = "ready" =>
    \A p \in Sleepers(o) \ adrift :
      /\ call[p].at = "asleep"
      /\ (waiters[o] /\ ~Obtainable(o)) \/ Waiting(o, {"woken"}) # {}
==============================================================================
