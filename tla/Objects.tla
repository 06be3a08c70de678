------------------------------- MODULE Objects -------------------------------
(***************************************************************************)
(* The lives of semaphores and barriers: create, open, close and destroy   *)
(* by several processes that fork and exit, the two name spaces they live  *)
(* in, the mappings behind the handles, and wait and post on semaphores    *)
(* (l_builtin/src/cmd_semaphore.rs, cmd_barrier.rs, handles.rs).  What a   *)
(* barrier does between create and destroy is module Barrier.              *)
(***************************************************************************)
EXTENDS Handles, FiniteSets

CONSTANTS Procs, First, \* the processes, and the one that forks the others
          NoObj,        \* what an unbound name stands for
          Counts,       \* the counts scripts create semaphores with
          SemMax,       \* SEM_VALUE_MAX
          MaxPosts      \* bound: posts in a run

ASSUME ObjectsAssumption ==
  /\ First \in Procs /\ NoObj \notin Objs
  /\ Counts \subseteq 0..SemMax /\ SemMax \in Nat /\ MaxPosts \in Nat

VARIABLES
  sems, bars,         \* SEMAPHORE_REGISTRY and BARRIER_REGISTRY of each process
  mapped,             \* how often each process has each object mapped (or sem_opened)
  semNames, shmNames, \* the objects sem_open and shm_open find under each name
  used,               \* the objects made so far: memory is not reused
  value,              \* the counter of each semaphore
  ready,              \* the barriers barrier_init has run on
  pc,                 \* "unborn", "idle", "waiting" in sem_wait, "creating" a barrier, "dead"
  at,                 \* the object pc is about, and the name it was created under
  start, posted, granted \* history: each semaphore's count, successful posts and waits

vars == <<sems, bars, mapped, semNames, shmNames, used, value, ready, pc, at,
          start, posted, granted>>
registries == <<sems, bars>>
names == <<semNames, shmNames>>
counters == <<value, start, posted, granted>>

Nowhere == [obj |-> NoObj, name |-> NoName]

Init ==
  /\ sems = [p \in Procs |-> EmptyRegistry] /\ bars = sems
  /\ mapped = [p \in Procs |-> [o \in Objs |-> 0]]
  /\ semNames = [n \in Names |-> NoObj] /\ shmNames = semNames
  /\ used = {} /\ ready = {}
  /\ value = [o \in Objs |-> 0] /\ start = value /\ posted = value /\ granted = value
  /\ pc = [p \in Procs |-> IF p = First THEN "idle" ELSE "unborn"]
  /\ at = [p \in Procs |-> Nowhere]

Map(p, o) == mapped' = [mapped EXCEPT ![p][o] = @ + 1]
Unmap(p, o) == mapped' = [mapped EXCEPT ![p][o] = @ - 1]
Fresh(o) == o \in Objs \ used /\ used' = used \cup {o}

-----------------------------------------------------------------------------
(* Semaphores. *)

\* The handle goes into the registry before the variable is assigned: a variable that
\* cannot be assigned leaves the handle there, as no variable's value.
StoreSem(p, o, n) ==
  /\ HasRoom(sems[p])
  /\ sems' = [sems EXCEPT ![p] = Store(@, o, n)]
  /\ Map(p, o)
  /\ UNCHANGED <<bars, pc, at, ready, posted, granted, shmNames>>

\* create COUNT: map_anonymous and sem_init; or create -n NAME COUNT, when no semaphore has
\* the name: sem_open makes one.
CreateSem(p, n, c) ==
  /\ pc[p] = "idle"
  /\ n # NoName => semNames[n] = NoObj
  /\ \E o \in Objs :
       /\ Fresh(o) /\ StoreSem(p, o, n)
       /\ value' = [value EXCEPT ![o] = c]
       /\ start' = [start EXCEPT ![o] = c]
       /\ semNames' = IF n = NoName THEN semNames ELSE [semNames EXCEPT ![n] = o]

\* open, and create -n of a name that exists: O_CREAT without O_EXCL ignores COUNT.  glibc
\* maps a semaphore once in a process and counts the opens.
OpenSem(p, n) ==
  /\ pc[p] = "idle" /\ semNames[n] # NoObj
  /\ StoreSem(p, semNames[n], n)
  /\ UNCHANGED <<semNames, used, value, start>>

Decrement(o) ==
  /\ value[o] > 0
  /\ value' = [value EXCEPT ![o] = @ - 1]
  /\ granted' = [granted EXCEPT ![o] = @ + 1]
  /\ UNCHANGED <<start, posted>>

\* wait, with or without -n and -t: the count is positive.
WaitNow(p, h) ==
  /\ pc[p] = "idle" /\ Known(sems[p], h)
  /\ Decrement(sems[p].map[h].obj)
  /\ UNCHANGED <<registries, mapped, names, used, ready, pc, at>>

\* wait, with or without -t, while the count is zero.  (With -n it fails and changes nothing.)
WaitBlock(p, h) ==
  /\ pc[p] = "idle" /\ Known(sems[p], h) /\ value[sems[p].map[h].obj] = 0
  /\ pc' = [pc EXCEPT ![p] = "waiting"]
  /\ at' = [at EXCEPT ![p] = sems[p].map[h]]
  /\ UNCHANGED <<registries, mapped, names, used, ready, counters>>

Leave(p) ==
  /\ pc' = [pc EXCEPT ![p] = "idle"]
  /\ at' = [at EXCEPT ![p] = Nowhere]
  /\ UNCHANGED <<registries, mapped, names, used, ready>>

WaitWake(p) ==
  /\ pc[p] = "waiting"
  /\ Decrement(at[p].obj)
  /\ Leave(p)

\* Mutant of WaitFail: whatever sem_wait returns is a success.
WaitFailOk(p) ==
  /\ pc[p] = "waiting"
  /\ granted' = [granted EXCEPT ![at[p].obj] = @ + 1]
  /\ Leave(p) /\ UNCHANGED <<value, start, posted>>

\* The deadline of -t passes, or a trapped signal interrupts the call: both fail alike, and a
\* post may have come in between.
WaitFail(p) ==
  /\ pc[p] = "waiting"
  /\ Leave(p) /\ UNCHANGED counters

\* post.  At SEM_VALUE_MAX it fails (EOVERFLOW).
Post(p, h) ==
  /\ pc[p] = "idle" /\ Known(sems[p], h)
  /\ LET o == sems[p].map[h].obj IN
       /\ value[o] < SemMax /\ posted[o] < MaxPosts
       /\ value' = [value EXCEPT ![o] = @ + 1]
       /\ posted' = [posted EXCEPT ![o] = @ + 1]
  /\ UNCHANGED <<registries, mapped, names, used, ready, pc, at, start, granted>>

TakeSem(p, h) ==
  /\ pc[p] = "idle" /\ Known(sems[p], h)
  /\ sems' = [sems EXCEPT ![p] = Take(@, h)]
  /\ Unmap(p, sems[p].map[h].obj)
  /\ UNCHANGED <<bars, semNames, used, counters, ready, pc, at>>

\* close: sem_close, or sem_destroy and munmap of an anonymous one.  (sem_destroy of glibc
\* does nothing: the processes that share it go on.)
CloseSem(p, h) == TakeSem(p, h) /\ UNCHANGED shmNames

\* destroy: what close does and then shm_unlink of the name, which is not where sem_open
\* keeps it: a barrier, mutex or variable of that name loses its name instead.
DestroySem(p, h) ==
  LET e == sems[p].map[h] IN
    /\ TakeSem(p, h)
    /\ shmNames' = IF e.name = NoName THEN shmNames ELSE [shmNames EXCEPT ![e.name] = NoObj]

-----------------------------------------------------------------------------
(* Barriers. *)

StoreBar(p, o, n) ==
  /\ HasRoom(bars[p])
  /\ bars' = [bars EXCEPT ![p] = Store(@, o, n)]
  /\ UNCHANGED <<sems, semNames, counters>>

\* create without -n: map_anonymous, barrier_init, store.
CreateAnonBar(p) ==
  /\ pc[p] = "idle"
  /\ \E o \in Objs :
       /\ Fresh(o) /\ StoreBar(p, o, NoName) /\ Map(p, o)
       /\ ready' = ready \cup {o}
  /\ UNCHANGED <<shmNames, pc, at>>

\* create -n NAME, first half: map_named makes the object, or finds the one there is.
CreateBarMap(p, n) ==
  /\ pc[p] = "idle" /\ HasRoom(bars[p])
  /\ \E o \in Objs :
       /\ IF shmNames[n] = NoObj THEN Fresh(o)
          ELSE o = shmNames[n] /\ UNCHANGED used
       /\ Map(p, o)
       /\ shmNames' = [shmNames EXCEPT ![n] = o]
       /\ pc' = [pc EXCEPT ![p] = "creating"]
       /\ at' = [at EXCEPT ![p] = [obj |-> o, name |-> n]]
  /\ UNCHANGED <<registries, semNames, counters, ready>>

\* create -n NAME, second half: barrier_init, store.
CreateBarInit(p) ==
  /\ pc[p] = "creating"
  /\ StoreBar(p, at[p].obj, at[p].name)
  /\ ready' = ready \cup {at[p].obj}
  /\ pc' = [pc EXCEPT ![p] = "idle"]
  /\ at' = [at EXCEPT ![p] = Nowhere]
  /\ UNCHANGED <<mapped, shmNames, used>>

OpenBar(p, n) ==
  /\ pc[p] = "idle" /\ shmNames[n] # NoObj
  /\ StoreBar(p, shmNames[n], n) /\ Map(p, shmNames[n])
  /\ UNCHANGED <<shmNames, used, ready, pc, at>>

\* Mutant of TakeBar: the handle is looked up, not taken.
LookBar(p, h) ==
  /\ pc[p] = "idle" /\ Known(bars[p], h)
  /\ bars' = bars
  /\ Unmap(p, bars[p].map[h].obj)
  /\ UNCHANGED <<sems, semNames, used, counters, ready, pc, at>>

TakeBar(p, h) ==
  /\ pc[p] = "idle" /\ Known(bars[p], h)
  /\ bars' = [bars EXCEPT ![p] = Take(@, h)]
  /\ Unmap(p, bars[p].map[h].obj)
  /\ UNCHANGED <<sems, semNames, used, counters, ready, pc, at>>

CloseBar(p, h) == TakeBar(p, h) /\ UNCHANGED shmNames

DestroyBar(p, h) ==
  LET n == bars[p].map[h].name IN
    /\ TakeBar(p, h)
    /\ shmNames' = IF n = NoName THEN shmNames ELSE [shmNames EXCEPT ![n] = NoObj]

-----------------------------------------------------------------------------

\* A subshell or background job has a copy of the registries and of the mappings.
Fork(p, q) ==
  /\ pc[p] = "idle" /\ pc[q] = "unborn"
  /\ pc' = [pc EXCEPT ![q] = "idle"]
  /\ sems' = [sems EXCEPT ![q] = sems[p]]
  /\ bars' = [bars EXCEPT ![q] = bars[p]]
  /\ mapped' = [mapped EXCEPT ![q] = mapped[p]]
  /\ UNCHANGED <<names, used, counters, ready, at>>

\* A process exits, or is killed at any step.  Names, and the counts of semaphores, survive.
Exit(p) ==
  /\ pc[p] \notin {"unborn", "dead"}
  /\ pc' = [pc EXCEPT ![p] = "dead"]
  /\ at' = [at EXCEPT ![p] = Nowhere]
  /\ sems' = [sems EXCEPT ![p] = EmptyRegistry]
  /\ bars' = [bars EXCEPT ![p] = EmptyRegistry]
  /\ mapped' = [mapped EXCEPT ![p] = [o \in Objs |-> 0]]
  /\ UNCHANGED <<names, used, counters, ready>>

Step(p) ==
  \/ \E n \in Names \cup {NoName}, c \in Counts : CreateSem(p, n, c)
  \/ \E n \in Names : OpenSem(p, n) \/ CreateBarMap(p, n) \/ OpenBar(p, n)
  \/ \E h \in Handles : WaitNow(p, h) \/ WaitBlock(p, h) \/ Post(p, h)
                        \/ CloseSem(p, h) \/ DestroySem(p, h)
                        \/ CloseBar(p, h) \/ DestroyBar(p, h)
  \/ WaitWake(p) \/ WaitFail(p)
  \/ CreateAnonBar(p) \/ CreateBarInit(p)
  \/ \E q \in Procs : Fork(p, q)
  \/ Exit(p)

Next == \E p \in Procs : Step(p)
Spec == Init /\ [][Next]_vars

-----------------------------------------------------------------------------

TypeOK ==
  /\ sems \in [Procs -> Registries] /\ bars \in [Procs -> Registries]
  /\ mapped \in [Procs -> [Objs -> Nat]]
  /\ semNames \in [Names -> Objs \cup {NoObj}] /\ shmNames \in [Names -> Objs \cup {NoObj}]
  /\ used \subseteq Objs /\ ready \subseteq Objs
  /\ value \in [Objs -> 0..SemMax] /\ start \in [Objs -> 0..SemMax]
  /\ posted \in [Objs -> Nat] /\ granted \in [Objs -> Nat]
  /\ pc \in [Procs -> {"unborn", "idle", "waiting", "creating", "dead"}]
  /\ at \in [Procs -> Entries \cup {Nowhere}]

HandlesTo(r, o) == {h \in Handles : Known(r, h) /\ r.map[h].obj = o}

\* What a process has mapped is what its handles stand for, and the barrier it is making: no
\* handle leads to memory that is gone, and no close, destroy or failed create leaves memory
\* that no handle reaches, through forks, reopened names and objects with several handles.
MappingsHaveHandles ==
  \A p \in Procs, o \in Objs :
    mapped[p][o] = Cardinality(HandlesTo(sems[p], o)) + Cardinality(HandlesTo(bars[p], o))
                   + IF pc[p] = "creating" /\ at[p].obj = o THEN 1 ELSE 0

\* The counter of a semaphore is the count it was first created with, plus the posts, less the
\* waits, that were told they succeeded: no unit is lost to a wait that timed out, was
\* interrupted or was killed, nor to a second create or a close of its name.
UnitsConserved ==
  \A o \in Objs : value[o] + granted[o] = start[o] + posted[o]
=============================================================================
