--------------------------- MODULE ShmMutex_proofs ---------------------------
(***************************************************************************)
(* Proofs about ShmMutex: type correctness, and mutual exclusion from an   *)
(* inductive invariant, for any processes, objects, names and habits.      *)
(***************************************************************************)
EXTENDS ShmMutex, TLAPS

------------------------------------------------------------------------------
(* Registries. *)

\* A store keeps a registry a registry, and changes the entry of its own id only.
LEMMA StoreType ==
  ASSUME NEW r \in Registries, HasRoom(r), NEW o \in Objs, NEW n \in Names \cup {NoName}
  PROVE  /\ Store(r, o, n) \in Registries
         /\ r.next \in Handles
         /\ \A h \in Handles :
              Store(r, o, n).map[h] = IF h = r.next THEN [obj |-> o, name |-> n] ELSE r.map[h]
  BY HandleAssumption DEF Store, HasRoom, Registries, Handles, Entries

\* A take keeps a registry a registry, and forgets one handle only.
LEMMA TakeType ==
  ASSUME NEW r \in Registries, NEW h \in Handles
  PROVE  /\ Take(r, h) \in Registries
         /\ \A i \in Handles : Take(r, h).map[i] = IF i = h THEN NoEntry ELSE r.map[i]
  BY DEF Take, Registries, Handles, Entries

\* What a known handle resolves to.
LEMMA KnownType ==
  ASSUME NEW r \in Registries, NEW h \in Handles, Known(r, h)
  PROVE  r.map[h].obj \in Objs /\ r.map[h].name \in Names \cup {NoName}
  BY DEF Known, Registries, Entries

\* The registry of a process that has not created or opened anything.
LEMMA EmptyType ==
  /\ EmptyRegistry \in Registries
  /\ \A h \in Handles : ~Known(EmptyRegistry, h)
  BY HandleAssumption DEF EmptyRegistry, Registries, Known, Handles

\* An entry that a store makes is not the absence of one.
LEMMA EntryKnown ==
  ASSUME NEW o \in Objs, NEW n \in Names \cup {NoName}
  PROVE  [obj |-> o, name |-> n] # NoEntry
  BY HandleAssumption

------------------------------------------------------------------------------
(* Types. *)

\* The fields of a call in progress.
LEMMA CallFields ==
  ASSUME NEW c \in Calls
  PROVE  /\ c.op = "create" => /\ c.obj \in Objs /\ c.name \in Names
                               /\ c.robust \in BOOLEAN
                               /\ [c EXCEPT !.step = "init"] \in Calls
         /\ c.op = "lock" => /\ c.obj \in Objs /\ c.handle \in Handles
                             /\ c.at \in Places
  BY DEF Calls, Idle

\* The calls that the actions start are calls.
LEMMA CallTypes ==
  /\ Idle \in Calls
  /\ \A o \in Objs, n \in Names, r \in BOOLEAN, s \in {"truncate", "init"} :
       Creating(o, n, r, s) \in Calls
  /\ \A o \in Objs, h \in Handles, a \in Places : Blocked(o, h, a) \in Calls
  BY DEF Calls, Idle, Creating, Blocked

\* A call that differs at most in where it sleeps.
Alike(c, d) ==
  /\ c.op = d.op
  /\ c.op # "lock" => c = d
  /\ c.op = "lock" => c.obj = d.obj /\ c.handle = d.handle

\* A wake-up goes to processes asleep on one of the mutexes.
LEMMA WakesAsleep ==
  ASSUME NEW p, NEW O, NEW W \in Wakes(O, p)
  PROVE  \A q \in W : /\ q \in Procs /\ q # p /\ call[q].op = "lock"
                       /\ call[q].obj \in O /\ call[q].at = "asleep"
<1>1. W \subseteq (UNION {Asleep(o) : o \in O}) \ {p}
  BY DEF Wakes
<1>2. ASSUME NEW q \in W PROVE q # p /\ \E o \in O : q \in Asleep(o)
  <2>1. q # p /\ q \in UNION {Asleep(o) : o \in O}
    BY <1>1
  <2>2. PICK X \in {Asleep(o) : o \in O} : q \in X
    BY <2>1
  <2> QED
    BY <2>1, <2>2
<1> QED
  BY <1>2 DEF Asleep, Waiting

\* A wake-up goes to processes inside a lock, and moves them only.
LEMMA WakeCalls ==
  ASSUME TypeOK, NEW p \in Procs, NEW O, NEW W \in Wakes(O, p), NEW c \in Calls
  PROVE  /\ Woken(W, [call EXCEPT ![p] = c]) \in [Procs -> Calls]
         /\ \A q \in Procs \ {p} : Alike(Woken(W, [call EXCEPT ![p] = c])[q], call[q])
         /\ Woken(W, [call EXCEPT ![p] = c])[p] = c
<1> DEFINE calls == [call EXCEPT ![p] = c]
<1>1. \A q \in W : q \in Procs /\ q # p /\ call[q].op = "lock"
  BY WakesAsleep
<1>2. \A q \in W : /\ [call[q] EXCEPT !.at = "woken"] \in Calls
                    /\ Alike([call[q] EXCEPT !.at = "woken"], call[q])
  <2> SUFFICES ASSUME NEW q \in W
               PROVE  /\ [call[q] EXCEPT !.at = "woken"] \in Calls
                      /\ Alike([call[q] EXCEPT !.at = "woken"], call[q])
    OBVIOUS
  <2>1. call[q] \in [op : {"lock"}, obj : Objs, handle : Handles, at : Places]
    BY <1>1 DEF TypeOK, Calls, Idle
  <2>2. [call[q] EXCEPT !.at = "woken"]
          \in [op : {"lock"}, obj : Objs, handle : Handles, at : Places]
    BY <2>1 DEF Places
  <2> QED
    BY <2>1, <2>2 DEF Calls, Alike
<1>3. \A q \in Procs : Woken(W, calls)[q] = IF q \in W THEN [call[q] EXCEPT !.at = "woken"]
                                           ELSE IF q = p THEN c ELSE call[q]
  BY <1>1 DEF Woken, TypeOK
<1> DEFINE new(q) == IF q \in W THEN [call[q] EXCEPT !.at = "woken"]
                     ELSE IF q = p THEN c ELSE call[q]
<1>4. \A q \in Procs : new(q) \in Calls
  BY <1>2 DEF TypeOK
<1>5. Woken(W, calls) \in [Procs -> Calls]
  <2>1. Woken(W, calls) = [q \in Procs |-> Woken(W, calls)[q]]
    BY DEF Woken
  <2>2. \A q \in Procs : Woken(W, calls)[q] \in Calls
    BY <1>3, <1>4
  <2> QED
    BY <2>1, <2>2
<1> QED
  BY <1>1, <1>2, <1>3, <1>5 DEF Alike

\* It moves those of them that are woken.
LEMMA WakeMoves ==
  ASSUME TypeOK, NEW p \in Procs, NEW O, NEW W \in Wakes(O, p), NEW c \in Calls
  PROVE  \A q \in Procs :
           /\ q \in W => Woken(W, [call EXCEPT ![p] = c])[q].at = "woken"
           /\ q # p /\ q \notin W => Woken(W, [call EXCEPT ![p] = c])[q] = call[q]
<1>1. \A q \in W : q \in Procs /\ q # p /\ call[q].op = "lock"
  BY WakesAsleep
<1>2. ASSUME NEW q \in W PROVE [call[q] EXCEPT !.at = "woken"].at = "woken"
  <2>1. call[q] \in [op : {"lock"}, obj : Objs, handle : Handles, at : Places]
    BY <1>1 DEF TypeOK, Calls, Idle
  <2> QED
    BY <2>1
<1> QED
  BY <1>1, <1>2 DEF Woken, TypeOK

\* The end of a process keeps the types, and moves sleepers only.
LEMMA DieType ==
  ASSUME TypeOK, NEW p \in Procs, NEW U, Die(p, U)
  PROVE  /\ TypeOK'
         /\ call'[p] = Idle /\ \A q \in Procs \ {p} : Alike(call'[q], call[q])
<1> DEFINE O == {o \in U \cup Reachable(p, U) : waiters[o]} \cup Pending(p)
<1>1. PICK W \in Wakes(O, p) :
        /\ call' = Woken(W, [call EXCEPT ![p] = Idle])
        /\ adrift' = (adrift \cup UNION {Sleepers(o) : o \in LostWith(p)}) \ (W \cup {p})
  BY DEF Die
<1> HIDE DEF O
<1>2. /\ call' \in [Procs -> Calls] /\ call'[p] = Idle
      /\ \A q \in Procs \ {p} : Alike(call'[q], call[q])
  BY <1>1, WakeCalls, CallTypes
<1>3. adrift' \in SUBSET Procs
  BY <1>1 DEF TypeOK, Sleepers, Waiting
<1> QED
  BY <1>2, <1>3, EmptyType DEF TypeOK, Die, Released

\* So does an unlock.
LEMMA UnlockType ==
  ASSUME TypeOK, NEW p \in Procs, NEW S, UnlockObjs(p, S)
  PROVE  TypeOK' /\ \A q \in Procs : Alike(call'[q], call[q])
<1> DEFINE O == {o \in Unlockable(p, S) : waiters[o]}
<1>1. PICK W \in Wakes(O, p) : call' = Woken(W, call) /\ adrift' = adrift \ W
  BY DEF UnlockObjs
<1> HIDE DEF O
<1>2. call[p] \in Calls /\ call = [call EXCEPT ![p] = call[p]]
  BY DEF TypeOK
<1>3. /\ call' \in [Procs -> Calls] /\ call'[p] = call[p]
      /\ \A q \in Procs \ {p} : Alike(call'[q], call[q])
  BY <1>1, <1>2, WakeCalls
<1> QED
  <2>1. \A q \in Procs : Alike(call'[q], call[q])
    BY <1>3 DEF Alike
  <2>2. /\ UNCHANGED <<stage, anon, robust, died, bound, status, reg>>
        /\ owner' \in [Objs -> Procs \cup {NoProc}] /\ via' \in [Objs -> 0..MaxHandle]
        /\ waiters' \in [Objs -> BOOLEAN] /\ held' \in [Procs -> SUBSET Objs]
    BY HandleAssumption DEF TypeOK, UnlockObjs, Released
  <2> QED
    BY <1>1, <1>3, <2>1, <2>2 DEF TypeOK

\* The three kinds of call in progress are told apart by their op.
LEMMA OpNames ==
  /\ Idle.op = "idle"
  /\ \A o, n, r, s : Creating(o, n, r, s).op = "create"
  /\ \A o, h, a : Blocked(o, h, a).op = "lock"
  /\ \A c \in Calls : c.op = "create" => [c EXCEPT !.step = "init"].op = "create"
  BY DEF Idle, Creating, Blocked, Calls

\* A sleeper that finds its mutex taken is in the same call as before.
LEMMA AgainCall ==
  ASSUME TypeOK, NEW p \in Procs, LockAgain(p)
  PROVE  /\ call' \in [Procs -> Calls]
         /\ \A q \in Procs : Alike(call'[q], call[q])
         /\ \A q \in Procs \ {p} : call'[q] = call[q]
<1>1. call[p] \in [op : {"lock"}, obj : Objs, handle : Handles, at : Places]
  BY DEF TypeOK, LockAgain, Inside, Calls, Idle
<1>2. [call[p] EXCEPT !.at = "asleep"]
        \in [op : {"lock"}, obj : Objs, handle : Handles, at : Places]
  BY <1>1 DEF Places
<1>3. /\ [call[p] EXCEPT !.at = "asleep"] \in Calls
      /\ Alike([call[p] EXCEPT !.at = "asleep"], call[p])
  BY <1>1, <1>2 DEF Calls, Alike
<1>4. call' = [call EXCEPT ![p] = [call[p] EXCEPT !.at = "asleep"]]
  BY DEF LockAgain
<1> QED
  BY <1>3, <1>4 DEF TypeOK, Alike

\* The initial state is well typed, and no call is in progress.
LEMMA TypeInit == Init => TypeOK /\ Reserved
  BY EmptyType, CallTypes, OpNames, MutexAssumption, HandleAssumption
  DEF Init, TypeOK, Reserved

\* Every step keeps the types; a create reaches its store with a handle to spare.
LEMMA TypeStep == TypeOK /\ Reserved /\ [Next]_vars => TypeOK' /\ Reserved'
<1> SUFFICES ASSUME TypeOK, Reserved, [Next]_vars PROVE TypeOK' /\ Reserved'
  OBVIOUS
<1>1. ASSUME NEW p \in Procs, CreateStep(p) PROVE TypeOK' /\ Reserved'
  <2>1. ASSUME NEW o \in Objs, NEW r \in BOOLEAN, CreateAnon(p, o, r)
        PROVE  TypeOK' /\ Reserved'
    <3>1. Store(reg[p], o, NoName) \in Registries
      BY <2>1, StoreType DEF TypeOK, CreateAnon
    <3>2. TypeOK'
      BY <2>1, <3>1, HandleAssumption DEF TypeOK, CreateAnon, InitMutex, Sleepers, Waiting
    <3> QED
      BY <2>1, <3>2, OpNames DEF TypeOK, CreateAnon, Reserved, Ready
  <2>2. ASSUME NEW o \in Objs, NEW r \in BOOLEAN, NEW n \in Names, CreateOpen(p, n, o, r)
        PROVE  TypeOK' /\ Reserved'
    <3>1. TypeOK'
      BY <2>2, CallTypes DEF TypeOK, CreateOpen
    <3> QED
      BY <2>2, <3>1 DEF TypeOK, CreateOpen, Reserved, Ready
  <2>3. ASSUME CreateTruncate(p) PROVE TypeOK' /\ Reserved'
    <3>1. call[p].obj \in Objs /\ [call[p] EXCEPT !.step = "init"] \in Calls
      BY <2>3, CallFields DEF TypeOK, CreateTruncate, Inside
    <3>2. TypeOK'
      BY <2>3, <3>1 DEF TypeOK, CreateTruncate
    <3> QED
      BY <2>3, <3>2, OpNames DEF TypeOK, CreateTruncate, Inside, Reserved
  <2>4. ASSUME CreateInit(p) PROVE TypeOK' /\ Reserved'
    <3>1. call[p].obj \in Objs /\ call[p].name \in Names /\ call[p].robust \in BOOLEAN
      BY <2>4, CallFields DEF TypeOK, CreateInit, Inside
    <3>2. Store(reg[p], call[p].obj, call[p].name) \in Registries
      BY <2>4, <3>1, StoreType DEF TypeOK, Reserved, CreateInit, Inside
    <3>3. TypeOK'
      BY <2>4, <3>1, <3>2, CallTypes, HandleAssumption DEF TypeOK, CreateInit, InitMutex, Sleepers, Waiting
    <3> QED
      BY <2>4, <3>3, OpNames DEF TypeOK, CreateInit, Inside, Reserved
  <2>5. ASSUME NEW n \in Names, Open(p, n) PROVE TypeOK' /\ Reserved'
    <3>1. Store(reg[p], bound[n], n) \in Registries
      <4>1. bound[n] \in Objs /\ HasRoom(reg[p]) /\ reg[p] \in Registries
        BY <2>5 DEF TypeOK, Open
      <4> QED
        BY <4>1, StoreType
    <3> QED
      BY <2>5, <3>1, OpNames DEF TypeOK, Open, mutexVars, Reserved, Ready
  <2> QED
    BY <1>1, <2>1, <2>2, <2>3, <2>4, <2>5 DEF CreateStep
<1>2. ASSUME NEW p \in Procs, NEW h \in Handles, HandleStep(p, h) PROVE TypeOK' /\ Reserved'
  <2>1. Known(reg[p], h) /\ reg[p] \in Registries
    BY <1>2 DEF HandleStep, LockNow, LockBlock, Unlock, Close, Destroy, Unmap, TypeOK
  <2>2. reg[p].map[h].obj \in Objs /\ reg[p].map[h].name \in Names \cup {NoName}
    BY <2>1, KnownType
  <2>3. h \in 0..MaxHandle
    BY HandleAssumption DEF Handles
  <2>4. CASE LockNow(p, h)
    BY <2>2, <2>3, <2>4 DEF TypeOK, LockNow, Grant, Reserved
  <2>5. CASE LockBlock(p, h)
    <3>1. TypeOK'
      BY <2>2, <2>5, CallTypes DEF TypeOK, LockBlock, Announce, Places
    <3> QED
      BY <2>5, <3>1, OpNames DEF TypeOK, LockBlock, Announce, Reserved, Ready
  <2>6. CASE Unlock(p, h)
    BY <2>6, UnlockType DEF Alike, TypeOK, Unlock, UnlockObjs, Reserved
  <2>7. CASE Close(p, h) \/ Destroy(p, h)
    <3>1. Unmap(p, h) /\ bound' \in [Names -> Objs \cup {NoObj}]
      BY <2>2, <2>7 DEF Close, Destroy, TypeOK
    <3>2. Take(reg[p], h) \in Registries
      BY <2>1, TakeType
    <3>3. via' \in [Objs -> 0..MaxHandle]
      BY <3>1, HandleAssumption DEF Unmap, TypeOK
    <3> QED
      BY <3>1, <3>2, <3>3, OpNames DEF TypeOK, Unmap, Reserved, Ready
  <2> QED
    BY <1>2, <2>4, <2>5, <2>6, <2>7 DEF HandleStep
<1>3. ASSUME NEW p \in Procs, LockWake(p) PROVE TypeOK' /\ Reserved'
  <2>1. call[p].obj \in Objs /\ call[p].handle \in Handles
    BY <1>3, CallFields DEF TypeOK, LockWake, Inside
  <2>2. call[p].handle \in 0..MaxHandle
    BY <2>1, HandleAssumption DEF Handles
  <2> QED
    BY <1>3, <2>1, <2>2, CallTypes, OpNames DEF TypeOK, LockWake, Grant, Announce, Reserved
<1>4. ASSUME NEW p \in Procs, LockTimeout(p) PROVE TypeOK' /\ Reserved'
  BY <1>4, CallTypes, OpNames DEF TypeOK, LockTimeout, mutexVars, Reserved
<1>5. ASSUME NEW p \in Procs, UnlockAll(p) PROVE TypeOK' /\ Reserved'
  BY <1>5, UnlockType DEF Alike, TypeOK, UnlockAll, UnlockObjs, Reserved
<1>6. ASSUME NEW p \in Procs, Fault(p) \/ Exit(p) PROVE TypeOK' /\ Reserved'
  <2>1. PICK U : Die(p, U)
    BY <1>6 DEF Fault, Exit
  <2>2. /\ TypeOK' /\ call'[p] = Idle
        /\ \A q \in Procs \ {p} : Alike(call'[q], call[q])
    BY <2>1, DieType
  <2> QED
    <3>1. /\ reg'[p] = EmptyRegistry /\ call'[p].op = "idle"
          /\ \A q \in Procs \ {p} : reg'[q] = reg[q] /\ status'[q] = status[q]
      BY <2>1, <2>2, OpNames DEF Die, TypeOK
    <3>2. \A q \in Procs \ {p} : call'[q].op = call[q].op
      BY <2>2 DEF Alike
    <3>3. status'[p] # "unborn"
      BY <2>1 DEF Die, TypeOK
    <3> QED
      BY <2>2, <3>1, <3>2, <3>3 DEF Reserved
<1>7. ASSUME NEW p \in Procs, NEW c \in Procs, Fork(p, c) PROVE TypeOK' /\ Reserved'
  BY <1>7, OpNames DEF TypeOK, Fork, mutexVars, Reserved, Ready
<1>8. ASSUME NEW p \in Procs, LockAgain(p) PROVE TypeOK' /\ Reserved'
  <2>1. /\ call' \in [Procs -> Calls] /\ call'[p].op = "lock"
        /\ \A q \in Procs \ {p} : call'[q] = call[q]
    BY <1>8, AgainCall DEF Alike, TypeOK, Inside, LockAgain
  <2> QED
    BY <1>8, <2>1 DEF TypeOK, LockAgain, Announce, Inside, Reserved
<1>9. CASE UNCHANGED vars
  BY <1>9 DEF TypeOK, Reserved, vars, mutexVars
<1> QED
  BY <1>1, <1>2, <1>3, <1>4, <1>5, <1>6, <1>7, <1>8, <1>9 DEF Next, Step

\* TypeOK is an invariant: every action assigns values of the declared types.
THEOREM TypeCorrect == Spec => []TypeOK
<1> QED
  BY TypeInit, TypeStep, PTL DEF Spec

------------------------------------------------------------------------------
(* Mutual exclusion. *)

\* An object that is clean stays so until it is freed, and becomes so only when it
\* is created: `anon` changes at its initialisation alone.
LEMMA CleanInit ==
  ASSUME NEW o \in Objs, NEW r, NEW a \in BOOLEAN, TypeOK, InitMutex(o, r, a)
  PROVE  /\ \A i \in Objs \ {o} :
              /\ Clean(i)' <=> Clean(i)
              /\ stage'[i] = stage[i] /\ owner'[i] = owner[i]
              /\ died'[i] = died[i] /\ anon'[i] = anon[i]
         /\ stage'[o] = "ready" /\ anon'[o] = a
  BY DEF InitMutex, Clean, TypeOK

\* Handles and calls in progress are about objects.
LEMMA Ranges ==
  ASSUME TypeOK
  PROVE  /\ \A q \in Procs, h \in Handles : Known(reg[q], h) => reg[q].map[h].obj \in Objs
         /\ \A q \in Procs : call[q].op \in {"create", "lock"} => call[q].obj \in Objs
  BY KnownType, CallFields DEF TypeOK

\* A step that leaves the stage and the kind of every object alone leaves it as
\* clean as it was.
LEMMA CleanFrame ==
  ASSUME anon' = anon
  PROVE  \A o \in Objs : Clean(o)' <=> Clean(o)
  BY DEF Clean

\* After a store the process knows the new mapping, and what it knew before.
LEMMA StoreKnown ==
  ASSUME TypeOK, NEW p \in Procs, HasRoom(reg[p]), NEW o \in Objs,
         NEW n \in Names \cup {NoName}, reg' = [reg EXCEPT ![p] = Store(reg[p], o, n)]
  PROVE  \A q \in Procs, h \in Handles : Known(reg'[q], h) =>
           reg'[q].map[h].obj = o \/ (Known(reg[q], h) /\ reg'[q].map[h] = reg[q].map[h])
<1> TAKE q \in Procs, h \in Handles
<1>1. CASE q = p
  <2>1. Store(reg[p], o, n).map[h]
          = IF h = reg[p].next THEN [obj |-> o, name |-> n] ELSE reg[p].map[h]
    BY StoreType DEF TypeOK
  <2> QED
    BY <1>1, <2>1 DEF Known, TypeOK
<1>2. CASE q # p
  BY <1>2 DEF TypeOK
<1> QED
  BY <1>1, <1>2

\* The invariant holds initially: nothing is allocated, bound, known or held.
LEMMA InvInit == Init => MutexInv
<1> SUFFICES ASSUME Init PROVE MutexInv
  OBVIOUS
<1>1. TypeOK /\ Reserved
  BY TypeInit
<1>2. \A p \in Procs, h \in Handles : ~Known(reg[p], h)
  BY EmptyType DEF Init
<1>3. Reached /\ Published /\ HeldIsOwned
  BY <1>2, OpNames DEF Init, Reached, Published, HeldIsOwned
<1> QED
  BY <1>1, <1>3 DEF MutexInv

\* A mutex in anonymous memory is ready before anybody can know it.
LEMMA CreateAnonInv ==
  ASSUME MutexInv, TypeOK', NEW p \in Procs, NEW o \in Objs, NEW r \in BOOLEAN,
         CreateAnon(p, o, r)
  PROVE  Reached' /\ Published' /\ HeldIsOwned'
<1> USE DEF MutexInv
<1>1. /\ stage[o] = "free" /\ InitMutex(o, r, TRUE)
      /\ reg' = [reg EXCEPT ![p] = Store(reg[p], o, NoName)]
      /\ bound' = bound /\ status' = status /\ call' = call /\ held' = held
      /\ HasRoom(reg[p]) /\ reg[p] \in Registries
  BY DEF CreateAnon, TypeOK
<1>2. \A q \in Procs, h \in Handles : Known(reg'[q], h) =>
        reg'[q].map[h].obj = o \/ (Known(reg[q], h) /\ reg'[q].map[h] = reg[q].map[h])
  BY <1>1, StoreKnown
<1>3. \A q \in Procs, h \in Handles : Known(reg[q], h) => reg[q].map[h].obj \in Objs
  BY Ranges
<1>4. \A q \in Procs : call[q].op \in {"create", "lock"} => call[q].obj \in Objs
  BY Ranges
<1>5. /\ \A i \in Objs \ {o} : /\ Clean(i)' <=> Clean(i)
                               /\ stage'[i] = stage[i] /\ owner'[i] = owner[i]
                               /\ died'[i] = died[i] /\ anon'[i] = anon[i]
      /\ stage'[o] = "ready" /\ anon'[o] = TRUE
  BY <1>1, CleanInit
<1>6. Reached'
  BY <1>1, <1>2, <1>3, <1>4, <1>5 DEF Reached, TypeOK
<1>7. Published'
  BY <1>1, <1>2, <1>3, <1>4, <1>5 DEF Reached, Published
<1>8. HeldIsOwned'
  BY <1>1, <1>5 DEF HeldIsOwned, TypeOK
<1> QED
  BY <1>6, <1>7, <1>8

\* A create that allocates an object is its only creator; one that finds an object
\* bound to the name is possible only for objects that are not clean.
LEMMA CreateOpenInv ==
  ASSUME MutexInv, TypeOK', NEW p \in Procs, NEW o \in Objs, NEW r \in BOOLEAN, NEW n \in Names,
         CreateOpen(p, n, o, r)
  PROVE  Reached' /\ Published' /\ HeldIsOwned'
<1> USE DEF MutexInv
<1>1. /\ anon' = anon /\ owner' = owner /\ died' = died /\ reg' = reg /\ status' = status
      /\ held' = held
      /\ call[p].op = "idle"
      /\ call'[p].op = "create" /\ call'[p].obj = o
      /\ \A q \in Procs \ {p} : call'[q] = call[q]
  BY OpNames DEF CreateOpen, Ready, TypeOK, Creating
<1>2. \A i \in Objs : Clean(i)' <=> Clean(i)
  BY <1>1, CleanFrame
<1>3. CASE bound[n] = NoObj
  <2>1. /\ stage[o] = "free" /\ stage'[o] = "empty"
        /\ \A i \in Objs \ {o} : stage'[i] = stage[i]
        /\ \A m \in Names : bound'[m] = IF m = n THEN o ELSE bound[m]
    BY <1>3 DEF CreateOpen, TypeOK
  <2>2. Reached'
    BY <1>1, <2>1, Ranges DEF Reached, TypeOK
  <2>3. Published'
    BY <1>1, <1>2, <2>1, Ranges DEF Reached, Published
  <2>4. HeldIsOwned'
    BY <1>1, <1>2, <2>1 DEF HeldIsOwned, TypeOK
  <2> QED
    BY <2>2, <2>3, <2>4
<1>4. CASE bound[n] # NoObj
  <2>1. /\ o = bound[n] /\ stage' = stage /\ bound' = bound /\ "recreate" \in Habits
    BY <1>4 DEF CreateOpen, MayRecreate
  <2>2. Reached'
    BY <1>1, <1>4, <2>1 DEF Reached
  <2>3. ~Clean(o)
    BY <1>4, <2>1 DEF Reached, Clean
  <2>4. Published'
    BY <1>1, <1>2, <2>1, <2>3, Ranges DEF Published
  <2>5. HeldIsOwned'
    BY <1>1, <1>2, <2>1 DEF HeldIsOwned, TypeOK
  <2> QED
    BY <2>2, <2>4, <2>5
<1> QED
  BY <1>3, <1>4

\* Growing an object of size 0 makes nothing ready.
LEMMA CreateTruncateInv ==
  ASSUME MutexInv, TypeOK', NEW p \in Procs, CreateTruncate(p)
  PROVE  Reached' /\ Published' /\ HeldIsOwned'
<1> USE DEF MutexInv
<1>1. /\ anon' = anon /\ owner' = owner /\ died' = died /\ reg' = reg /\ status' = status
      /\ held' = held /\ bound' = bound
      /\ call[p].op = "create" /\ call'[p].op = "create" /\ call'[p].obj = call[p].obj
      /\ \A q \in Procs \ {p} : call'[q] = call[q]
  BY OpNames DEF CreateTruncate, Inside, TypeOK, Calls, Idle
<1>2. \A i \in Objs : Clean(i)' <=> Clean(i)
  BY <1>1, CleanFrame
<1>3. \A i \in Objs : /\ stage[i] = "ready" <=> stage'[i] = "ready"
                      /\ stage[i] = "free" <=> stage'[i] = "free"
  BY DEF CreateTruncate, TypeOK
<1>4. Reached'
  BY <1>1, <1>3, Ranges DEF Reached, TypeOK
<1>5. Published'
  BY <1>1, <1>2, <1>3, Ranges DEF Published
<1>6. HeldIsOwned'
  BY <1>1, <1>2, <1>3 DEF HeldIsOwned, TypeOK
<1> QED
  BY <1>4, <1>5, <1>6

\* The creator of a clean object is alone with it, so nobody holds what it initialises.
LEMMA CreateInitInv ==
  ASSUME MutexInv, TypeOK', NEW p \in Procs, NEW o \in Objs, o = call[p].obj, CreateInit(p)
  PROVE  Reached' /\ Published' /\ HeldIsOwned'
<1> USE DEF MutexInv
<1>1. /\ reg' = [reg EXCEPT ![p] = Store(reg[p], o, call[p].name)]
      /\ bound' = bound /\ status' = status /\ held' = held
      /\ call[p].op = "create" /\ call'[p].op = "idle"
      /\ \A q \in Procs \ {p} : call'[q] = call[q]
      /\ InitMutex(o, call[p].robust, FALSE)
  BY OpNames DEF CreateInit, Inside, TypeOK
<1>2. call[p].name \in Names \cup {NoName} /\ HasRoom(reg[p])
  BY <1>1, CallFields DEF TypeOK, Reserved
<1>3. \A q \in Procs, h \in Handles : Known(reg'[q], h) =>
        reg'[q].map[h].obj = o \/ (Known(reg[q], h) /\ reg'[q].map[h] = reg[q].map[h])
  BY <1>1, <1>2, StoreKnown
<1>4. /\ \A i \in Objs \ {o} : /\ Clean(i)' <=> Clean(i)
                               /\ stage'[i] = stage[i] /\ owner'[i] = owner[i]
                               /\ died'[i] = died[i] /\ anon'[i] = anon[i]
      /\ stage'[o] = "ready" /\ anon'[o] = FALSE
  BY <1>1, <1>2, CleanInit
<1>5. ~anon[o] /\ (Clean(o)' <=> Clean(o))
  BY <1>1, <1>2, <1>4 DEF Reached, Clean
<1>6. Reached'
  BY <1>1, <1>2, <1>3, <1>4, <1>5, Ranges DEF Reached, TypeOK
<1>7. Published'
  BY <1>1, <1>2, <1>3, <1>4, <1>5, Ranges DEF Published
<1>8. \A q \in Procs : o \in held[q] => ~Clean(o)
  BY <1>1 DEF Published, HeldIsOwned
<1>9. HeldIsOwned'
  BY <1>1, <1>2, <1>4, <1>5, <1>8 DEF HeldIsOwned, TypeOK
<1> QED
  BY <1>6, <1>7, <1>9

\* A clean object that can be opened is ready.
LEMMA OpenInv ==
  ASSUME MutexInv, TypeOK', NEW p \in Procs, NEW n \in Names, Open(p, n)
  PROVE  Reached' /\ Published' /\ HeldIsOwned'
<1> USE DEF MutexInv
<1> DEFINE o == bound[n]
<1>1. /\ reg' = [reg EXCEPT ![p] = Store(reg[p], o, n)]
      /\ UNCHANGED <<stage, anon, owner, died, bound, status, call, held>>
      /\ o \in Objs /\ bound[n] # NoObj /\ MayOpen(o) /\ HasRoom(reg[p])
  BY DEF Open, mutexVars, TypeOK
<1>2. \A i \in Objs : Clean(i)' <=> Clean(i)
  BY <1>1, CleanFrame
<1>3. \A q \in Procs, h \in Handles : Known(reg'[q], h) =>
        reg'[q].map[h].obj = o \/ (Known(reg[q], h) /\ reg'[q].map[h] = reg[q].map[h])
  BY <1>1, StoreKnown
<1>4. stage[o] # "free" /\ (Clean(o) => stage[o] = "ready")
  BY <1>1 DEF Reached, Clean, MayOpen
<1>5. Reached'
  BY <1>1, <1>3, <1>4 DEF Reached
<1>6. Published'
  BY <1>1, <1>2, <1>3, <1>4, Ranges DEF Published
<1>7. HeldIsOwned'
  BY <1>1, <1>2 DEF HeldIsOwned, TypeOK
<1> QED
  BY <1>5, <1>6, <1>7

\* A lock is granted only when nobody holds the mutex or its owner died.
LEMMA GrantInv ==
  ASSUME MutexInv, TypeOK', NEW p \in Procs, status[p] = "running", NEW o \in Objs,
         stage[o] # "free", Clean(o) => stage[o] = "ready",
         NEW h, Obtainable(o), Grant(p, o, h),
         call' = call \/ call' = [call EXCEPT ![p] = Idle]
  PROVE  Reached' /\ Published' /\ HeldIsOwned'
<1> USE DEF MutexInv
<1>1. /\ UNCHANGED <<stage, anon, bound, status, reg>>
      /\ owner'[o] = p /\ ~died'[o] /\ held'[p] = held[p] \cup {o}
      /\ \A i \in Objs \ {o} : owner'[i] = owner[i] /\ died'[i] = died[i]
      /\ \A q \in Procs \ {p} : held'[q] = held[q]
      /\ held[p] \subseteq Objs
  BY DEF Grant, TypeOK
<1>2. \A i \in Objs : Clean(i)' <=> Clean(i)
  BY <1>1, CleanFrame
<1>3. \A q \in Procs : call'[q] = call[q] \/ call'[q].op = "idle"
  BY OpNames DEF TypeOK
<1>4. \A q \in Procs : Clean(o) => o \notin held[q]
  BY MutexAssumption DEF Obtainable, HeldIsOwned, TypeOK
<1>5. Reached'
  BY <1>1, <1>3 DEF Reached
<1>6. Published'
  BY <1>1, <1>2, <1>3, Ranges DEF Published
<1>7. HeldIsOwned'
  BY <1>1, <1>2, <1>4 DEF HeldIsOwned, TypeOK
<1> QED
  BY <1>5, <1>6, <1>7

\* Sleeping on a mutex and giving up change only the call in progress.
LEMMA LockCallInv ==
  ASSUME MutexInv, TypeOK', NEW p \in Procs,
         (\E h \in Handles : LockBlock(p, h)) \/ LockTimeout(p) \/ LockAgain(p)
  PROVE  Reached' /\ Published' /\ HeldIsOwned'
<1> USE DEF MutexInv
<1>1. UNCHANGED <<stage, anon, owner, died, bound, status, reg, held>>
  BY DEF LockBlock, LockTimeout, LockAgain, mutexVars
<1>2. \A i \in Objs : Clean(i)' <=> Clean(i)
  BY <1>1, CleanFrame
<1>3. \A q \in Procs : \/ Alike(call'[q], call[q])
                       \/ call'[q].op = "idle"
                       \/ /\ call'[q].op = "lock"
                          /\ \E h \in Handles : Known(reg[q], h) /\ call'[q].obj = reg[q].map[h].obj
  <2>1. CASE LockTimeout(p)
    BY <2>1, OpNames DEF LockTimeout, TypeOK, Alike
  <2>2. ASSUME NEW h \in Handles, LockBlock(p, h)
        PROVE  \A q \in Procs : \/ Alike(call'[q], call[q])
                                \/ /\ call'[q].op = "lock"
                                   /\ Known(reg[q], h) /\ call'[q].obj = reg[q].map[h].obj
    BY <2>2 DEF LockBlock, TypeOK, Blocked, Alike
  <2> QED
    BY <2>1, <2>2, AgainCall
<1>4. Reached'
  BY <1>1, <1>3 DEF Reached, Alike
<1>5. Published'
  BY <1>1, <1>2, <1>3, Ranges DEF Published, Alike
<1>6. HeldIsOwned'
  BY <1>1, <1>2 DEF HeldIsOwned, TypeOK
<1> QED
  BY <1>4, <1>5, <1>6

\* An unlock takes a clean mutex from its owner only.
LEMMA UnlockInv ==
  ASSUME MutexInv, TypeOK', NEW p \in Procs, NEW S, UnlockObjs(p, S)
  PROVE  Reached' /\ Published' /\ HeldIsOwned'
<1> USE DEF MutexInv
<1>1. /\ UNCHANGED <<stage, anon, died, bound, status, reg>>
      /\ \A q \in Procs : Alike(call'[q], call[q])
      /\ \A o \in Objs : owner'[o] = IF o \in Unlockable(p, S) THEN NoProc ELSE owner[o]
      /\ held'[p] = held[p] \ Unlockable(p, S)
      /\ \A q \in Procs \ {p} : held'[q] = held[q]
  <2>1. \A q \in Procs : Alike(call'[q], call[q])
    BY UnlockType
  <2> QED
    BY <2>1 DEF UnlockObjs, Released, TypeOK
<1>2. \A i \in Objs : Clean(i)' <=> Clean(i)
  BY <1>1, CleanFrame
<1>3. \A q \in Procs \ {p} : \A o \in held[q] : Clean(o) => o \notin Unlockable(p, S)
  BY DEF HeldIsOwned, Unlockable, TypeOK
<1>4. Reached' /\ Published'
  BY <1>1, <1>2, Ranges DEF Reached, Published, Alike
<1>5. HeldIsOwned'
  BY <1>1, <1>2, <1>3 DEF HeldIsOwned, TypeOK
<1> QED
  BY <1>4, <1>5

\* Closing a handle takes nothing from anybody: the script still holds the mutex.
LEMMA UnmapInv ==
  ASSUME MutexInv, TypeOK', NEW p \in Procs, NEW h \in Handles, Close(p, h) \/ Destroy(p, h)
  PROVE  Reached' /\ Published' /\ HeldIsOwned'
<1> USE DEF MutexInv
<1>1. /\ UNCHANGED <<stage, anon, owner, died, status, call, held>>
      /\ reg' = [reg EXCEPT ![p] = Take(reg[p], h)]
  BY DEF Close, Destroy, Unmap
<1>2. \A i \in Objs : Clean(i)' <=> Clean(i)
  BY <1>1, CleanFrame
<1>3. \A q \in Procs, i \in Handles :
        Known(reg'[q], i) => Known(reg[q], i) /\ reg'[q].map[i] = reg[q].map[i]
  BY <1>1, TakeType DEF Known, TypeOK
<1>4. \A n \in Names : bound'[n] = bound[n] \/ bound'[n] = NoObj
  BY DEF Close, Destroy, TypeOK
<1>5. Reached'
  BY <1>1, <1>3, <1>4 DEF Reached
<1>6. Published'
  BY <1>1, <1>2, <1>3, Ranges DEF Published
<1>7. HeldIsOwned'
  BY <1>1, <1>2 DEF HeldIsOwned, TypeOK
<1> QED
  BY <1>5, <1>6, <1>7

\* Whatever is unlocked before the end of a process, the others keep what they hold.
LEMMA DieInv ==
  ASSUME MutexInv, TypeOK', NEW p \in Procs, Exit(p) \/ Fault(p)
  PROVE  Reached' /\ Published' /\ HeldIsOwned'
<1> USE DEF MutexInv
<1>1. PICK U : Die(p, U) /\ \A o \in U : stage[o] = "ready" => owner[o] = p
  <2>1. CASE Exit(p)
    BY <2>1 DEF Exit
  <2>2. CASE Fault(p)
    BY <2>2 DEF Fault, Unlockable
  <2> QED
    BY <2>1, <2>2
<1>2. /\ UNCHANGED <<stage, anon, bound>>
      /\ \A q \in Procs \ {p} : /\ reg'[q] = reg[q] /\ Alike(call'[q], call[q])
                               /\ held'[q] = held[q] /\ status'[q] = status[q]
      /\ reg'[p] = EmptyRegistry /\ call'[p].op = "idle" /\ held'[p] = {}
  BY <1>1, DieType, OpNames DEF Die, TypeOK
<1>3. \A i \in Objs : Clean(i)' <=> Clean(i)
  BY <1>2, CleanFrame
<1>4. \A o \in Objs : stage[o] = "ready" /\ owner[o] # p =>
        owner'[o] = owner[o] /\ (died'[o] => died[o])
  BY <1>1, MutexAssumption DEF Die, Released, Reachable, TypeOK
<1>5. \A q \in Procs, h \in Handles :
        Known(reg'[q], h) => Known(reg[q], h) /\ reg'[q].map[h] = reg[q].map[h]
  BY <1>2, EmptyType
<1>6. Reached' /\ Published'
  BY <1>2, <1>3, <1>5, Ranges DEF Reached, Published, Alike
<1>7. HeldIsOwned'
  BY <1>2, <1>3, <1>4 DEF HeldIsOwned, TypeOK
<1> QED
  BY <1>6, <1>7

\* A child knows what its parent knows and holds nothing.
LEMMA ForkInv ==
  ASSUME MutexInv, TypeOK', NEW p \in Procs, NEW c \in Procs, Fork(p, c)
  PROVE  Reached' /\ Published' /\ HeldIsOwned'
<1> USE DEF MutexInv
<1>1. /\ UNCHANGED <<stage, anon, owner, died, bound, call, held>>
      /\ status'[c] = "running" /\ reg'[c] = reg[p]
      /\ \A q \in Procs \ {c} : status'[q] = status[q] /\ reg'[q] = reg[q]
  BY DEF Fork, mutexVars, TypeOK
<1>2. \A i \in Objs : Clean(i)' <=> Clean(i)
  BY <1>1, CleanFrame
<1>3. Reached'
  BY <1>1 DEF Reached
<1>4. Published'
  BY <1>1, <1>2, Ranges DEF Published
<1>5. HeldIsOwned'
  BY <1>1, <1>2 DEF HeldIsOwned, TypeOK
<1> QED
  BY <1>3, <1>4, <1>5

\* Every step keeps the invariant.
LEMMA InvStep == MutexInv /\ [Next]_vars => MutexInv'
<1> SUFFICES ASSUME MutexInv, [Next]_vars PROVE MutexInv'
  OBVIOUS
<1>1. TypeOK' /\ Reserved'
  BY TypeStep DEF MutexInv
<1>2. ASSUME NEW p \in Procs, CreateStep(p) PROVE Reached' /\ Published' /\ HeldIsOwned'
  <2>1. CASE CreateInit(p)
    <3>1. call[p].obj \in Objs
      BY <2>1, Ranges DEF CreateInit, Inside, MutexInv
    <3> QED
      BY <1>1, <2>1, <3>1, CreateInitInv
  <2> QED
    BY <1>1, <1>2, <2>1, CreateAnonInv, CreateOpenInv, CreateTruncateInv, OpenInv
    DEF CreateStep
<1>3. ASSUME NEW p \in Procs, NEW h \in Handles, LockNow(p, h)
      PROVE  Reached' /\ Published' /\ HeldIsOwned'
  <2>1. PICK o \in Objs : o = reg[p].map[h].obj /\ Known(reg[p], h)
    BY <1>3, Ranges DEF LockNow, MutexInv
  <2>2. /\ status[p] = "running" /\ Obtainable(o) /\ Grant(p, o, h) /\ call' = call
        /\ stage[o] # "free" /\ (Clean(o) => stage[o] = "ready")
    BY <1>3, <2>1 DEF LockNow, Ready, MutexInv, Reached, Published
  <2> QED
    BY <1>1, <2>2, GrantInv
<1>4. ASSUME NEW p \in Procs, LockWake(p) PROVE Reached' /\ Published' /\ HeldIsOwned'
  <2>1. PICK o \in Objs : o = call[p].obj
    BY <1>4, Ranges DEF LockWake, Inside, MutexInv
  <2>2. /\ status[p] = "running" /\ Obtainable(o) /\ Grant(p, o, call[p].handle)
        /\ call' = [call EXCEPT ![p] = Idle]
        /\ stage[o] # "free" /\ (Clean(o) => stage[o] = "ready")
    BY <1>4, <2>1 DEF LockWake, Inside, MutexInv, Reached, Published
  <2> QED
    BY <1>1, <2>2, GrantInv
<1>5. ASSUME NEW p \in Procs, NEW h \in Handles, HandleStep(p, h)
      PROVE  Reached' /\ Published' /\ HeldIsOwned'
  BY <1>1, <1>3, <1>5, LockCallInv, UnlockInv, UnmapInv DEF HandleStep, Unlock
<1>6. CASE UNCHANGED vars
  <2>1. \A i \in Objs : Clean(i)' <=> Clean(i)
    BY <1>6, CleanFrame DEF vars, mutexVars
  <2> QED
    BY <1>1, <1>6, <2>1, Ranges
    DEF MutexInv, vars, mutexVars, Reached, Published, HeldIsOwned, TypeOK
<1>7. CASE Next
  <2>1. PICK p \in Procs : Step(p)
    BY <1>7 DEF Next
  <2> QED
    BY <1>1, <1>2, <1>4, <1>5, <2>1, LockCallInv, UnlockInv, DieInv, ForkInv
    DEF Step, UnlockAll, MutexInv
<1> QED
  BY <1>6, <1>7

\* The inductive invariant holds in every reachable state.
LEMMA InvHolds == Spec => []MutexInv
  BY InvInit, InvStep, PTL DEF Spec

\* No two scripts hold one clean mutex, for any number of processes, objects, names
\* and handles, and whatever the scripts do.
THEOREM Exclusion == Spec => []MutualExclusion
<1>1. MutexInv => MutualExclusion
  BY DEF MutexInv, HeldIsOwned, MutualExclusion, TypeOK
<1> QED
  BY <1>1, InvHolds, PTL

------------------------------------------------------------------------------
(* Robust mutexes. *)

\* Every step keeps the agreement between the mutexes and the scripts: a mutex of a
\* running process is held by its script, and a dead owner of a robust one is marked.
LEMMA OwnersStep == MutexInv /\ OwnersKnown /\ [Next]_vars => OwnersKnown'
<1> SUFFICES ASSUME MutexInv, OwnersKnown, [Next]_vars PROVE OwnersKnown'
  OBVIOUS
<1> USE DEF MutexInv
<1>1. ASSUME NEW o \in Objs, NEW r \in BOOLEAN, NEW a, InitMutex(o, r, a),
             UNCHANGED <<status, held>>
      PROVE  OwnersKnown'
  BY <1>1 DEF OwnersKnown, InitMutex, TypeOK
<1>2. ASSUME UNCHANGED <<robust, owner, via, died, status, held>> PROVE OwnersKnown'
  BY <1>2 DEF OwnersKnown
<1>3. ASSUME NEW p \in Procs, CreateStep(p) PROVE OwnersKnown'
  <2>1. CASE CreateInit(p)
    <3>1. call[p].obj \in Objs /\ call[p].robust \in BOOLEAN
      BY <2>1, CallFields DEF CreateInit, Inside, TypeOK
    <3> QED
      BY <1>1, <2>1, <3>1 DEF CreateInit
  <2> QED
    BY <1>1, <1>2, <1>3, <2>1
    DEF CreateStep, CreateAnon, CreateOpen, CreateTruncate, Open, mutexVars
<1>4. ASSUME NEW p \in Procs, status[p] = "running", NEW o \in Objs, NEW h \in Handles,
             Grant(p, o, h)
      PROVE  OwnersKnown'
  <2>1. h # 0
    BY HandleAssumption DEF Handles
  <2> QED
    BY <1>4, <2>1 DEF OwnersKnown, Grant, TypeOK
<1>5. ASSUME NEW p \in Procs, NEW S, UnlockObjs(p, S) PROVE OwnersKnown'
  BY <1>5 DEF OwnersKnown, UnlockObjs, Released, TypeOK
<1>6. ASSUME NEW p \in Procs, NEW h \in Handles, Unmap(p, h) PROVE OwnersKnown'
  <2>1. "close_held" \notin Habits => via' = via
    <3> SUFFICES ASSUME "close_held" \notin Habits PROVE via' = via
      OBVIOUS
    <3>1. PICK lost \in SUBSET {o \in Objs : owner[o] = p} :
            /\ lost # {} => \E o \in lost : via[o] = h
            /\ via' = [o \in Objs |-> IF o \in lost THEN 0 ELSE via[o]]
      BY <1>6 DEF Unmap
    <3>2. \A o \in lost : via[o] # h
      BY <1>6, <3>1, MutexAssumption DEF Unmap, MayUnmap, Ready, OwnersKnown, TypeOK
    <3> QED
      BY <3>1, <3>2 DEF TypeOK
  <2> QED
    BY <1>6, <2>1 DEF OwnersKnown, Unmap
<1>7. ASSUME NEW p \in Procs, NEW h \in Handles, HandleStep(p, h) PROVE OwnersKnown'
  <2>1. CASE LockNow(p, h)
    BY <1>4, <2>1, Ranges DEF LockNow, Ready
  <2> QED
    BY <1>2, <1>5, <1>6, <1>7, <2>1
    DEF HandleStep, LockBlock, Unlock, Close, Destroy, mutexVars
<1>8. ASSUME NEW p \in Procs, LockWake(p) PROVE OwnersKnown'
  BY <1>4, <1>8, CallFields DEF LockWake, Inside, TypeOK
<1>9. ASSUME NEW p \in Procs, Exit(p) \/ Fault(p) PROVE OwnersKnown'
  <2>1. PICK U : Die(p, U)
    BY <1>9 DEF Exit, Fault
  <2>2. status[p] = "running"
    BY <1>9 DEF Exit, Fault, Ready
  <2>3. \A o \in Objs : /\ owner'[o] = owner[o] \/ owner'[o] = NoProc
                        /\ died'[o] <=> died[o] \/ (owner'[o] = p /\ robust[o] /\ via[o] # 0)
    BY <2>1 DEF Die, Released, Reachable, TypeOK
  <2>4. /\ status'[p] = "dead" /\ robust' = robust /\ via' = via
        /\ \A q \in Procs \ {p} : status'[q] = status[q] /\ held'[q] = held[q]
    BY <2>1 DEF Die, TypeOK
  <2> QED
    BY <2>2, <2>3, <2>4 DEF OwnersKnown, TypeOK
<1>10. ASSUME NEW p \in Procs, NEW c \in Procs, Fork(p, c) PROVE OwnersKnown'
  BY <1>10 DEF OwnersKnown, Fork, mutexVars, TypeOK
<1>11. CASE UNCHANGED vars
  BY <1>2, <1>11 DEF vars, mutexVars
<1>12. CASE Next
  <2>1. PICK p \in Procs : Step(p)
    BY <1>12 DEF Next
  <2> QED
    BY <1>2, <1>3, <1>5, <1>7, <1>8, <1>9, <1>10, <2>1
    DEF Step, LockTimeout, LockAgain, UnlockAll, mutexVars
<1> QED
  BY <1>11, <1>12

\* If no script unmaps what it holds, the kernel has marked every robust mutex whose
\* owner is gone: its next lock recovers it.
THEOREM RobustRecovery == Spec => []RobustMarked
<1>1. Init => OwnersKnown
  BY DEF Init, OwnersKnown
<1>2. Spec => []OwnersKnown
  BY <1>1, OwnersStep, InvHolds, PTL DEF Spec
<1>3. MutexInv /\ OwnersKnown => RobustMarked
  BY DEF MutexInv, TypeOK, OwnersKnown, RobustMarked
<1> QED
  BY <1>2, <1>3, InvHolds, PTL

------------------------------------------------------------------------------
(* Handles. *)

\* A handle that was given out and is unknown stays unknown, in every step.
THEOREM StaleHandles == Spec => StaleHandlesStayStale
<1>1. MutexInv /\ [Next]_vars =>
        [\A p \in Procs, h \in Handles :
           h < reg[p].next /\ ~Known(reg[p], h) => ~Known(reg'[p], h)]_vars
  <2> SUFFICES ASSUME MutexInv, Next, NEW p \in Procs, NEW h \in Handles,
                      h < reg[p].next, ~Known(reg[p], h)
               PROVE  ~Known(reg'[p], h)
    OBVIOUS
  <2> USE DEF MutexInv
  <2>1. ASSUME NEW q \in Procs, HasRoom(reg[q]), NEW o \in Objs, NEW n \in Names \cup {NoName},
               reg' = [reg EXCEPT ![q] = Store(reg[q], o, n)]
        PROVE  ~Known(reg'[p], h)
    <3>1. Store(reg[q], o, n).map[h]
            = IF h = reg[q].next THEN [obj |-> o, name |-> n] ELSE reg[q].map[h]
      BY <2>1, StoreType DEF TypeOK
    <3>2. h # reg[p].next
      BY HandleAssumption DEF TypeOK, Registries, Handles
    <3> QED
      BY <2>1, <3>1, <3>2 DEF Known, TypeOK
  <2>2. CASE reg' = reg
    BY <2>2
  <2>3. PICK q \in Procs : Step(q)
    BY DEF Next
  <2>4. CASE CreateStep(q)
    <3>1. CASE CreateInit(q)
      <4>1. call[q].obj \in Objs /\ call[q].name \in Names /\ HasRoom(reg[q])
        BY <3>1, CallFields DEF CreateInit, Inside, TypeOK, Reserved
      <4> QED
        BY <2>1, <3>1, <4>1 DEF CreateInit
    <3>2. ASSUME NEW n \in Names, Open(q, n) PROVE ~Known(reg'[p], h)
      BY <2>1, <3>2 DEF Open, TypeOK
    <3> QED
      BY <2>1, <2>2, <2>4, <3>1, <3>2 DEF CreateStep, CreateAnon, CreateOpen, CreateTruncate
  <2>5. ASSUME NEW i \in Handles, HandleStep(q, i) PROVE ~Known(reg'[p], h)
    <3>1. CASE Unmap(q, i)
      BY <3>1, TakeType DEF Unmap, Known, TypeOK
    <3> QED
      BY <2>2, <2>5, <3>1
      DEF HandleStep, LockNow, Grant, LockBlock, Unlock, UnlockObjs, Close, Destroy
  <2>6. CASE Exit(q) \/ Fault(q)
    BY <2>2, <2>6, EmptyType DEF Exit, Fault, Die, TypeOK
  <2>7. ASSUME NEW c \in Procs, Fork(q, c) PROVE ~Known(reg'[p], h)
    <3>1. p = c => reg[p].next = 1
      BY <2>7 DEF Fork, Reserved, EmptyRegistry
    <3>2. p # c
      BY <3>1, HandleAssumption DEF Handles
    <3> QED
      BY <2>7, <3>2 DEF Fork, TypeOK
  <2> QED
    BY <2>2, <2>3, <2>4, <2>5, <2>6, <2>7
    DEF Step, LockWake, LockAgain, Grant, LockTimeout, UnlockAll, UnlockObjs
<1> QED
  BY <1>1, InvHolds, PTL DEF Spec, StaleHandlesStayStale

------------------------------------------------------------------------------
(* Sleepers. *)

\* Nobody waits in lock for a mutex it owns.
Awake == \A p \in Procs :
  call[p].op = "lock" /\ stage[call[p].obj] = "ready" => owner[call[p].obj] # p

\* A step that gives no mutex to anybody, and starts no wait, keeps the sleepers apart
\* from what they own.
LEMMA AwakeFrame ==
  ASSUME MutexInv, Awake,
         \A o \in Objs : \/ owner'[o] = owner[o] /\ (stage'[o] = "ready" => stage[o] = "ready")
                         \/ owner'[o] = NoProc,
         \A q \in Procs : call'[q].op = "lock" =>
           call[q].op = "lock" /\ call'[q].obj = call[q].obj
  PROVE  Awake'
<1> SUFFICES ASSUME NEW q \in Procs, call'[q].op = "lock", stage'[call'[q].obj] = "ready"
             PROVE  owner'[call'[q].obj] # q
  BY DEF Awake
<1>1. call[q].op = "lock" /\ call'[q].obj = call[q].obj /\ call[q].obj \in Objs
  BY Ranges DEF MutexInv
<1> QED
  BY <1>1, MutexAssumption DEF Awake

\* A grant ends the wait of the process that gets the mutex.
LEMMA AwakeGrant ==
  ASSUME MutexInv, Awake, NEW p \in Procs, NEW o \in Objs, NEW h \in Handles, Grant(p, o, h),
         call'[p].op # "lock", \A q \in Procs \ {p} : call'[q] = call[q]
  PROVE  Awake'
<1> SUFFICES ASSUME NEW q \in Procs, call'[q].op = "lock", stage'[call'[q].obj] = "ready"
             PROVE  owner'[call'[q].obj] # q
  BY DEF Awake
<1>1. q # p /\ call'[q] = call[q]
  OBVIOUS
<1>2. stage' = stage /\ \A i \in Objs : owner'[i] = IF i = o THEN p ELSE owner[i]
  BY DEF Grant, MutexInv, TypeOK
<1>3. call[q].obj \in Objs
  BY <1>1, Ranges DEF MutexInv
<1> QED
  BY <1>1, <1>2, <1>3 DEF Awake

\* An error-checking mutex refuses to let its owner wait.
LEMMA AwakeBlock ==
  ASSUME MutexInv, Awake, NEW p \in Procs, NEW h \in Handles, LockBlock(p, h)
  PROVE  Awake'
<1> DEFINE o == reg[p].map[h].obj
<1>1. /\ stage' = stage /\ owner' = owner /\ (stage[o] = "ready" => owner[o] # p)
      /\ \E a : call'[p] = Blocked(o, h, a)
      /\ \A q \in Procs \ {p} : call'[q] = call[q]
  BY DEF LockBlock, MutexInv, TypeOK
<1>2. call'[p].obj = o
  BY <1>1 DEF Blocked
<1> QED
  BY <1>1, <1>2 DEF Awake

\* Every step keeps the sleepers apart from what they own.
LEMMA AwakeStep == MutexInv /\ Awake /\ [Next]_vars => Awake'
<1> SUFFICES ASSUME MutexInv, Awake, [Next]_vars PROVE Awake'
  OBVIOUS
<1>1. CASE UNCHANGED vars
  BY <1>1 DEF Awake, vars, mutexVars
<1>2. ASSUME NEW p \in Procs, Step(p) PROVE Awake'
  <2>1. ASSUME NEW o \in Objs, NEW r, NEW a, InitMutex(o, r, a),
               \A q \in Procs : call'[q].op = "lock" => call'[q] = call[q]
        PROVE  Awake'
    <3>1. \A i \in Objs : \/ owner'[i] = owner[i] /\ stage'[i] = stage[i]
                          \/ owner'[i] = NoProc
      BY <2>1 DEF InitMutex, MutexInv, TypeOK
    <3> QED
      BY <2>1, <3>1, AwakeFrame
  <2>2. CASE CreateStep(p)
    <3>1. ASSUME NEW o \in Objs, NEW r \in BOOLEAN, CreateAnon(p, o, r) PROVE Awake'
      BY <2>1, <3>1 DEF CreateAnon
    <3>2. ASSUME NEW o \in Objs, NEW r \in BOOLEAN, NEW n \in Names, CreateOpen(p, n, o, r)
          PROVE  Awake'
      <4>1. owner' = owner /\ \A i \in Objs : stage'[i] = "ready" => stage[i] = "ready"
        BY <3>2 DEF CreateOpen, MutexInv, TypeOK
      <4>2. \A q \in Procs : call'[q].op = "lock" => call'[q] = call[q]
        BY <3>2, OpNames DEF CreateOpen, MutexInv, TypeOK
      <4> QED
        BY <4>1, <4>2, AwakeFrame
    <3>3. CASE CreateTruncate(p)
      <4>1. owner' = owner /\ \A i \in Objs : stage'[i] = "ready" => stage[i] = "ready"
        BY <3>3 DEF CreateTruncate, MutexInv, TypeOK
      <4>2. \A q \in Procs : call'[q].op = "lock" => call'[q] = call[q]
        BY <3>3, OpNames DEF CreateTruncate, Inside, MutexInv, TypeOK
      <4> QED
        BY <4>1, <4>2, AwakeFrame
    <3>4. CASE CreateInit(p)
      <4>1. call[p].obj \in Objs
        BY <3>4, Ranges DEF CreateInit, Inside, MutexInv
      <4>2. \A q \in Procs : call'[q].op = "lock" => call'[q] = call[q]
        BY <3>4, OpNames DEF CreateInit, MutexInv, TypeOK
      <4> QED
        BY <2>1, <3>4, <4>1, <4>2 DEF CreateInit
    <3>5. ASSUME NEW n \in Names, Open(p, n) PROVE Awake'
      BY <3>5, AwakeFrame DEF Open, mutexVars
    <3> QED
      BY <2>2, <3>1, <3>2, <3>3, <3>4, <3>5 DEF CreateStep
  <2>3. ASSUME NEW U, owner' = Released(U), stage' = stage,
               \A q \in Procs : call'[q].op = "lock" =>
                 call[q].op = "lock" /\ call'[q].obj = call[q].obj
        PROVE  Awake'
    BY <2>3, AwakeFrame DEF Released
  <2>10. ASSUME NEW S, UnlockObjs(p, S) PROVE Awake'
    <3>1. \A q \in Procs : Alike(call'[q], call[q])
      BY <2>10, UnlockType DEF MutexInv
    <3> QED
      BY <2>3, <2>10, <3>1 DEF UnlockObjs, Alike
  <2>4. ASSUME NEW h \in Handles, HandleStep(p, h) PROVE Awake'
    <3>1. CASE LockNow(p, h)
      <4>1. reg[p].map[h].obj \in Objs /\ call[p].op # "lock"
        BY <3>1, Ranges, OpNames DEF LockNow, Ready, MutexInv
      <4> QED
        BY <3>1, <4>1, AwakeGrant DEF LockNow
    <3>2. CASE Unlock(p, h)
      BY <2>10, <3>2 DEF Unlock
    <3>3. CASE Unmap(p, h)
      BY <3>3, AwakeFrame DEF Unmap
    <3> QED
      BY <2>4, <3>1, <3>2, <3>3, AwakeBlock DEF HandleStep, Close, Destroy
  <2>5. CASE LockWake(p)
    <3>1. call[p].obj \in Objs /\ call[p].handle \in Handles /\ call'[p].op # "lock"
          /\ \A q \in Procs \ {p} : call'[q] = call[q]
      BY <2>5, Ranges, CallFields, OpNames DEF LockWake, Inside, MutexInv, TypeOK
    <3> QED
      BY <2>5, <3>1, AwakeGrant DEF LockWake
  <2>6. CASE LockTimeout(p)
    <3>1. \A q \in Procs : call'[q].op = "lock" => call'[q] = call[q]
      BY <2>6, OpNames DEF LockTimeout, MutexInv, TypeOK
    <3> QED
      BY <2>6, <3>1, AwakeFrame DEF LockTimeout, mutexVars
  <2>7. CASE UnlockAll(p)
    BY <2>10, <2>7 DEF UnlockAll
  <2>8. CASE Exit(p) \/ Fault(p)
    <3>1. PICK U : Die(p, U)
      BY <2>8 DEF Exit, Fault
    <3>2. \A q \in Procs : call'[q].op = "lock" =>
            call[q].op = "lock" /\ call'[q].obj = call[q].obj
      BY <3>1, DieType, OpNames DEF MutexInv, Alike
    <3> QED
      BY <2>3, <3>1, <3>2 DEF Die
  <2>9. ASSUME NEW c \in Procs, Fork(p, c) PROVE Awake'
    BY <2>9, AwakeFrame DEF Fork, mutexVars
  <2>11. CASE LockAgain(p)
    <3>1. \A q \in Procs : Alike(call'[q], call[q])
      BY <2>11, AgainCall DEF MutexInv
    <3> QED
      BY <2>11, <3>1, AwakeFrame DEF LockAgain, Alike
  <2> QED
    BY <1>2, <2>2, <2>4, <2>5, <2>6, <2>7, <2>8, <2>9, <2>11 DEF Step
<1> QED
  BY <1>1, <1>2 DEF Next

\* Nobody sleeps on a mutex it owns itself, although objects are created anew, recovered
\* and unlocked under the sleepers.
THEOREM NoSelfSleep == Spec => []NoSelfDeadlock
<1>1. Init => Awake
  BY OpNames DEF Init, Awake
<1>2. Spec => []Awake
  BY <1>1, AwakeStep, InvHolds, PTL DEF Spec
<1>3. Awake => NoSelfDeadlock
  BY DEF Awake, NoSelfDeadlock, Inside
<1> QED
  BY <1>2, <1>3, PTL

------------------------------------------------------------------------------
(* Wake-ups. *)

\* WakesKept of one mutex.
KeptAt(o) ==
  stage[o] = "ready" =>
    \A p \in Sleepers(o) \ adrift :
      /\ call[p].at = "asleep"
      /\ (waiters[o] /\ ~Obtainable(o)) \/ Waiting(o, {"woken"}) # {}

\* A step that brings o no sleeper, takes no woken process from it, and leaves an owner
\* told of the sleepers in place.
LEMMA KeptFrame ==
  ASSUME NEW o \in Objs, KeptAt(o), stage'[o] = "ready" => stage[o] = "ready",
         \A q \in Sleepers(o)' \ adrift' : q \in Sleepers(o) \ adrift /\ call'[q] = call[q],
         Waiting(o, {"woken"}) \subseteq Waiting(o, {"woken"})',
         waiters[o] /\ ~Obtainable(o) => waiters'[o] /\ ~Obtainable(o)'
  PROVE  KeptAt(o)'
  BY DEF KeptAt

\* After a step that tells the owner of o of the sleepers.
LEMMA KeptAnnounce ==
  ASSUME TypeOK, NEW p \in Procs, NEW o \in Objs, KeptAt(o), Announce(p, o), ~Obtainable(o)',
         stage' = stage, \A q \in Procs \ {p} : call'[q] = call[q],
         p \in Sleepers(o)' /\ stage[o] = "ready" => call'[p].at = "asleep"
  PROVE  KeptAt(o)'
<1> SUFFICES ASSUME stage[o] = "ready", NEW q \in Sleepers(o)' \ adrift'
             PROVE  call'[q].at = "asleep" /\ waiters'[o]
  BY DEF KeptAt
<1>1. waiters'[o] /\ adrift' = adrift \ (Asleep(o) \cup {p})
  BY DEF Announce, TypeOK
<1>2. CASE q = p
  BY <1>1, <1>2
<1>3. CASE q # p
  <2>1. q \in Sleepers(o) /\ call'[q] = call[q]
    BY <1>3 DEF Sleepers, Waiting
  <2>2. call[q].at # "asleep" => q \notin Asleep(o)
    BY DEF Asleep, Waiting
  <2> QED
    BY <1>1, <1>3, <2>1, <2>2 DEF KeptAt
<1> QED
  BY <1>2, <1>3

\* A wait for one mutex says nothing of another.
LEMMA KeptElsewhere ==
  ASSUME TypeOK, NEW p \in Procs, NEW o \in Objs, NEW i \in Objs \ {o}, KeptAt(i),
         stage' = stage, owner'[i] = owner[i], died'[i] = died[i], Announce(p, o),
         \A q \in Procs \ {p} : call'[q] = call[q],
         p \notin Sleepers(i)', p \notin Waiting(i, {"woken"})
  PROVE  KeptAt(i)'
<1>1. waiters'[i] = waiters[i] /\ adrift' = adrift \ (Asleep(o) \cup {p})
  BY DEF Announce, TypeOK
<1>2. \A q \in Sleepers(i)' \ adrift' : q \in Sleepers(i) \ adrift /\ call'[q] = call[q]
  BY <1>1 DEF Sleepers, Asleep, Waiting
<1>3. Waiting(i, {"woken"}) \subseteq Waiting(i, {"woken"})'
  BY DEF Waiting
<1> QED
  BY <1>1, <1>2, <1>3, KeptFrame DEF Obtainable

\* A step that sets nobody's lock going or waiting, nor anybody adrift.
LEMMA KeptStill ==
  ASSUME TypeOK, NEW p \in Procs, NEW o \in Objs, KeptAt(o),
         stage'[o] = "ready" => stage[o] = "ready",
         owner'[o] = owner[o], died'[o] = died[o], waiters'[o] = waiters[o],
         adrift \subseteq adrift', \A q \in Procs \ {p} : call'[q] = call[q],
         call[p].op # "lock" /\ call'[p].op # "lock"
  PROVE  KeptAt(o)'
<1>1. \A q \in Sleepers(o)' \ adrift' : q \in Sleepers(o) \ adrift /\ call'[q] = call[q]
  BY DEF Sleepers, Waiting
<1>2. Waiting(o, {"woken"}) \subseteq Waiting(o, {"woken"})'
  BY DEF Waiting
<1> QED
  BY <1>1, <1>2, KeptFrame DEF Obtainable

\* What a wake-up does to the sleepers of a mutex: one of those it was for is woken.
LEMMA KeptWake ==
  ASSUME TypeOK, NEW p \in Procs, NEW O, NEW W \in Wakes(O, p),
         call' = Woken(W, [call EXCEPT ![p] = Idle]), NEW o \in Objs
  PROVE  /\ \A q \in Sleepers(o)' : q \in Sleepers(o) /\ q \notin W /\ q # p /\ call'[q] = call[q]
         /\ Waiting(o, {"woken"}) \ {p} \subseteq Waiting(o, {"woken"})'
         /\ \A q \in Sleepers(o)' :
              o \in O /\ call[q].at = "asleep" => Waiting(o, {"woken"})' # {}
<1>1. /\ \A q \in Procs \ ({p} \cup W) : call'[q] = call[q]
      /\ \A q \in W : call'[q].at = "woken"
      /\ \A q \in Procs \ {p} : Alike(call'[q], call[q])
      /\ call'[p].op = "idle"
  <2>1. /\ \A q \in Procs \ {p} : Alike(call'[q], call[q])
        /\ call'[p].op = "idle"
    BY WakeCalls, CallTypes, OpNames
  <2>2. \A q \in Procs : /\ q \in W => call'[q].at = "woken"
                         /\ q # p /\ q \notin W => call'[q] = call[q]
    BY WakeMoves, CallTypes
  <2>3. \A q \in W : q \in Procs
    BY WakesAsleep
  <2> QED
    BY <2>1, <2>2, <2>3
<1>2. \A q \in Sleepers(o)' : q \in Sleepers(o) /\ q \notin W /\ q # p /\ call'[q] = call[q]
  BY <1>1 DEF Sleepers, Waiting
<1>3. \A q \in Waiting(o, {"woken"}) : q \notin W
  BY WakesAsleep DEF Waiting
<1>4. Waiting(o, {"woken"}) \ {p} \subseteq Waiting(o, {"woken"})'
  BY <1>1, <1>3 DEF Waiting
<1>5. ASSUME NEW q \in Sleepers(o)', o \in O, call[q].at = "asleep"
      PROVE  Waiting(o, {"woken"})' # {}
  <2>1. q \in Asleep(o) /\ q # p
    BY <1>2, <1>5 DEF Sleepers, Asleep, Waiting
  <2>2. PICK w \in W : W \cap Asleep(o) = {w}
    BY <1>5, <2>1 DEF Wakes
  <2>3. w \in Asleep(o) /\ w # p /\ w \in Procs
    BY <2>2, WakesAsleep
  <2>4. w \in Waiting(o, {"woken"})'
    BY <1>1, <2>2, <2>3 DEF Asleep, Waiting, Alike
  <2> QED
    BY <2>4
<1> QED
  BY <1>2, <1>4, <1>5

\* An unlock wakes one of the sleepers it was told of.
LEMMA KeptUnlock ==
  ASSUME TypeOK, NEW p \in Procs, call[p] = Idle, NEW S, UnlockObjs(p, S),
         NEW o \in Objs, KeptAt(o)
  PROVE  KeptAt(o)'
<1> DEFINE U == Unlockable(p, S)
           O == {i \in U : waiters[i]}
<1>1. PICK W \in Wakes(O, p) : call' = Woken(W, call) /\ adrift' = adrift \ W
  BY DEF UnlockObjs
<1>2. /\ stage' = stage /\ died' = died
      /\ owner'[o] = IF o \in U THEN NoProc ELSE owner[o]
      /\ waiters'[o] <=> waiters[o] /\ o \notin U
  BY DEF UnlockObjs, Released, TypeOK
<1> HIDE DEF U
<1>3. Idle.op = "idle" /\ call = [call EXCEPT ![p] = Idle]
  BY OpNames DEF TypeOK
<1>4. /\ \A q \in Sleepers(o)' : q \in Sleepers(o) /\ q \notin W /\ q # p /\ call'[q] = call[q]
      /\ Waiting(o, {"woken"}) \ {p} \subseteq Waiting(o, {"woken"})'
      /\ \A q \in Sleepers(o)' : o \in O /\ call[q].at = "asleep" => Waiting(o, {"woken"})' # {}
  BY <1>1, <1>3, KeptWake
<1>5. p \notin Waiting(o, {"woken"})
  BY <1>3 DEF Waiting
<1>6. CASE o \in O
  BY <1>1, <1>2, <1>4, <1>6 DEF KeptAt
<1>7. CASE o \notin O
  <2>1. waiters[o] /\ ~Obtainable(o) => waiters'[o] /\ ~Obtainable(o)'
    BY <1>2, <1>7 DEF Obtainable
  <2> QED
    BY <1>1, <1>2, <1>4, <1>5, <2>1, KeptFrame
<1> QED
  BY <1>6, <1>7

\* The end of a process wakes one of the sleepers of what it leaves free or marked, and
\* passes on a wake-up that had gone to it, or sets the others adrift.
LEMMA KeptDie ==
  ASSUME TypeOK, NEW p \in Procs, NEW U, Die(p, U), NEW o \in Objs, KeptAt(o)
  PROVE  KeptAt(o)'
<1> DEFINE O == {i \in U \cup Reachable(p, U) : waiters[i]} \cup Pending(p)
           L == UNION {Sleepers(i) : i \in LostWith(p)}
<1>1. PICK W \in Wakes(O, p) :
        /\ call' = Woken(W, [call EXCEPT ![p] = Idle])
        /\ adrift' = (adrift \cup L) \ (W \cup {p})
  BY DEF Die
<1>2. /\ stage' = stage
      /\ owner'[o] = IF o \in U THEN NoProc ELSE owner[o]
      /\ died'[o] <=> died[o] \/ o \in Reachable(p, U)
      /\ waiters'[o] <=> waiters[o] /\ o \notin U
  BY DEF Die, Released, TypeOK
<1> HIDE DEF O, L
<1>3. call' = Woken(W, [call EXCEPT ![p] = Idle])
  BY <1>1
<1>4. /\ \A q \in Sleepers(o)' : q \in Sleepers(o) /\ q \notin W /\ q # p /\ call'[q] = call[q]
      /\ Waiting(o, {"woken"}) \ {p} \subseteq Waiting(o, {"woken"})'
      /\ \A q \in Sleepers(o)' : o \in O /\ call[q].at = "asleep" => Waiting(o, {"woken"})' # {}
  BY <1>3, KeptWake
<1>5. \A q \in Sleepers(o)' \ adrift' : q \in Sleepers(o) \ adrift /\ call'[q] = call[q]
  BY <1>1, <1>4
<1> USE DEF O
<1>6. CASE o \in LostWith(p)
  <2>1. Sleepers(o) \subseteq L
    BY <1>6 DEF L
  <2>2. Sleepers(o)' \subseteq adrift'
    BY <1>1, <1>4, <2>1
  <2> QED
    BY <2>2 DEF KeptAt
<1>7. CASE o \in O
  BY <1>2, <1>4, <1>5, <1>7 DEF KeptAt
<1>8. CASE o \notin O /\ o \notin LostWith(p)
  <2>1. waiters[o] /\ ~Obtainable(o) => waiters'[o] /\ ~Obtainable(o)'
    BY <1>2, <1>8 DEF Obtainable
  <2>2. CASE p \in Waiting(o, {"woken"})
    <3>1. waiters[o] /\ ~Obtainable(o)
      BY <1>8, <2>2 DEF LostWith, Obtainable, TypeOK
    <3> QED
      BY <1>2, <1>5, <2>1, <3>1 DEF KeptAt
  <2>3. CASE p \notin Waiting(o, {"woken"})
    BY <1>2, <1>4, <1>5, <2>1, <2>3, KeptFrame
  <2> QED
    BY <2>2, <2>3
<1> QED
  BY <1>6, <1>7, <1>8

\* A lock, granted at once or after a sleep, and a sleep keep the wake-ups: who overtakes
\* the sleepers leaves a woken one behind it, and who has slept tells of the others.
LEMMA KeptLock ==
  ASSUME MutexInv, NEW p \in Procs, NEW o \in Objs, KeptAt(o),
         \/ \E h \in Handles : LockNow(p, h) \/ LockBlock(p, h)
         \/ LockWake(p) \/ LockAgain(p)
  PROVE  KeptAt(o)'
<1> USE DEF MutexInv
<1>1. ASSUME NEW h \in Handles, LockNow(p, h) PROVE KeptAt(o)'
  <2> DEFINE i == reg[p].map[h].obj
  <2>1. /\ stage' = stage /\ call' = call /\ waiters' = waiters /\ adrift' = adrift
        /\ Obtainable(i) /\ (o # i => owner'[o] = owner[o] /\ died'[o] = died[o])
    BY <1>1, Ranges DEF LockNow, Grant, TypeOK
  <2>2. Sleepers(o)' = Sleepers(o) /\ Waiting(o, {"woken"})' = Waiting(o, {"woken"})
    BY <2>1 DEF Sleepers, Waiting
  <2>3. ~Obtainable(o) => ~Obtainable(o)'
    BY <2>1 DEF Obtainable
  <2> QED
    BY <2>1, <2>2, <2>3, KeptFrame
<1>2. ASSUME NEW i \in Objs, Announce(p, i), ~Obtainable(i)', stage' = stage,
             o # i => owner'[o] = owner[o] /\ died'[o] = died[o],
             \A q \in Procs \ {p} : call'[q] = call[q],
             p \in Sleepers(i)' /\ stage[i] = "ready" => call'[p].at = "asleep",
             o # i => p \notin Sleepers(o)' /\ p \notin Waiting(o, {"woken"})
      PROVE  KeptAt(o)'
  <2>1. CASE o = i
    BY <1>2, <2>1, KeptAnnounce
  <2>2. CASE o # i
    BY <1>2, <2>2, KeptElsewhere
  <2> QED
    BY <2>1, <2>2
<1>3. ASSUME NEW h \in Handles, LockBlock(p, h) PROVE KeptAt(o)'
  <2>7. PICK i \in Objs : i = reg[p].map[h].obj
    BY <1>3, Ranges DEF LockBlock
  <2> DEFINE a == IF stage[i] = "ready" THEN "asleep" ELSE "private"
  <2>1. /\ Announce(p, i) /\ ~Obtainable(i)
        /\ UNCHANGED <<stage, owner, died>>
        /\ call[p] = Idle /\ call' = [call EXCEPT ![p] = Blocked(i, h, a)]
    BY <1>3, <2>7 DEF LockBlock, Ready
  <2>2. call'[p] = Blocked(i, h, a) /\ \A q \in Procs \ {p} : call'[q] = call[q]
    BY <2>1 DEF TypeOK
  <2>3. call'[p].obj = i /\ call'[p].at = a
    BY <2>2 DEF Blocked
  <2>4. p \notin Waiting(o, {"woken"})
    BY <2>1, OpNames DEF Waiting
  <2>5. o # i => p \notin Sleepers(o)'
    BY <2>3 DEF Sleepers, Waiting
  <2>6. ~Obtainable(i)'
    BY <2>1 DEF Obtainable
  <2> QED
    BY <1>2, <2>1, <2>2, <2>3, <2>4, <2>5, <2>6
<1>4. CASE LockWake(p)
  <2>5. PICK i \in Objs : i = call[p].obj
    BY <1>4, Ranges DEF LockWake, Inside
  <2>1. /\ Announce(p, i) /\ stage' = stage /\ call[p].op = "lock"
        /\ owner' = [owner EXCEPT ![i] = p] /\ died' = [died EXCEPT ![i] = FALSE]
        /\ call' = [call EXCEPT ![p] = Idle]
    BY <1>4, <2>5 DEF LockWake, Inside, Grant
  <2>2. /\ \A q \in Procs \ {p} : call'[q] = call[q]
        /\ ~Obtainable(i)'
        /\ o # i => owner'[o] = owner[o] /\ died'[o] = died[o]
    BY <2>1, MutexAssumption DEF TypeOK, Obtainable
  <2>3. \A j : p \notin Sleepers(j)'
    BY <2>1, OpNames DEF Sleepers, Waiting, TypeOK
  <2>4. o # i => p \notin Waiting(o, {"woken"})
    BY <2>5 DEF Waiting
  <2> QED
    BY <1>2, <2>1, <2>2, <2>3, <2>4
<1>5. CASE LockAgain(p)
  <2>5. PICK i \in Objs : i = call[p].obj
    BY <1>5, Ranges DEF LockAgain, Inside
  <2>1. /\ Announce(p, i) /\ ~Obtainable(i)
        /\ UNCHANGED <<stage, owner, died>>
    BY <1>5, <2>5 DEF LockAgain, Inside
  <2>2. /\ \A q \in Procs \ {p} : call'[q] = call[q]
        /\ call'[p].obj = i /\ call'[p].at = "asleep"
    <3>1. call[p] \in [op : {"lock"}, obj : Objs, handle : Handles, at : Places]
      BY <1>5 DEF TypeOK, LockAgain, Inside, Calls, Idle
    <3>2. call' = [call EXCEPT ![p] = [call[p] EXCEPT !.at = "asleep"]]
      BY <1>5 DEF LockAgain
    <3> QED
      BY <2>5, <3>1, <3>2 DEF TypeOK
  <2>3. o # i => p \notin Sleepers(o)' /\ p \notin Waiting(o, {"woken"})
    BY <2>2, <2>5 DEF Sleepers, Waiting
  <2>4. ~Obtainable(i)'
    BY <2>1 DEF Obtainable
  <2> QED
    BY <1>2, <2>1, <2>2, <2>3, <2>4
<1> QED
  BY <1>1, <1>3, <1>4, <1>5

\* Creating and opening: an initialisation sets adrift whoever sleeps on the mutex.
LEMMA KeptCreate ==
  ASSUME MutexInv, NEW p \in Procs, NEW o \in Objs, KeptAt(o), CreateStep(p)
  PROVE  KeptAt(o)'
<1> USE DEF MutexInv
<1>1. ASSUME NEW i \in Objs, NEW r, NEW a, InitMutex(i, r, a),
             \A q \in Procs \ {p} : call'[q] = call[q],
             call[p].op # "lock" /\ call'[p].op # "lock"
      PROVE  KeptAt(o)'
  <2>1. CASE o = i
    <3>1. Sleepers(o)' \subseteq Sleepers(o)
      BY <1>1 DEF Sleepers, Waiting
    <3>2. Sleepers(o) \subseteq adrift'
      BY <1>1, <2>1 DEF InitMutex
    <3> QED
      BY <3>1, <3>2 DEF KeptAt
  <2>2. CASE o # i
    <3>1. /\ stage'[o] = stage[o] /\ owner'[o] = owner[o] /\ died'[o] = died[o]
          /\ waiters'[o] = waiters[o] /\ adrift \subseteq adrift'
      BY <1>1, <2>2 DEF InitMutex, TypeOK
    <3> QED
      BY <1>1, <3>1, KeptStill
  <2> QED
    BY <2>1, <2>2
<1>2. ASSUME UNCHANGED <<owner, died, waiters, adrift>>,
             stage'[o] = "ready" => stage[o] = "ready",
             \A q \in Procs \ {p} : call'[q] = call[q],
             call[p].op # "lock" /\ call'[p].op # "lock"
      PROVE  KeptAt(o)'
  BY <1>2, KeptStill
<1>3. ASSUME NEW r \in BOOLEAN, NEW i \in Objs, CreateAnon(p, i, r) PROVE KeptAt(o)'
  BY <1>1, <1>3, OpNames DEF CreateAnon, Ready
<1>4. ASSUME NEW r \in BOOLEAN, NEW i \in Objs, NEW n \in Names, CreateOpen(p, n, i, r)
      PROVE  KeptAt(o)'
  <2>1. stage'[o] = "ready" => stage[o] = "ready"
    BY <1>4 DEF CreateOpen, TypeOK
  <2> QED
    BY <1>2, <1>4, <2>1, OpNames DEF CreateOpen, Ready, TypeOK
<1>5. CASE CreateTruncate(p)
  <2>1. stage'[o] = "ready" => stage[o] = "ready"
    BY <1>5 DEF CreateTruncate, TypeOK
  <2>2. /\ call[p].op = "create" /\ call'[p].op = "create"
        /\ \A q \in Procs \ {p} : call'[q] = call[q]
    BY <1>5, OpNames DEF CreateTruncate, Inside, TypeOK
  <2> QED
    BY <1>2, <1>5, <2>1, <2>2 DEF CreateTruncate
<1>6. CASE CreateInit(p)
  <2>1. /\ call[p].op = "create" /\ call'[p].op = "idle" /\ call[p].obj \in Objs
        /\ \A q \in Procs \ {p} : call'[q] = call[q]
    BY <1>6, Ranges, OpNames DEF CreateInit, Inside, TypeOK
  <2> QED
    BY <1>1, <1>6, <2>1 DEF CreateInit
<1>7. ASSUME NEW n \in Names, Open(p, n) PROVE KeptAt(o)'
  BY <1>2, <1>7, OpNames DEF Open, mutexVars, Ready
<1> QED
  BY <1>3, <1>4, <1>5, <1>6, <1>7 DEF CreateStep

\* Every step keeps the wake-ups.
LEMMA KeptStep == MutexInv /\ WakesKept /\ [Next]_vars => WakesKept'
<1> SUFFICES ASSUME MutexInv, WakesKept, [Next]_vars, NEW o \in Objs PROVE KeptAt(o)'
  BY DEF WakesKept, KeptAt
<1>1. KeptAt(o)
  BY DEF WakesKept, KeptAt
<1>2. ASSUME UNCHANGED <<stage, owner, died, waiters, call, adrift>> PROVE KeptAt(o)'
  BY <1>1, <1>2 DEF KeptAt, Sleepers, Waiting, Obtainable
<1>3. ASSUME NEW p \in Procs, Step(p) PROVE KeptAt(o)'
  <2>1. ASSUME Ready(p), NEW S, UnlockObjs(p, S) PROVE KeptAt(o)'
    BY <1>1, <2>1, KeptUnlock DEF Ready, MutexInv
  <2>2. ASSUME NEW h \in Handles, HandleStep(p, h) PROVE KeptAt(o)'
    BY <1>1, <1>2, <2>1, <2>2, KeptLock DEF HandleStep, Unlock, Close, Destroy, Unmap
  <2>3. CASE LockTimeout(p)
    <3>1. /\ UNCHANGED <<stage, owner, died, waiters>> /\ adrift' = adrift \ {p}
          /\ call[p].at # "woken" /\ call'[p].op = "idle"
          /\ \A q \in Procs \ {p} : call'[q] = call[q]
      BY <2>3, OpNames DEF LockTimeout, mutexVars, MutexInv, TypeOK
    <3>2. /\ \A q \in Sleepers(o)' \ adrift' : q \in Sleepers(o) \ adrift /\ call'[q] = call[q]
          /\ Waiting(o, {"woken"}) \subseteq Waiting(o, {"woken"})'
      BY <3>1 DEF Sleepers, Waiting
    <3> QED
      BY <1>1, <3>1, <3>2, KeptFrame DEF Obtainable
  <2>4. ASSUME NEW U, Die(p, U) PROVE KeptAt(o)'
    BY <1>1, <2>4, KeptDie DEF MutexInv
  <2>5. CASE Exit(p) \/ Fault(p)
    BY <2>4, <2>5 DEF Exit, Fault
  <2>6. ASSUME NEW c \in Procs, Fork(p, c) PROVE KeptAt(o)'
    BY <1>2, <2>6 DEF Fork, mutexVars
  <2> QED
    BY <1>1, <1>3, <2>1, <2>2, <2>3, <2>5, <2>6, KeptCreate, KeptLock DEF Step, UnlockAll
<1>4. CASE UNCHANGED vars
  BY <1>2, <1>4 DEF vars, mutexVars
<1> QED
  BY <1>3, <1>4 DEF Next

\* No wake-up is lost but to those adrift: whenever a mutex can be had and a process sleeps
\* on it, another was woken and will try.
THEOREM NoLostWake == Spec => []SleepersWoken
<1>1. Init => WakesKept
  BY DEF Init, WakesKept
<1>2. Spec => []WakesKept
  BY <1>1, KeptStep, InvHolds, PTL DEF Spec
<1>3. WakesKept => SleepersWoken
  BY DEF WakesKept, SleepersWoken
<1> QED
  BY <1>2, <1>3, PTL

------------------------------------------------------------------------------
(* Unlocking everything. *)

\* A mutex is locked through a handle its owner still has, unless scripts unmap what
\* they hold; and so is one that somebody waits for.
Through ==
  "close_held" \notin Habits =>
    /\ \A p \in Procs, h \in Handles : Known(reg[p], h) => h < reg[p].next
    /\ \A o \in Objs : owner[o] # NoProc /\ status[owner[o]] = "running" =>
         /\ via[o] \in Handles /\ Known(reg[owner[o]], via[o])
         /\ reg[owner[o]].map[via[o]].obj = o
    /\ \A p \in Procs : call[p].op = "lock" =>
         /\ Known(reg[p], call[p].handle) /\ reg[p].map[call[p].handle].obj = call[p].obj

\* A store by a process that is not asleep in lock, with no mutex changing hands.
LEMMA ThroughStore ==
  ASSUME MutexInv, Through, NEW p \in Procs, HasRoom(reg[p]), NEW o \in Objs,
         NEW n \in Names \cup {NoName}, reg' = [reg EXCEPT ![p] = Store(reg[p], o, n)],
         \A i \in Objs : owner'[i] = NoProc \/ (owner'[i] = owner[i] /\ via'[i] = via[i]),
         \A q \in Procs : call'[q].op = "lock" => call'[q] = call[q],
         UNCHANGED status
  PROVE  Through'
<1> SUFFICES ASSUME "close_held" \notin Habits PROVE Through'
  BY DEF Through
<1>1. /\ \A h \in Handles : Store(reg[p], o, n).map[h]
                              = IF h = reg[p].next THEN [obj |-> o, name |-> n] ELSE reg[p].map[h]
      /\ Store(reg[p], o, n).next = reg[p].next + 1
      /\ reg[p].next \in Nat
  BY StoreType, HandleAssumption DEF MutexInv, TypeOK, Store, Registries
<1>2. \A q \in Procs, h \in Handles : Known(reg'[q], h) => h < reg'[q].next
  BY <1>1, HandleAssumption DEF Through, MutexInv, TypeOK, Known, Handles
<1>3. \A q \in Procs, h \in Handles : Known(reg[q], h) =>
        Known(reg'[q], h) /\ reg'[q].map[h] = reg[q].map[h]
  BY <1>1, HandleAssumption DEF Through, MutexInv, TypeOK, Known, Handles
<1>4. \A q \in Procs : call[q].op = "lock" => call[q].handle \in Handles
  BY CallFields DEF MutexInv, TypeOK
<1> QED
  BY <1>2, <1>3, <1>4 DEF Through, MutexInv, TypeOK

\* A step that leaves the registries alone, and in which nobody gets a mutex or starts to wait.
LEMMA ThroughFrame ==
  ASSUME MutexInv, Through, UNCHANGED <<reg, status>>,
         \A i \in Objs : owner'[i] = NoProc \/ (owner'[i] = owner[i] /\ via'[i] = via[i]),
         \A q \in Procs : call'[q].op = "lock" => Alike(call'[q], call[q])
  PROVE  Through'
  BY DEF Through, MutexInv, TypeOK, Alike

\* A mutex granted through a handle of it.
LEMMA ThroughGrant ==
  ASSUME MutexInv, Through, NEW p \in Procs, NEW h \in Handles, NEW o \in Objs, Grant(p, o, h),
         "close_held" \notin Habits => Known(reg[p], h) /\ reg[p].map[h].obj = o,
         \A q \in Procs : call'[q].op = "lock" => call'[q] = call[q]
  PROVE  Through'
  BY DEF Through, Grant, MutexInv, TypeOK

\* Every step keeps the handles of what is locked or waited for.
LEMMA ThroughStep == MutexInv /\ OwnersKnown /\ Through /\ [Next]_vars => Through'
<1> SUFFICES ASSUME MutexInv, OwnersKnown, Through, [Next]_vars PROVE Through'
  OBVIOUS
<1>1. CASE UNCHANGED vars
  BY <1>1, ThroughFrame DEF vars, mutexVars, Alike
<1>2. ASSUME NEW p \in Procs, Step(p) PROVE Through'
  <2>1. ASSUME NEW o \in Objs, NEW r, NEW a, InitMutex(o, r, a)
        PROVE  \A i \in Objs : owner'[i] = NoProc \/ (owner'[i] = owner[i] /\ via'[i] = via[i])
    BY <2>1 DEF InitMutex, MutexInv, TypeOK
  <2>2. CASE CreateStep(p)
    <3>1. ASSUME NEW o \in Objs, NEW r \in BOOLEAN, CreateAnon(p, o, r) PROVE Through'
      BY <2>1, <3>1, ThroughStore DEF CreateAnon
    <3>2. ASSUME NEW o \in Objs, NEW r \in BOOLEAN, NEW n \in Names, CreateOpen(p, n, o, r)
          PROVE  Through'
      <4>1. \A q \in Procs : call'[q].op = "lock" => call'[q] = call[q]
        BY <3>2, OpNames DEF CreateOpen, MutexInv, TypeOK
      <4> QED
        BY <3>2, <4>1, ThroughFrame DEF CreateOpen, Alike
    <3>3. CASE CreateTruncate(p)
      <4>1. \A q \in Procs : call'[q].op = "lock" => call'[q] = call[q]
        BY <3>3, OpNames DEF CreateTruncate, Inside, MutexInv, TypeOK
      <4> QED
        BY <3>3, <4>1, ThroughFrame DEF CreateTruncate, Alike
    <3>4. CASE CreateInit(p)
      <4>1. call[p].obj \in Objs /\ call[p].name \in Names /\ HasRoom(reg[p])
        BY <3>4, CallFields DEF CreateInit, Inside, MutexInv, TypeOK, Reserved
      <4>2. \A q \in Procs : call'[q].op = "lock" => call'[q] = call[q]
        BY <3>4, OpNames DEF CreateInit, MutexInv, TypeOK
      <4> QED
        BY <2>1, <3>4, <4>1, <4>2, ThroughStore DEF CreateInit
    <3>5. ASSUME NEW n \in Names, Open(p, n) PROVE Through'
      <4>1. bound[n] \in Objs
        BY <3>5 DEF Open, MutexInv, TypeOK
      <4> QED
        BY <3>5, <4>1, ThroughStore DEF Open, mutexVars
    <3> QED
      BY <2>2, <3>1, <3>2, <3>3, <3>4, <3>5 DEF CreateStep
  <2>3. ASSUME NEW S, UnlockObjs(p, S) PROVE Through'
    <3>1. \A q \in Procs : Alike(call'[q], call[q])
      BY <2>3, UnlockType DEF MutexInv
    <3> QED
      BY <2>3, <3>1, ThroughFrame DEF UnlockObjs, Released
  <2>4. ASSUME NEW h \in Handles, HandleStep(p, h) PROVE Through'
    <3>1. CASE LockNow(p, h)
      <4>1. reg[p].map[h].obj \in Objs
        BY <3>1, Ranges DEF LockNow, MutexInv
      <4> QED
        BY <3>1, <4>1, ThroughGrant DEF LockNow
    <3>2. CASE LockBlock(p, h)
      <4>1. /\ \A q \in Procs \ {p} : call'[q] = call[q]
            /\ \E a : call'[p] = Blocked(reg[p].map[h].obj, h, a)
            /\ Known(reg[p], h)
            /\ UNCHANGED <<owner, via, status, reg>>
        BY <3>2 DEF LockBlock, MutexInv, TypeOK
      <4> QED
        BY <4>1 DEF Through, Blocked
    <3>3. CASE Unmap(p, h)
      <4> SUFFICES ASSUME "close_held" \notin Habits PROVE Through'
        BY DEF Through
      <4>1. \A o \in Objs : owner[o] = p => via[o] # h
        BY <3>3, MutexAssumption DEF Unmap, MayUnmap, Ready, OwnersKnown, MutexInv, TypeOK
      <4>2. via' = via
        <5>1. PICK lost \in SUBSET {o \in Objs : owner[o] = p} :
                /\ lost # {} => \E o \in lost : via[o] = h
                /\ via' = [o \in Objs |-> IF o \in lost THEN 0 ELSE via[o]]
          BY <3>3 DEF Unmap
        <5> QED
          BY <4>1, <5>1 DEF MutexInv, TypeOK
      <4>3. /\ \A i \in Handles : Take(reg[p], h).map[i] = IF i = h THEN NoEntry ELSE reg[p].map[i]
            /\ Take(reg[p], h).next = reg[p].next
        BY TakeType DEF Take, MutexInv, TypeOK, Registries
      <4>4. \A q \in Procs, i \in Handles :
              /\ Known(reg'[q], i) => Known(reg[q], i) /\ reg'[q].next = reg[q].next
              /\ q # p \/ i # h => reg'[q].map[i] = reg[q].map[i]
        BY <3>3, <4>3 DEF Unmap, Known, MutexInv, TypeOK
      <4>5. call[p].op # "lock" /\ UNCHANGED <<owner, status, call>>
        BY <3>3, OpNames DEF Unmap, Ready
      <4>6. \A q \in Procs : call[q].op = "lock" => call[q].handle \in Handles
        BY CallFields DEF MutexInv, TypeOK
      <4>7. \A q \in Procs, i \in Handles : Known(reg'[q], i) => i < reg'[q].next
        BY <4>4 DEF Through
      <4>8. \A o \in Objs : owner'[o] # NoProc /\ status'[owner'[o]] = "running" =>
              /\ via'[o] \in Handles /\ Known(reg'[owner'[o]], via'[o])
              /\ reg'[owner'[o]].map[via'[o]].obj = o
        BY <4>1, <4>2, <4>4, <4>5 DEF Through, Known, MutexInv, TypeOK
      <4>9. \A q \in Procs : call'[q].op = "lock" =>
              /\ Known(reg'[q], call'[q].handle)
              /\ reg'[q].map[call'[q].handle].obj = call'[q].obj
        BY <4>4, <4>5, <4>6 DEF Through, Known
      <4> QED
        BY <4>7, <4>8, <4>9 DEF Through
    <3> QED
      BY <2>3, <2>4, <3>1, <3>2, <3>3 DEF HandleStep, Unlock, Close, Destroy
  <2>5. CASE LockWake(p)
    <3>1. /\ call[p].obj \in Objs /\ call[p].handle \in Handles
          /\ "close_held" \notin Habits =>
               Known(reg[p], call[p].handle) /\ reg[p].map[call[p].handle].obj = call[p].obj
      BY <2>5, CallFields DEF LockWake, Inside, MutexInv, TypeOK, Through
    <3>2. \A q \in Procs : call'[q].op = "lock" => call'[q] = call[q]
      BY <2>5, OpNames DEF LockWake, MutexInv, TypeOK
    <3> QED
      BY <2>5, <3>1, <3>2, ThroughGrant DEF LockWake
  <2>6. CASE LockTimeout(p)
    <3>1. \A q \in Procs : call'[q].op = "lock" => call'[q] = call[q]
      BY <2>6, OpNames DEF LockTimeout, MutexInv, TypeOK
    <3> QED
      BY <2>6, <3>1, ThroughFrame DEF LockTimeout, mutexVars, Alike
  <2>7. CASE UnlockAll(p)
    BY <2>3, <2>7 DEF UnlockAll
  <2>8. CASE Exit(p) \/ Fault(p)
    <3>1. PICK U : Die(p, U)
      BY <2>8 DEF Exit, Fault
    <3>2. /\ \A o \in Objs : owner'[o] = NoProc \/ owner'[o] = owner[o]
          /\ via' = via /\ status'[p] = "dead" /\ call'[p].op = "idle"
          /\ \A h \in Handles : ~Known(reg'[p], h)
          /\ \A q \in Procs \ {p} :
               status'[q] = status[q] /\ Alike(call'[q], call[q]) /\ reg'[q] = reg[q]
      <4>1. call'[p].op = "idle" /\ \A q \in Procs \ {p} : Alike(call'[q], call[q])
        BY <3>1, DieType, OpNames DEF MutexInv
      <4> QED
        BY <3>1, <4>1, EmptyType DEF Die, Released, MutexInv, TypeOK
    <3> QED
      BY <3>2 DEF Through, MutexInv, TypeOK, Alike
  <2>9. ASSUME NEW c \in Procs, Fork(p, c) PROVE Through'
    <3>1. /\ \A o \in Objs : owner[o] # c
          /\ call[c].op # "lock"
      BY <2>9, MutexAssumption DEF Fork, OwnersKnown, MutexInv, Reserved
    <3>2. /\ reg'[c] = reg[p] /\ UNCHANGED <<owner, via, call>>
          /\ \A q \in Procs \ {c} : reg'[q] = reg[q] /\ status'[q] = status[q]
      BY <2>9 DEF Fork, mutexVars, MutexInv, TypeOK
    <3> QED
      BY <3>1, <3>2 DEF Through, MutexInv, TypeOK
  <2>10. CASE LockAgain(p)
    <3>1. \A q \in Procs : Alike(call'[q], call[q])
      BY <2>10, AgainCall DEF MutexInv
    <3> QED
      BY <2>10, <3>1, ThroughFrame DEF LockAgain
  <2> QED
    BY <1>2, <2>2, <2>4, <2>5, <2>6, <2>7, <2>8, <2>9, <2>10 DEF Step
<1> QED
  BY <1>1, <1>2 DEF Next

\* `unlock -a` leaves a script holding nothing: what it holds it reaches through a handle.
THEOREM AllReleased == Spec => UnlockAllReleasesAll
<1>1. Init => OwnersKnown /\ Through
  BY EmptyType, OpNames DEF Init, OwnersKnown, Through
<1>2. Spec => [](MutexInv /\ OwnersKnown /\ Through)
  BY <1>1, OwnersStep, ThroughStep, InvHolds, PTL DEF Spec
<1>3. MutexInv /\ OwnersKnown /\ Through /\ [Next]_vars =>
        [\A p \in Procs : UnlockAll(p) /\ "close_held" \notin Habits =>
           \A o \in held'[p] : ~Clean(o)]_vars
  <2> SUFFICES ASSUME MutexInv, OwnersKnown, Through, NEW p \in Procs, UnlockAll(p),
                      "close_held" \notin Habits, NEW o \in held'[p], Clean(o)
               PROVE  FALSE
    OBVIOUS
  <2>1. o \in held[p] /\ o \in Objs /\ o \notin Unlockable(p, Mapped(reg[p]))
    BY DEF UnlockAll, UnlockObjs, MutexInv, TypeOK
  <2>2. stage[o] = "ready" /\ owner[o] = p /\ status[p] = "running" /\ p # NoProc
    BY <2>1, MutexAssumption DEF MutexInv, HeldIsOwned
  <2>3. o \in Mapped(reg[p])
    BY <2>1, <2>2 DEF Through, Mapped
  <2> QED
    BY <2>1, <2>2, <2>3 DEF Unlockable
<1> QED
  BY <1>2, <1>3, PTL DEF Spec, UnlockAllReleasesAll

------------------------------------------------------------------------------
(***************************************************************************)
(* The mutexes implement the abstract locks, for any processes, objects,   *)
(* names and handles, if scripts have none of the careless habits: what    *)
(* the scripts were told they hold, and what the dead left, changes as     *)
(* AbstractLock allows.                                                    *)
(***************************************************************************)

\* A mutex that is not ready is nobody's.
Unowned == \A o \in Objs : stage[o] # "ready" => owner[o] = NoProc

\* The process that holds o, as the mutex has it.
Owned(o) == IF owner[o] # NoProc /\ status[owner[o]] = "running" THEN owner[o] ELSE NoProc
Orphans == {o \in Objs : owner[o] # NoProc /\ status[owner[o]] # "running"}

Careful == Habits = {}
RInv == MutexInv /\ OwnersKnown /\ Unowned

------------------------------------------------------------------------------
\* The mapping agrees with the mutexes.
LEMMA HolderIsOwned ==
  ASSUME Careful, MutexInv, OwnersKnown, NEW o \in Objs
  PROVE  HolderOf(o) = Owned(o)
<1>1. \A p \in Procs : o \in held[p] => owner[o] = p /\ status[p] = "running" /\ p # NoProc
  BY MutexAssumption DEF Careful, MutexInv, HeldIsOwned, Clean, TypeOK
<1>2. owner[o] # NoProc /\ status[owner[o]] = "running" => owner[o] \in Procs /\ o \in held[owner[o]]
  BY DEF MutexInv, OwnersKnown, TypeOK
<1>3. CASE \E p \in Procs : o \in held[p]
  <2>1. PICK p \in Procs : o \in held[p]
    BY <1>3
  <2>2. (CHOOSE q \in Procs : o \in held[q]) = p
    BY <1>1, <2>1
  <2> QED
    BY <1>1, <2>1, <2>2 DEF HolderOf, Owned
<1>4. CASE ~\E p \in Procs : o \in held[p]
  BY <1>2, <1>4 DEF HolderOf, Owned
<1> QED
  BY <1>3, <1>4

\* A running owner has not been marked.
LEMMA DiedIsOrphan ==
  ASSUME Careful, MutexInv, OwnersKnown, NEW o \in Objs, died[o], owner[o] # NoProc
  PROVE  o \in Orphans
  BY DEF Careful, MutexInv, HeldIsOwned, OwnersKnown, Clean, TypeOK, Orphans

\* Mutexes a process knows or waits for are ready.
LEMMA KnownReady ==
  ASSUME Careful, MutexInv, NEW p \in Procs
  PROVE  /\ \A h \in Handles : Known(reg[p], h) =>
              reg[p].map[h].obj \in Objs /\ stage[reg[p].map[h].obj] = "ready"
         /\ \A o \in Mapped(reg[p]) : o \in Objs /\ stage[o] = "ready"
         /\ call[p].op = "lock" => call[p].obj \in Objs /\ stage[call[p].obj] = "ready"
         /\ call[p].op = "create" => call[p].obj \in Objs /\ stage[call[p].obj] # "ready"
<1>1. \A o : Clean(o)
  BY DEF Careful, Clean
<1>2. \A h \in Handles : Known(reg[p], h) =>
        reg[p].map[h].obj \in Objs /\ stage[reg[p].map[h].obj] = "ready"
  BY <1>1, Ranges DEF MutexInv, Published
<1>3. \A o \in Mapped(reg[p]) : o \in Objs /\ stage[o] = "ready"
  BY <1>2 DEF Mapped
<1> QED
  BY <1>1, <1>2, <1>3, Ranges DEF MutexInv, Published

------------------------------------------------------------------------------
(* Steps. *)

\* A step that moves no owner and ends or starts no owner's process is a stutter.
LEMMA Stutters ==
  ASSUME MutexInv, owner' = owner,
         \A o \in Objs : owner[o] # NoProc => (status'[owner[o]] = "running" <=> status[owner[o]] = "running")
  PROVE  (\A o \in Objs : Owned(o)' = Owned(o)) /\ Orphans' = Orphans
  BY DEF Owned, Orphans

\* Initialising a mutex that is nobody's changes nobody's locks.
LEMMA InitStutters ==
  ASSUME RInv, NEW o \in Objs, NEW r, NEW a, InitMutex(o, r, a), stage[o] # "ready", status' = status
  PROVE  Unowned' /\ (\A i \in Objs : Owned(i)' = Owned(i)) /\ Orphans' = Orphans
<1>1. owner' = owner /\ \A i \in Objs : stage'[i] # "ready" => stage[i] # "ready"
  BY DEF InitMutex, RInv, Unowned, MutexInv, TypeOK
<1> QED
  BY <1>1, Stutters DEF RInv, Unowned

\* A grant takes a free lock or recovers an orphaned one.
LEMMA GrantTakes ==
  ASSUME Careful, RInv, NEW p \in Procs, NEW o \in Objs, NEW h, Grant(p, o, h), Obtainable(o),
         status[p] = "running", stage[o] = "ready"
  PROVE  /\ Unowned'
         /\ \A i \in Objs : Owned(i)' = IF i = o THEN p ELSE Owned(i)
         /\ \/ Owned(o) = NoProc /\ o \notin Orphans /\ Orphans' = Orphans
            \/ o \in Orphans /\ Orphans' = Orphans \ {o}
<1>1. /\ stage' = stage /\ status' = status
      /\ \A i \in Objs : owner'[i] = IF i = o THEN p ELSE owner[i]
  BY DEF Grant, RInv, MutexInv, TypeOK
<1>2. p # NoProc
  BY MutexAssumption
<1>3. Unowned'
  BY <1>1 DEF RInv, Unowned
<1>4. \A i \in Objs : Owned(i)' = IF i = o THEN p ELSE Owned(i)
  BY <1>1, <1>2 DEF Owned
<1>5. Orphans' = Orphans \ {o}
  BY <1>1, <1>2 DEF Orphans
<1>6. CASE owner[o] = NoProc
  BY <1>3, <1>4, <1>5, <1>6 DEF Owned, Orphans
<1>7. CASE owner[o] # NoProc
  BY <1>3, <1>4, <1>5, <1>7, DiedIsOrphan DEF Obtainable, RInv
<1> QED
  BY <1>6, <1>7

\* An unlock gives up locks of its process.
LEMMA UnlockGives ==
  ASSUME Careful, RInv, NEW p \in Procs, status[p] = "running", NEW S, UnlockObjs(p, S),
         \A o \in S : o \in Objs /\ stage[o] = "ready"
  PROVE  /\ Unowned' /\ Orphans' = Orphans
         /\ \A o \in Unlockable(p, S) : o \in Objs /\ Owned(o) = p
         /\ \A o \in Objs : Owned(o)' = IF o \in Unlockable(p, S) THEN NoProc ELSE Owned(o)
<1>1. /\ stage' = stage /\ status' = status
      /\ \A o \in Objs : owner'[o] = IF o \in Unlockable(p, S) THEN NoProc ELSE owner[o]
  BY DEF UnlockObjs, Released
<1>2. \A o \in Unlockable(p, S) : o \in Objs /\ owner[o] = p
  BY DEF Unlockable
<1>3. \A o \in Unlockable(p, S) : Owned(o) = p /\ o \notin Orphans
  BY <1>2, MutexAssumption DEF Owned, Orphans
<1>4. Orphans' = Orphans
  BY <1>1, <1>3 DEF Orphans
<1> QED
  BY <1>1, <1>2, <1>3, <1>4 DEF Owned, RInv, Unowned

\* The end of a process orphans what it holds.
LEMMA ExitOrphans ==
  ASSUME RInv, NEW p \in Procs, Exit(p)
  PROVE  /\ Unowned'
         /\ \A o \in Objs : Owned(o)' = IF Owned(o) = p THEN NoProc ELSE Owned(o)
         /\ Orphans' = Orphans \cup {o \in Objs : Owned(o) = p}
<1>1. /\ stage' = stage /\ owner' = owner /\ status[p] = "running"
      /\ \A q \in Procs : status'[q] = IF q = p THEN "dead" ELSE status[q]
  BY DEF Exit, Die, Released, RInv, MutexInv, TypeOK
<1>2. \A o \in Objs : owner[o] # NoProc => owner[o] \in Procs
  BY DEF RInv, MutexInv, TypeOK
<1>3. \A o \in Objs : Owned(o) = p <=> owner[o] = p
  BY <1>1, MutexAssumption DEF Owned
<1>4. \A o \in Objs : Owned(o)' = IF Owned(o) = p THEN NoProc ELSE Owned(o)
  BY <1>1, <1>2, <1>3, MutexAssumption DEF Owned
<1>5. Orphans' = Orphans \cup {o \in Objs : Owned(o) = p}
  BY <1>1, <1>2, <1>3, MutexAssumption DEF Orphans
<1> QED
  BY <1>1, <1>4, <1>5 DEF RInv, Unowned

\* What a step does to the locks.
Still == (\A o \in Objs : Owned(o)' = Owned(o)) /\ Orphans' = Orphans
Taken(p, o) ==
  /\ \A i \in Objs : Owned(i)' = IF i = o THEN p ELSE Owned(i)
  /\ \/ Owned(o) = NoProc /\ o \notin Orphans /\ Orphans' = Orphans
     \/ o \in Orphans /\ Orphans' = Orphans \ {o}
Given(p, S) ==
  /\ \A o \in S : Owned(o) = p
  /\ \A o \in Objs : Owned(o)' = IF o \in S THEN NoProc ELSE Owned(o)
  /\ Orphans' = Orphans
Left(p) ==
  /\ \A o \in Objs : Owned(o)' = IF Owned(o) = p THEN NoProc ELSE Owned(o)
  /\ Orphans' = Orphans \cup {o \in Objs : Owned(o) = p}
Moves ==
  \/ Still
  \/ \E p \in Procs : \/ \E o \in Objs : Taken(p, o)
                      \/ \E S \in SUBSET Objs : Given(p, S)
                      \/ Left(p)

\* Creating and opening move no lock: what is initialised is nobody's.
LEMMA CreateMoves ==
  ASSUME Careful, RInv, NEW p \in Procs, CreateStep(p)
  PROVE  Unowned' /\ Still
<1>1. ASSUME NEW r \in BOOLEAN, NEW o \in Objs, CreateAnon(p, o, r) PROVE Unowned' /\ Still
  BY <1>1, InitStutters DEF CreateAnon, Still
<1>2. CASE CreateInit(p)
  <2>1. call[p].obj \in Objs /\ stage[call[p].obj] # "ready"
    BY <1>2, KnownReady DEF CreateInit, Inside, RInv
  <2> QED
    BY <1>2, <2>1, InitStutters DEF CreateInit, Still
<1>3. ASSUME owner' = owner, status' = status,
             \A o \in Objs : stage'[o] # "ready" => stage[o] # "ready"
      PROVE  Unowned' /\ Still
  BY <1>3, Stutters DEF RInv, Unowned, Still
<1>4. ASSUME NEW r \in BOOLEAN, NEW o \in Objs, NEW n \in Names, CreateOpen(p, n, o, r)
      PROVE  Unowned' /\ Still
  <2>1. \A i \in Objs : stage'[i] # "ready" => stage[i] # "ready"
    BY <1>4 DEF CreateOpen, RInv, MutexInv, TypeOK
  <2> QED
    BY <1>3, <1>4, <2>1 DEF CreateOpen
<1>5. CASE CreateTruncate(p)
  <2>1. \A i \in Objs : stage'[i] # "ready" => stage[i] # "ready"
    BY <1>5 DEF CreateTruncate, RInv, MutexInv, TypeOK
  <2> QED
    BY <1>3, <1>5, <2>1 DEF CreateTruncate
<1>6. ASSUME NEW n \in Names, Open(p, n) PROVE Unowned' /\ Still
  BY <1>3, <1>6 DEF Open, mutexVars
<1> QED
  BY <1>1, <1>2, <1>4, <1>5, <1>6 DEF CreateStep

\* Locking takes, unlocking gives, closing moves nothing.
LEMMA HandleMoves ==
  ASSUME Careful, RInv, NEW p \in Procs, NEW h \in Handles, HandleStep(p, h)
  PROVE  Unowned' /\ Moves
<1>1. CASE LockNow(p, h)
  <2> DEFINE o == reg[p].map[h].obj
  <2>1. o \in Objs /\ stage[o] = "ready" /\ status[p] = "running" /\ Obtainable(o) /\ Grant(p, o, h)
    BY <1>1, KnownReady DEF LockNow, Ready, RInv
  <2> HIDE DEF o
  <2>2. Unowned' /\ Taken(p, o)
    BY <2>1, GrantTakes DEF Taken
  <2> QED
    BY <2>1, <2>2 DEF Moves
<1>2. CASE Unlock(p, h)
  <2> DEFINE o == reg[p].map[h].obj
  <2>1. o \in Objs /\ stage[o] = "ready" /\ status[p] = "running" /\ UnlockObjs(p, {o})
    BY <1>2, KnownReady DEF Unlock, Ready, RInv
  <2> HIDE DEF o
  <2>2. Unowned' /\ Given(p, Unlockable(p, {o})) /\ Unlockable(p, {o}) \in SUBSET Objs
    BY <2>1, UnlockGives DEF Given
  <2> QED
    BY <2>2 DEF Moves
<1>3. ASSUME stage' = stage, owner' = owner, status' = status PROVE Unowned' /\ Moves
  BY <1>3, Stutters DEF RInv, Unowned, Still, Moves
<1>4. CASE Close(p, h) \/ Destroy(p, h)
  BY <1>3, <1>4 DEF Close, Destroy, Unmap
<1>5. CASE LockBlock(p, h)
  BY <1>3, <1>5 DEF LockBlock
<1> QED
  BY <1>1, <1>2, <1>4, <1>5 DEF HandleStep

\* Every step moves the locks as AbstractLock does.
LEMMA StepMoves ==
  ASSUME Careful, RInv, [Next]_vars
  PROVE  Unowned' /\ Moves
<1>1. ASSUME stage' = stage, owner' = owner, status' = status PROVE Unowned' /\ Moves
  BY <1>1, Stutters DEF RInv, Unowned, Still, Moves
<1>2. ASSUME NEW p \in Procs, Step(p) PROVE Unowned' /\ Moves
  <2>1. CASE CreateStep(p)
    BY <2>1, CreateMoves DEF Moves
  <2>2. CASE \E h \in Handles : HandleStep(p, h)
    BY <2>2, HandleMoves
  <2>3. CASE LockWake(p)
    <3>1. call[p].obj \in Objs /\ stage[call[p].obj] = "ready" /\ status[p] = "running"
      BY <2>3, KnownReady DEF LockWake, Inside, RInv
    <3>2. Unowned' /\ Taken(p, call[p].obj)
      BY <2>3, <3>1, GrantTakes DEF LockWake, Taken
    <3> QED
      BY <3>1, <3>2 DEF Moves
  <2>4. CASE LockTimeout(p)
    BY <1>1, <2>4 DEF LockTimeout, mutexVars
  <2>9. CASE LockAgain(p)
    BY <1>1, <2>9 DEF LockAgain
  <2>5. CASE UnlockAll(p)
    <3> DEFINE S == Mapped(reg[p])
    <3>1. status[p] = "running" /\ UnlockObjs(p, S) /\ \A o \in S : o \in Objs /\ stage[o] = "ready"
      BY <2>5, KnownReady DEF UnlockAll, Ready, RInv
    <3> HIDE DEF S
    <3>2. Unowned' /\ Given(p, Unlockable(p, S)) /\ Unlockable(p, S) \in SUBSET Objs
      BY <3>1, UnlockGives DEF Given
    <3> QED
      BY <3>2 DEF Moves
  <2>6. CASE Fault(p)
    BY <2>6, KnownReady DEF Fault, RInv
  <2>7. CASE Exit(p)
    BY <2>7, ExitOrphans DEF Left, Moves
  <2>8. ASSUME NEW c \in Procs, Fork(p, c) PROVE Unowned' /\ Moves
    <3>1. stage' = stage /\ owner' = owner
      BY <2>8 DEF Fork, mutexVars
    <3>2. \A o \in Objs : owner[o] # NoProc =>
            (status'[owner[o]] = "running" <=> status[owner[o]] = "running")
      BY <2>8 DEF Fork, RInv, OwnersKnown, MutexInv, TypeOK
    <3> QED
      BY <3>1, <3>2, Stutters DEF RInv, Unowned, Still, Moves
  <2> QED
    BY <1>2, <2>1, <2>2, <2>3, <2>4, <2>5, <2>6, <2>7, <2>8, <2>9 DEF Step
<1>3. CASE UNCHANGED vars
  BY <1>1, <1>3 DEF vars, mutexVars
<1> QED
  BY <1>2, <1>3 DEF Next

------------------------------------------------------------------------------
(* The refinement. *)

\* HolderIsOwned, of every object, in every state.
LEMMA Agree == Careful /\ RInv => \A o \in Objs : HolderOf(o) = Owned(o)
  BY HolderIsOwned DEF RInv

\* Seen through what the scripts were told, a step is one of AbstractLock, or a stutter.
LEMMA RefinesStep ==
  ASSUME Careful, RInv, RInv', [Next]_vars
  PROVE  [AbsLock!Next]_(AbsLock!vars)
<1> DEFINE hold == [o \in Objs |-> HolderOf(o)]
<1>1. \A o \in Objs : HolderOf(o) = Owned(o)
  BY Agree
<1>2. (\A o \in Objs : HolderOf(o) = Owned(o))'
  BY Agree, PTL
<1>3. hold = [o \in Objs |-> Owned(o)] /\ hold' = [o \in Objs |-> Owned(o)']
  BY <1>1, <1>2
<1>4. CASE Still
  BY <1>3, <1>4 DEF Still, AbsLock!vars, Orphans
<1>5. ASSUME NEW p \in Procs, NEW o \in Objs, Taken(p, o)
      PROVE  AbsLock!Acquire(p, o) \/ AbsLock!Recover(p, o)
  <2>1. hold' = [hold EXCEPT ![o] = p]
    BY <1>3, <1>5 DEF Taken
  <2>2. hold[o] = Owned(o)
    BY <1>3
  <2>3. CASE Owned(o) = NoProc /\ o \notin Orphans /\ Orphans' = Orphans
    BY <2>1, <2>2, <2>3 DEF Orphans, AbsLock!Acquire, AbsLock!Available
  <2>4. CASE o \in Orphans /\ Orphans' = Orphans \ {o}
    BY <2>1, <2>4 DEF Orphans, AbsLock!Recover
  <2> QED
    BY <1>5, <2>3, <2>4 DEF Taken
<1>6. ASSUME NEW p \in Procs, NEW S \in SUBSET Objs, Given(p, S) PROVE AbsLock!Release(p, S)
  BY <1>3, <1>6 DEF Given, Orphans, AbsLock!Release
<1>7. ASSUME NEW p \in Procs, Left(p) PROVE AbsLock!Terminate(p)
  BY <1>3, <1>7 DEF Left, Orphans, AbsLock!Terminate
<1>8. Moves
  BY StepMoves
<1> QED
  BY <1>4, <1>5, <1>6, <1>7, <1>8 DEF Moves, AbsLock!Next

\* The mutexes implement the abstract locks: at most one holder, only the holder gives a lock
\* up, and what the dead held is recovered by one process or by nobody.
THEOREM MutexRefines == Habits = {} => (Spec => ImplementsAbstractLock)
<1> SUFFICES ASSUME Careful PROVE Spec => ImplementsAbstractLock
  BY DEF Careful
<1>1. Init => RInv
  BY InvInit DEF RInv, Init, OwnersKnown, Unowned
<1>2. RInv /\ [Next]_vars => RInv'
  BY InvStep, OwnersStep, StepMoves DEF RInv
<1>3. Init => AbsLock!Init
  <2>1. Init => \A o \in Objs : HolderOf(o) = NoProc
    BY DEF Init, HolderOf
  <2> QED
    BY <2>1 DEF Init, AbsLock!Init
<1>4. RInv /\ RInv' /\ [Next]_vars => [AbsLock!Next]_(AbsLock!vars)
  BY RefinesStep
<1> QED
  BY <1>1, <1>2, <1>3, <1>4, PTL DEF Spec, ImplementsAbstractLock, AbsLock!Spec
==============================================================================
