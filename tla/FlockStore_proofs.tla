-------------------------- MODULE FlockStore_proofs --------------------------
(***************************************************************************)
(* Proofs about FlockStore: types, the exclusion that flock gives to       *)
(* processes that fork, die, and reuse each other's pids, and that the     *)
(* databases implement AbstractStore.                                      *)
(***************************************************************************)
EXTENDS FlockStore, TLAPS

USE StoreAssumption DEF StoreAssumption

FileHandles == [ofd : Ofds \cup {NoOfd}, pid : Procs \cup {NoProc}]

\* The operation a process begins is an operation.
LEMMA BegunType ==
  ASSUME NEW do \in AllDoes \cup {"none"}, NEW k \in Keys \cup {NoKey},
         NEW o \in Ofds \cup {NoOfd}, NEW step \in Steps
  PROVE  Begun(do, k, o, step) \in Operations
  BY DEF Begun, Operations, Steps

\* Being in no operation is well typed too, and so is having no database bound.
LEMMA IdleType == Idle \in Operations /\ NoHandle \in FileHandles
  BY DEF Begun, Idle, Operations, Steps, NoHandle, FileHandles

\* A process in an operation has a description of some inode open.
LEMMA InodeType ==
  ASSUME TypeOK, Alive, NEW p \in Procs, op[p].step # "idle"
  PROVE  op[p].ofd \in Ofds /\ IsOpen(op[p].ofd) /\ Inode(p) \in Files
  BY DEF TypeOK, Alive, Operations, Inode, IsOpen

\* A change of some fields of an operation leaves it an operation.
LEMMA OpFields ==
  ASSUME TypeOK, NEW p \in Procs, NEW step \in Steps, NEW ok \in BOOLEAN, NEW copy \in SUBSET Keys
  PROVE  /\ [op EXCEPT ![p].step = step] \in [Procs -> Operations]
         /\ [op EXCEPT ![p].ok = ok, ![p].step = step] \in [Procs -> Operations]
         /\ [op EXCEPT ![p].copy = copy, ![p].ok = ok, ![p].step = step] \in [Procs -> Operations]
         /\ [op EXCEPT ![p] = Idle] \in [Procs -> Operations]
<1>1. op \in [Procs -> Operations]
  BY DEF TypeOK
<1>2. [op EXCEPT ![p].step = step] \in [Procs -> Operations]
  BY <1>1 DEF Operations
<1>3. [op EXCEPT ![p].ok = ok, ![p].step = step] \in [Procs -> Operations]
  <2>1. [op EXCEPT ![p].ok = ok, ![p].step = step]
          = [op EXCEPT ![p] = [op[p] EXCEPT !.ok = ok, !.step = step]]
    BY Zenon
  <2>2. [op[p] EXCEPT !.ok = ok, !.step = step] \in Operations
    BY <1>1 DEF Operations
  <2> QED
    BY <1>1, <2>1, <2>2
<1>4. [op EXCEPT ![p].copy = copy, ![p].ok = ok, ![p].step = step] \in [Procs -> Operations]
  <2>1. [op EXCEPT ![p].copy = copy, ![p].ok = ok, ![p].step = step]
          = [op EXCEPT ![p] = [op[p] EXCEPT !.copy = copy, !.ok = ok, !.step = step]]
    BY Zenon
  <2>2. [op[p] EXCEPT !.copy = copy, !.ok = ok, !.step = step] \in Operations
    BY <1>1 DEF Operations
  <2> QED
    BY <1>1, <2>1, <2>2
<1>5. [op EXCEPT ![p] = Idle] \in [Procs -> Operations]
  BY <1>1, IdleType
<1> QED
  BY <1>2, <1>3, <1>4, <1>5

\* The initial state is well typed.
LEMMA TypeInit == Init => TypeOK
<1>1. ASSUME Init PROVE op \in [Procs -> Operations] /\ handle \in [Procs -> FileHandles]
  BY <1>1, IdleType DEF Init
<1>2. ASSUME Init PROVE TypeOK
  BY <1>1, <1>2 DEF Init, TypeOK, FileHandles
<1> QED
  BY <1>2

\* Every step assigns values of the declared types.
LEMMA TypeStep == TypeOK /\ Alive /\ [Next]_vars => TypeOK'
<1> SUFFICES ASSUME TypeOK, Alive, [Next]_vars PROVE TypeOK'
  OBVIOUS
<1>1. CASE UNCHANGED vars
  BY <1>1 DEF vars, backing, TypeOK
<1>2. ASSUME NEW p \in Procs, Work(p) PROVE TypeOK'
  <2> Running(p) /\ op[p].step # "idle"
    BY <1>2 DEF Work, ClassifyOk, ClassifyInit, Stamp, Truncate, Lock, ReadDone, ReadToWrite,
                Grow, Write, Unlock, At
  <2>0. op[p].ofd \in Ofds /\ Inode(p) \in Files
    BY InodeType
  <2>1. ASSUME Opened(p) PROVE /\ op' \in [Procs -> Operations] /\ handle' \in [Procs -> FileHandles]
                               /\ file' = file /\ lock' = lock /\ status' = status
                               /\ got' = got /\ ops' = ops /\ left' = left
    <3>1. op' \in [Procs -> Operations]
      BY <2>1, OpFields DEF Opened, Steps
    <3>2. handle' \in [Procs -> FileHandles]
      BY <2>0, <2>1 DEF Opened, TypeOK, FileHandles
    <3> QED
      BY <2>1, <3>1, <3>2 DEF Opened
  <2>2. CASE ClassifyOk(p)
    BY <2>1, <2>2 DEF ClassifyOk, TypeOK, backing, FileHandles
  <2>3. CASE Truncate(p)
    BY <2>0, <2>1, <2>3 DEF Truncate, TypeOK, FileHandles
  <2>4. ASSUME NEW step \in Steps, Goto(p, step) PROVE op' \in [Procs -> Operations]
    BY <2>4, OpFields DEF Goto
  <2>5. CASE ClassifyInit(p)
    BY <2>4, <2>5 DEF ClassifyInit, TypeOK, backing, Steps
  <2>6. CASE Stamp(p)
    BY <2>0, <2>4, <2>6 DEF Stamp, TypeOK, Steps
  <2>7. CASE Lock(p)
    BY <2>0, <2>4, <2>7 DEF Lock, Mode, TypeOK, backing, Steps
  <2>8. CASE Grow(p)
    BY <2>0, <2>4, <2>8 DEF Grow, TypeOK, Steps
  <2>9. \A r \in Parses(Inode(p)) : r.ok \in BOOLEAN /\ r.db \in SUBSET Keys
    <3>1. body[Inode(p)] \in SUBSET Keys
      BY <2>0 DEF TypeOK
    <3> SUFFICES ASSUME NEW r \in Parses(Inode(p)) PROVE r.ok \in BOOLEAN /\ r.db \in SUBSET Keys
      OBVIOUS
    <3>2. \/ r = [ok |-> TRUE, db |-> body[Inode(p)]]
          \/ r = [ok |-> FALSE, db |-> {}]
          \/ r = [ok |-> TRUE, db |-> {}]
      BY DEF Parses
    <3>3. CASE r = [ok |-> TRUE, db |-> body[Inode(p)]]
      BY <3>1, <3>3
    <3>4. CASE r = [ok |-> FALSE, db |-> {}]
      BY <3>4
    <3>5. CASE r = [ok |-> TRUE, db |-> {}]
      BY <3>5
    <3> QED
      BY <3>2, <3>3, <3>4, <3>5
  <2>10. CASE ReadDone(p)
    <3>1. PICK r \in Parses(Inode(p)) :
            /\ got' = IF r.ok THEN [got EXCEPT ![p] = r.db] ELSE got
            /\ op' = [op EXCEPT ![p].ok = r.ok, ![p].step = "unlock"]
      BY <2>10 DEF ReadDone
    <3>2. op' \in [Procs -> Operations]
      BY <2>9, <3>1, OpFields DEF Steps
    <3> QED
      BY <2>9, <2>10, <3>1, <3>2 DEF ReadDone, TypeOK, backing
  <2>11. CASE ReadToWrite(p)
    <3>1. PICK r \in Parses(Inode(p)) :
            op' = [op EXCEPT ![p].copy = r.db, ![p].ok = r.ok,
                             ![p].step = IF r.ok THEN "grow" ELSE "unlock"]
      BY <2>11 DEF ReadToWrite
    <3>2. op' \in [Procs -> Operations]
      BY <2>9, <3>1, OpFields DEF Steps
    <3> QED
      BY <2>11, <3>2 DEF ReadToWrite, TypeOK, backing
  <2>12. CASE Write(p)
    <3>1. Result(op[p].do, op[p].key, op[p].copy) \in SUBSET Keys
      BY DEF Result, Alive, Keyed, TypeOK, Operations
    <3> QED
      BY <2>0, <2>4, <2>12, <3>1 DEF Write, TypeOK, Steps
  <2>13. CASE Unlock(p)
    <3>1. op' \in [Procs -> Operations] /\ handle' \in [Procs -> FileHandles]
      BY <2>13, OpFields, IdleType DEF Unlock, TypeOK, Steps, FileHandles
    <3> QED
      BY <2>0, <2>13, <3>1 DEF Unlock, TypeOK, backing, FileHandles
  <2> QED
    BY <1>2, <2>2, <2>3, <2>5, <2>6, <2>7, <2>8, <2>10, <2>11, <2>12, <2>13 DEF Work
<1>3. ASSUME NEW p \in Procs, NEW do \in Does, NEW k \in KeysOf(do), Use(p, do, k) PROVE TypeOK'
  <2>1. Begun(do, k, handle[p].ofd, "lock") \in Operations
    BY <1>3, BegunType DEF KeysOf, AllDoes, TypeOK, Steps
  <2>2. ops' \in 0..MaxOps
    BY <1>3 DEF Use, MayStart, TypeOK
  <2> QED
    BY <1>3, <2>1, <2>2 DEF Use, TypeOK, backing
<1>4. ASSUME NEW p \in Procs, NEW do \in Does, NEW k \in KeysOf(do), NEW o \in Ofds,
             Open(p, do, k, o)
      PROVE  TypeOK'
  <2>1. Begun(do, k, o, "classify") \in Operations
    BY <1>4, BegunType DEF KeysOf, AllDoes, Steps
  <2>2. ops' \in 0..MaxOps
    BY <1>4 DEF Open, MayStart, TypeOK
  <2>3. /\ path' \in Files \cup {NoFile}
        /\ head' \in [Files -> {"none", "short", "magic", "alien"}]
        /\ file' \in [Ofds -> Files \cup {NoFile}]
    BY <1>4 DEF Open, TypeOK
  <2> QED
    BY <1>4, <2>1, <2>2, <2>3 DEF Open, TypeOK
<1>5. ASSUME NEW p \in Procs, Remove(p) PROVE TypeOK'
  BY <1>5, IdleType DEF Remove, TypeOK, FileHandles
<1>6. ASSUME NEW p \in Procs, Kill(p) PROVE TypeOK'
  <2>1. left' \in SUBSET Ofds
    BY <1>6, InodeType DEF Kill, Critical, Locked, TypeOK
  <2> QED
    BY <1>6, <2>1, IdleType DEF Kill, TypeOK, FileHandles, backing
<1>7. ASSUME NEW p \in Procs, NEW c \in Procs, Fork(p, c) PROVE TypeOK'
  BY <1>7 DEF Fork, TypeOK, backing
<1> QED
  BY <1>1, <1>2, <1>3, <1>4, <1>5, <1>6, <1>7 DEF Next

------------------------------------------------------------------------------
(* Who has which description open, and what it locks. *)

Links == Alive /\ OneUser /\ SamePid /\ LocksHeld /\ LocksCompatible

\* Steps that open nothing and add no lock keep the locks compatible, and the
\* descriptions on inodes.
LEMMA Shrink ==
  ASSUME TypeOK, LocksCompatible, UNCHANGED file,
         \A o \in Ofds : lock'[o] = lock[o] \/ lock'[o] = "none",
         \A o \in Ofds : IsOpen(o)' => IsOpen(o),
         \A o \in Ofds : IsOpen(o) => file[o] \in Files
  PROVE  LocksCompatible' /\ \A o \in Ofds : IsOpen(o)' => file'[o] \in Files
  BY DEF LocksCompatible, TypeOK

\* Steps within an operation, before the lock is taken or while it is held, change
\* nothing that the locks depend on.
LEMMA Quiet ==
  ASSUME TypeOK, Links, UNCHANGED <<file, lock, status, handle>>, NEW p \in Procs, Running(p),
         op'[p].ofd = op[p].ofd, op'[p].do = op[p].do, op'[p].key = op[p].key,
         op'[p].step \in Locked <=> op[p].step \in Locked,
         op[p].step # "idle", op'[p].step # "idle",
         \A q \in Procs \ {p} : op'[q] = op[q]
  PROVE  Links'
<1>1. \A q \in Procs : /\ op'[q].ofd = op[q].ofd /\ op'[q].do = op[q].do /\ op'[q].key = op[q].key
                       /\ op'[q].step \in Locked <=> op[q].step \in Locked
                       /\ op'[q].step = "idle" <=> op[q].step = "idle"
  OBVIOUS
<1>2. \A o \in Ofds : IsOpen(o)' => IsOpen(o)
  BY <1>1 DEF IsOpen
<1>3. LocksCompatible' /\ \A o \in Ofds : IsOpen(o)' => file'[o] \in Files
  BY <1>2, Shrink DEF Links, Alive
<1>4. Alive'
  BY <1>1, <1>3 DEF Links, Alive, Running
<1>5. OneUser' /\ SamePid'
  BY <1>1 DEF Links, OneUser, SamePid
<1>6. LocksHeld'
  BY <1>1 DEF Links, LocksHeld, Critical, Mode
<1> QED
  BY <1>3, <1>4, <1>5, <1>6 DEF Links

\* The process that opened a description is the first to record it.
LEMMA OpenedLinks ==
  ASSUME TypeOK, Links, NEW p \in Procs, Opened(p), Running(p), op[p].step \notin Locked,
         op[p].step # "idle"
  PROVE  Links'
<1>1. op[p].ofd \in Ofds /\ op[p].ofd # NoOfd
  BY DEF Links, Alive, TypeOK, Operations
<1>2. \/ op'[p] = Idle
      \/ /\ op'[p].ofd = op[p].ofd /\ op'[p].do = op[p].do /\ op'[p].key = op[p].key
         /\ op'[p].step = "lock"
  BY DEF Opened, TypeOK, Operations
<1>3. \/ handle'[p] = handle[p]
      \/ handle'[p] = [ofd |-> op[p].ofd, pid |-> p]
  BY DEF Opened, TypeOK
<1>4. \A q \in Procs \ {p} : op'[q] = op[q] /\ handle'[q] = handle[q]
  BY DEF Opened, TypeOK
<1>5. UNCHANGED <<file, lock, status>>
  BY DEF Opened
<1>6. Idle.ofd = NoOfd /\ Idle.step = "idle" /\ Idle.do = "none"
  BY DEF Idle, Begun
<1>7. \A o \in Ofds : IsOpen(o)' => IsOpen(o)
  BY <1>2, <1>3, <1>4, <1>6 DEF IsOpen
<1>8. LocksCompatible' /\ \A o \in Ofds : IsOpen(o)' => file'[o] \in Files
  BY <1>5, <1>7, Shrink DEF Links, Alive
<1>9. Alive'
  BY <1>1, <1>2, <1>3, <1>4, <1>5, <1>6, <1>8 DEF Links, Alive, Running, Keyed
<1>10. OneUser'
  BY <1>1, <1>2, <1>3, <1>4, <1>6 DEF Links, OneUser
<1>11. SamePid'
  BY <1>1, <1>3, <1>4 DEF Links, SamePid, OneUser
<1>12. LocksHeld'
  BY <1>2, <1>4, <1>5, <1>6 DEF Links, LocksHeld, Critical, Mode, Locked
<1> QED
  BY <1>8, <1>9, <1>10, <1>11, <1>12 DEF Links

\* A bound database is used by the process whose pid its handle records: no other
\* process is using the description.
LEMMA UseLinks ==
  ASSUME TypeOK, Links, NEW p \in Procs, NEW do \in Does, NEW k \in KeysOf(do), Use(p, do, k)
  PROVE  Links'
<1>1. /\ Running(p) /\ op[p].step = "idle" /\ handle[p] # NoHandle /\ handle[p].pid = p
  BY DEF Use, MayStart, Opens, At
<1>2. handle[p].ofd \in Ofds /\ handle[p].ofd # NoOfd
  BY <1>1 DEF Links, Alive, TypeOK
<1>3. /\ op'[p].ofd = handle[p].ofd /\ op'[p].do = do /\ op'[p].key = k /\ op'[p].step = "lock"
  BY DEF Use, Begun, TypeOK
<1>4. \A q \in Procs \ {p} : op'[q] = op[q]
  BY DEF Use, TypeOK
<1>5. UNCHANGED <<file, lock, status, handle>>
  BY DEF Use
<1>6. \A o \in Ofds : IsOpen(o)' => IsOpen(o)
  BY <1>3, <1>4, <1>5 DEF IsOpen
<1>7. LocksCompatible' /\ \A o \in Ofds : IsOpen(o)' => file'[o] \in Files
  BY <1>5, <1>6, Shrink DEF Links, Alive
<1>8. do \in Keyed => k \in Keys
  BY DEF KeysOf
<1>9. Alive'
  BY <1>1, <1>2, <1>3, <1>4, <1>5, <1>7, <1>8 DEF Links, Alive, Running
<1>10. OneUser'
  BY <1>1, <1>2, <1>3, <1>4, <1>5 DEF Links, OneUser, SamePid
<1>11. SamePid'
  BY <1>5 DEF Links, SamePid
<1>12. LocksHeld'
  BY <1>3, <1>4, <1>5 DEF Links, LocksHeld, Critical, Mode, Locked
<1> QED
  BY <1>7, <1>9, <1>10, <1>11, <1>12 DEF Links

\* A new description is in nobody's hands and holds no lock.
LEMMA OpenLinks ==
  ASSUME TypeOK, Links, NEW p \in Procs, NEW do \in Does, NEW k \in KeysOf(do), NEW o \in Ofds,
         Open(p, do, k, o)
  PROVE  Links'
<1>1. Running(p) /\ op[p].step = "idle" /\ ~IsOpen(o)
  BY DEF Open, MayStart, At
<1>2. /\ op'[p].ofd = o /\ op'[p].do = do /\ op'[p].key = k /\ op'[p].step = "classify"
  BY DEF Open, Begun, TypeOK
<1>3. \A q \in Procs \ {p} : op'[q] = op[q]
  BY DEF Open, TypeOK
<1>4. file'[o] \in Files /\ \A u \in Ofds \ {o} : file'[u] = file[u]
  BY DEF Open, TypeOK
<1>5. lock'[o] = "none" /\ \A u \in Ofds \ {o} : lock'[u] = lock[u]
  BY DEF Open, TypeOK
<1>6. UNCHANGED <<status, handle>>
  BY DEF Open
<1>7. \A q \in Procs : handle[q].ofd # o /\ op[q].ofd # o
  BY <1>1 DEF IsOpen
<1>8. \A u \in Ofds \ {o} : IsOpen(u)' => IsOpen(u)
  BY <1>2, <1>3, <1>6 DEF IsOpen
<1>9. LocksCompatible'
  BY <1>4, <1>5, <1>8 DEF Links, LocksCompatible
<1>10. do \in Keyed => k \in Keys
  BY DEF KeysOf
<1>11. Alive'
  BY <1>1, <1>2, <1>3, <1>4, <1>6, <1>8, <1>10 DEF Links, Alive, Running
<1>12. OneUser'
  BY <1>2, <1>3, <1>6, <1>7 DEF Links, OneUser
<1>13. SamePid'
  BY <1>6 DEF Links, SamePid
<1>14. LocksHeld'
  <2> SUFFICES ASSUME NEW q \in Procs, Critical(q)' PROVE lock'[op'[q].ofd] = Mode(op'[q].do)
    BY DEF LocksHeld, Mode
  <2>1. q # p /\ op'[q] = op[q] /\ Critical(q)
    BY <1>2, <1>3 DEF Critical, Locked
  <2>2. op[q].ofd \in Ofds \ {o}
    BY <1>7, <2>1 DEF Links, Alive, Critical, Locked, TypeOK, Operations
  <2> QED
    BY <1>5, <2>1, <2>2 DEF Links, LocksHeld
<1> QED
  BY <1>9, <1>11, <1>12, <1>13, <1>14 DEF Links

\* A lock is given to the one user of the description, if no other description of the
\* inode has one that excludes it.
LEMMA LockLinks ==
  ASSUME TypeOK, Links, NEW p \in Procs, Lock(p)
  PROVE  Links'
<1> DEFINE o == op[p].ofd
<1>1. Running(p) /\ op[p].step = "lock" /\ o \in Ofds /\ o # NoOfd
  BY DEF Lock, At, Links, Alive, TypeOK, Operations
<1>2. op'[p].ofd = o /\ op'[p].do = op[p].do /\ op'[p].key = op[p].key /\ op'[p].step = "read"
  BY DEF Lock, Goto, TypeOK, Operations
<1>3. \A q \in Procs \ {p} : op'[q] = op[q]
  BY DEF Lock, Goto, TypeOK
<1>4. UNCHANGED <<file, status, handle>>
  BY DEF Lock
<1>5. lock'[o] = Mode(op[p].do) /\ \A u \in Ofds \ {o} : lock'[u] = lock[u]
  BY <1>1 DEF Lock, TypeOK
<1>6. \A u \in Ofds : IsOpen(u)' => IsOpen(u)
  BY <1>2, <1>3, <1>4 DEF IsOpen
<1>7. \A u \in Ofds \ {o} :
        file[u] = file[o] /\ IsOpen(u) =>
          lock[u] # "ex" /\ (lock[u] = "sh" => Mode(op[p].do) # "ex")
  BY DEF Lock, Excluded
<1>8. LocksCompatible'
  <2> SUFFICES ASSUME NEW a \in Ofds, NEW b \in Ofds, a # b, file[a] = file[b],
                      IsOpen(a), IsOpen(b), lock'[a] = "ex"
               PROVE  lock'[b] = "none"
    BY <1>4, <1>6 DEF LocksCompatible
  <2>1. lock[b] \in {"none", "sh", "ex"}
    BY DEF TypeOK
  <2>2. CASE a = o
    BY <1>5, <1>7, <2>1, <2>2
  <2>3. CASE b = o
    BY <1>5, <1>7, <2>3
  <2>4. CASE a # o /\ b # o
    BY <1>5, <2>4 DEF Links, LocksCompatible
  <2> QED
    BY <2>2, <2>3, <2>4
<1>9. Alive'
  BY <1>1, <1>2, <1>3, <1>4, <1>6 DEF Links, Alive, Running
<1>10. OneUser' /\ SamePid'
  BY <1>2, <1>3, <1>4 DEF Links, OneUser, SamePid
<1>11. LocksHeld'
  <2> SUFFICES ASSUME NEW q \in Procs, Critical(q)' PROVE lock'[op'[q].ofd] = Mode(op'[q].do)
    BY DEF LocksHeld, Mode
  <2>1. CASE q = p
    BY <1>2, <1>5, <2>1
  <2>2. CASE q # p
    <3>1. op'[q] = op[q] /\ Critical(q)
      BY <1>3, <2>2 DEF Critical
    <3>2. op[q].ofd \in Ofds /\ op[q].ofd # o
      BY <1>1, <2>2, <3>1 DEF Links, OneUser, Alive, Critical, Locked, TypeOK, Operations
    <3> QED
      BY <1>5, <3>1, <3>2 DEF Links, LocksHeld
  <2> QED
    BY <2>1, <2>2
<1> QED
  BY <1>8, <1>9, <1>10, <1>11 DEF Links

\* Only its one user releases a description.
LEMMA UnlockLinks ==
  ASSUME TypeOK, Links, NEW p \in Procs, Unlock(p)
  PROVE  Links'
<1> DEFINE o == op[p].ofd
<1>1. Running(p) /\ o \in Ofds /\ o # NoOfd
  BY DEF Unlock, At, Links, Alive, TypeOK, Operations
<1>2. op'[p] = Idle /\ \A q \in Procs \ {p} : op'[q] = op[q]
  BY DEF Unlock, TypeOK
<1>3. \A q \in Procs : handle'[q] = handle[q] \/ handle'[q] = NoHandle
  BY DEF Unlock, TypeOK
<1>4. lock'[o] = "none" /\ \A u \in Ofds \ {o} : lock'[u] = lock[u]
  BY <1>1 DEF Unlock, TypeOK
<1>5. UNCHANGED <<file, status>>
  BY DEF Unlock
<1>6. /\ Idle.ofd = NoOfd /\ Idle.step = "idle" /\ Idle.do = "none"
      /\ NoHandle.ofd = NoOfd
  BY DEF Idle, Begun, NoHandle
<1>7. \A u \in Ofds : IsOpen(u)' => IsOpen(u)
  BY <1>2, <1>3, <1>6 DEF IsOpen
<1>8. LocksCompatible' /\ \A u \in Ofds : IsOpen(u)' => file'[u] \in Files
  BY <1>4, <1>5, <1>7, Shrink DEF Links, Alive
<1>9. Alive'
  BY <1>1, <1>2, <1>3, <1>5, <1>6, <1>8 DEF Links, Alive, Running, Keyed
<1>10. OneUser' /\ SamePid'
  BY <1>2, <1>3, <1>6 DEF Links, OneUser, SamePid
<1>11. LocksHeld'
  <2> SUFFICES ASSUME NEW q \in Procs, Critical(q)' PROVE lock'[op'[q].ofd] = Mode(op'[q].do)
    BY DEF LocksHeld, Mode
  <2>1. q # p /\ op'[q] = op[q] /\ Critical(q)
    BY <1>2, <1>6 DEF Critical, Locked
  <2>2. op[q].ofd \in Ofds /\ op[q].ofd # o
    BY <1>1, <2>1 DEF Links, OneUser, Alive, Critical, Locked, TypeOK, Operations
  <2> QED
    BY <1>4, <2>1, <2>2 DEF Links, LocksHeld
<1> QED
  BY <1>8, <1>9, <1>10, <1>11 DEF Links

\* A child has what its parent has, and the pid recorded with it.
LEMMA ForkLinks ==
  ASSUME TypeOK, Links, NEW p \in Procs, NEW c \in Procs, Fork(p, c)
  PROVE  Links'
<1>1. Running(p) /\ ~Running(c) /\ op[c] = Idle
  BY DEF Fork, At, Links, Alive
<1>2. handle'[c] = handle[p] /\ \A q \in Procs \ {c} : handle'[q] = handle[q]
  BY DEF Fork, TypeOK
<1>3. UNCHANGED <<file, lock, op>>
  BY DEF Fork
<1>4. status'[c] = "running" /\ \A q \in Procs \ {c} : status'[q] = status[q]
  BY DEF Fork, TypeOK
<1>5. \A o \in Ofds : IsOpen(o)' => IsOpen(o)
  BY <1>2, <1>3 DEF IsOpen
<1>6. LocksCompatible' /\ \A o \in Ofds : IsOpen(o)' => file'[o] \in Files
  BY <1>3, <1>5, Shrink DEF Links, Alive
<1>7. Alive'
  BY <1>1, <1>2, <1>3, <1>4, <1>6 DEF Links, Alive, Running
<1>8. OneUser' /\ SamePid'
  BY <1>2, <1>3 DEF Links, OneUser, SamePid
<1>9. LocksHeld'
  BY <1>3 DEF Links, LocksHeld, Critical, Mode
<1> QED
  BY <1>6, <1>7, <1>8, <1>9 DEF Links

\* Who dies, or removes its databases, lets go of descriptions.
LEMMA LeaveLinks ==
  ASSUME TypeOK, Links, NEW p \in Procs, Remove(p) \/ Kill(p)
  PROVE  Links'
<1>1. \A q \in Procs : handle'[q] = handle[q] \/ handle'[q] = NoHandle
  BY DEF Remove, Kill, TypeOK
<1>2. \A q \in Procs : op'[q] = op[q] \/ op'[q] = Idle
  BY DEF Remove, Kill, TypeOK
<1>3. \A q \in Procs : Running(q) /\ ~Running(q)' => handle'[q] = NoHandle /\ op'[q] = Idle
  BY DEF Remove, Kill, TypeOK, Running
<1>4. \A q \in Procs : Running(q)' => Running(q)
  BY DEF Remove, Kill, TypeOK, Running
<1>5. UNCHANGED <<file, lock>>
  BY DEF Remove, Kill
<1>6. /\ Idle.ofd = NoOfd /\ Idle.step = "idle" /\ Idle.do = "none"
      /\ NoHandle.ofd = NoOfd
  BY DEF Idle, Begun, NoHandle
<1>7. \A o \in Ofds : IsOpen(o)' => IsOpen(o)
  BY <1>1, <1>2, <1>6 DEF IsOpen
<1>8. LocksCompatible' /\ \A o \in Ofds : IsOpen(o)' => file'[o] \in Files
  BY <1>5, <1>7, Shrink DEF Links, Alive
<1>9. Alive'
  BY <1>1, <1>2, <1>3, <1>4, <1>6, <1>8 DEF Links, Alive, Keyed
<1>10. OneUser' /\ SamePid'
  BY <1>1, <1>2, <1>6 DEF Links, OneUser, SamePid
<1>11. LocksHeld'
  BY <1>2, <1>5, <1>6 DEF Links, LocksHeld, Critical, Mode, Locked
<1> QED
  BY <1>8, <1>9, <1>10, <1>11 DEF Links

\* Nothing is open in the initial states.
LEMMA LinksInit == Init => Links
<1> SUFFICES ASSUME Init PROVE Links
  OBVIOUS
<1>1. \A p \in Procs : op[p] = Idle /\ handle[p] = NoHandle
  BY DEF Init
<1>2. /\ Idle.ofd = NoOfd /\ Idle.step = "idle" /\ Idle.do = "none"
      /\ NoHandle.ofd = NoOfd
  BY DEF Idle, Begun, NoHandle
<1>3. \A o \in Ofds : ~IsOpen(o)
  BY <1>1, <1>2 DEF IsOpen
<1>4. Alive
  BY <1>1, <1>2, <1>3 DEF Alive, Keyed
<1>5. OneUser /\ SamePid
  BY <1>1, <1>2 DEF OneUser, SamePid
<1>6. LocksHeld
  BY <1>1, <1>2 DEF LocksHeld, Critical, Locked
<1>7. LocksCompatible
  BY <1>3 DEF LocksCompatible
<1> QED
  BY <1>4, <1>5, <1>6, <1>7 DEF Links

\* Every step of an operation keeps track of who has which description.
LEMMA WorkLinks ==
  ASSUME TypeOK, Links, NEW p \in Procs, Work(p)
  PROVE  Links'
<1>1. CASE ClassifyOk(p)
  BY <1>1, OpenedLinks DEF ClassifyOk, At, Locked
<1>2. CASE Truncate(p)
  BY <1>2, OpenedLinks DEF Truncate, At, Locked
<1>3. CASE ClassifyInit(p)
  <2>1. /\ Running(p) /\ op[p].step = "classify" /\ op'[p] = [op[p] EXCEPT !.step = "stamp"]
        /\ UNCHANGED <<file, lock, status, handle>> /\ \A q \in Procs \ {p} : op'[q] = op[q]
    BY <1>3 DEF ClassifyInit, At, Goto, TypeOK
  <2> QED
    BY <2>1, Quiet DEF TypeOK, Operations, Locked
<1>4. CASE Stamp(p)
  <2>1. /\ Running(p) /\ op[p].step = "stamp" /\ op'[p] = [op[p] EXCEPT !.step = "truncate"]
        /\ UNCHANGED <<file, lock, status, handle>> /\ \A q \in Procs \ {p} : op'[q] = op[q]
    BY <1>4 DEF Stamp, At, Goto, TypeOK
  <2> QED
    BY <2>1, Quiet DEF TypeOK, Operations, Locked
<1>5. CASE ReadDone(p)
  <2>1. PICK r \in Parses(Inode(p)) : op' = [op EXCEPT ![p].ok = r.ok, ![p].step = "unlock"]
    BY <1>5 DEF ReadDone
  <2>2. /\ Running(p) /\ op[p].step = "read"
        /\ UNCHANGED <<file, lock, status, handle>>
    BY <1>5 DEF ReadDone, At
  <2>3. /\ op'[p].ofd = op[p].ofd /\ op'[p].do = op[p].do /\ op'[p].key = op[p].key
        /\ op'[p].step = "unlock" /\ \A q \in Procs \ {p} : op'[q] = op[q]
    BY <2>1 DEF TypeOK, Operations
  <2> QED
    BY <2>2, <2>3, Quiet DEF Locked
<1>6. CASE ReadToWrite(p)
  <2>1. PICK r \in Parses(Inode(p)) :
          op' = [op EXCEPT ![p].copy = r.db, ![p].ok = r.ok,
                           ![p].step = IF r.ok THEN "grow" ELSE "unlock"]
    BY <1>6 DEF ReadToWrite
  <2>2. /\ Running(p) /\ op[p].step = "read"
        /\ UNCHANGED <<file, lock, status, handle>>
    BY <1>6 DEF ReadToWrite, At
  <2>3. /\ op'[p].ofd = op[p].ofd /\ op'[p].do = op[p].do /\ op'[p].key = op[p].key
        /\ op'[p].step \in {"grow", "unlock"} /\ \A q \in Procs \ {p} : op'[q] = op[q]
    BY <2>1 DEF TypeOK, Operations
  <2> QED
    BY <2>2, <2>3, Quiet DEF Locked
<1>7. CASE Grow(p)
  <2>1. /\ Running(p) /\ op[p].step = "grow" /\ op'[p] = [op[p] EXCEPT !.step = "write"]
        /\ UNCHANGED <<file, lock, status, handle>> /\ \A q \in Procs \ {p} : op'[q] = op[q]
    BY <1>7 DEF Grow, At, Goto, TypeOK
  <2> QED
    BY <2>1, Quiet DEF TypeOK, Operations, Locked
<1>8. CASE Write(p)
  <2>1. /\ Running(p) /\ op[p].step = "write" /\ op'[p] = [op[p] EXCEPT !.step = "unlock"]
        /\ UNCHANGED <<file, lock, status, handle>> /\ \A q \in Procs \ {p} : op'[q] = op[q]
    BY <1>8 DEF Write, At, Goto, TypeOK
  <2> QED
    BY <2>1, Quiet DEF TypeOK, Operations, Locked
<1> QED
  BY <1>1, <1>2, <1>3, <1>4, <1>5, <1>6, <1>7, <1>8, LockLinks, UnlockLinks DEF Work

\* Every step does.
LEMMA LinksStep == TypeOK /\ Links /\ [Next]_vars => Links'
<1> SUFFICES ASSUME TypeOK, Links, [Next]_vars PROVE Links'
  OBVIOUS
<1>1. CASE UNCHANGED vars
  BY <1>1 DEF vars, backing, Links, Alive, OneUser, SamePid, LocksHeld, LocksCompatible, Running,
              IsOpen, Critical, Mode
<1>2. CASE Next
  <2>1. PICK p \in Procs :
          \/ Work(p)
          \/ \E do \in Does : \E k \in KeysOf(do) :
               Use(p, do, k) \/ \E o \in Ofds : Open(p, do, k, o)
          \/ Remove(p) \/ Kill(p)
          \/ \E c \in Procs : Fork(p, c)
    BY <1>2 DEF Next
  <2> QED
    BY <2>1, WorkLinks, UseLinks, OpenLinks, LeaveLinks, ForkLinks
<1> QED
  BY <1>1, <1>2

\* A description has one user, and a writer's lock excludes the locks of the others: who has
\* read a backing to write it is the only one that has the lock.
LEMMA Excludes ==
  ASSUME TypeOK, Links, NEW p \in Procs, NEW q \in Procs, p # q,
         Critical(p), Critical(q), Inode(p) = Inode(q)
  PROVE  op[p].do \in Readers
<1> SUFFICES ASSUME op[p].do \notin Readers PROVE FALSE
  OBVIOUS
<1>1. /\ op[p].ofd \in Ofds /\ IsOpen(op[p].ofd)
      /\ op[q].ofd \in Ofds /\ IsOpen(op[q].ofd)
  BY InodeType DEF Links, Critical, Locked
<1>2. op[p].ofd # op[q].ofd
  BY <1>1 DEF Links, OneUser
<1>3. lock[op[p].ofd] = "ex" /\ lock[op[q].ofd] \in {"sh", "ex"}
  BY DEF Links, LocksHeld, Mode
<1> QED
  BY <1>1, <1>2, <1>3 DEF Links, LocksCompatible, Inode

\* The inductive invariant: descriptions are in the hands of one user each, with the pid
\* that opened them recorded, and the locks given out are compatible.
THEOREM Inductive == Spec => []StoreInv
<1>1. Init => TypeOK /\ Links
  BY TypeInit, LinksInit
<1>2. TypeOK /\ Links /\ [Next]_vars => (TypeOK /\ Links)'
  BY TypeStep, LinksStep DEF Links
<1>3. TypeOK /\ Links => StoreInv
  BY DEF Links, StoreInv
<1> QED
  BY <1>1, <1>2, <1>3, PTL DEF Spec

-----------------------------------------------------------------------------
(***************************************************************************)
(* The databases of FlockStore implement the abstract stores, for any      *)
(* processes, inodes, descriptions and variables, forks, kills and         *)
(* removals, if no script opens a backing that another is still making.    *)
(***************************************************************************)

NoRace == "race" \notin Habits

Opening(p) == op[p].step \in {"classify", "stamp", "truncate"}
Past(p) == op[p].step \in Locked \cup {"lock"}

\* A backing whose header is there, and whose first open is over.
Seen(f) == head[f] = "magic" /\ \A p \in Procs : op[p].step = "truncate" => Inode(p) # f

\* What is in a backing nobody has stored in.
FilesKnown ==
  /\ path # NoFile => head[path] # "none"
  /\ \A f \in Files : /\ head[f] = "none" => sound[f]
                      /\ head[f] # "magic" \/ ~sound[f] => body[f] = {}

\* Who has a database bound, or is past the opening of one, has seen its header.
HeadersSeen ==
  \A p \in Procs : /\ Past(p) => Seen(Inode(p))
                   /\ handle[p].ofd # NoOfd => Seen(file[handle[p].ofd])

\* One process at a time opens; what it is about to truncate is empty.
OpenedAlone ==
  /\ \A p, q \in Procs : Opening(p) /\ Opening(q) => p = q
  /\ \A p \in Procs :
       /\ Opening(p) => head[Inode(p)] # "none"
       /\ op[p].step = "stamp" => head[Inode(p)] # "magic"
       /\ op[p].step = "truncate" => head[Inode(p)] = "magic" /\ body[Inode(p)] = {}

\* What a writer has read is still there, or was lost to the writer's own set_len.
CopiesRead ==
  \A p \in Procs :
    /\ op[p].step \in {"grow", "write"} => op[p].do \notin Readers
    /\ op[p].step = "grow" => op[p].copy = body[Inode(p)]
    /\ op[p].step = "write" /\ sound[Inode(p)] => op[p].copy = body[Inode(p)]

Aside == FilesKnown /\ HeadersSeen /\ OpenedAlone /\ CopiesRead
SInv == TypeOK /\ Links /\ Aside

\* Opening, reading and writing are different steps.
LEMMA StepsApart ==
  ASSUME NEW p \in Procs
  PROVE  /\ Past(p) => ~Opening(p) /\ op[p].step # "idle"
         /\ Opening(p) => op[p].step # "idle"
         /\ Critical(p) => Past(p)
         /\ Idle.step = "idle" /\ Idle.ofd = NoOfd /\ NoHandle.ofd = NoOfd
  BY DEF Past, Opening, Locked, Critical, Idle, NoHandle, Begun

\* A header stays, and who starts to truncate has found none.
LEMMA SeenStays ==
  ASSUME NEW f \in Files, Seen(f), head'[f] = "magic",
         \A p \in Procs : op'[p].step = "truncate" =>
           \/ op[p].step = "truncate" /\ Inode(p)' = Inode(p)
           \/ head[Inode(p)'] # "magic"
  PROVE  Seen(f)'
  BY DEF Seen, Inode

\* Processes that go on leave the backings alone.
LEMMA AsideQuiet ==
  ASSUME TypeOK, Links, Aside, UNCHANGED backing,
         \A q \in Procs : op'[q].step \in {"grow", "write", "stamp", "truncate"} =>
           Inode(q)' = Inode(q),
         \A q \in Procs : Past(q)' => Seen(Inode(q)'),
         \A q \in Procs : handle'[q].ofd # NoOfd => Seen(file'[handle'[q].ofd]),
         \A q \in Procs : Opening(q)' => Opening(q) /\ Inode(q)' = Inode(q),
         \A q \in Procs : op'[q].step = "truncate" => op[q].step = "truncate",
         \A q \in Procs : op'[q].step = "stamp" => head[Inode(q)] # "magic",
         \A q \in Procs : op'[q].step = "write" =>
           op[q].step = "write" /\ op'[q].do = op[q].do /\ op'[q].copy = op[q].copy,
         \A q \in Procs : op'[q].step = "grow" =>
           op'[q].do \notin Readers /\ op'[q].copy = body[Inode(q)]
  PROVE  Aside'
<1>1. \A q \in Procs : op'[q].step = "truncate" => op[q].step = "truncate" /\ Inode(q)' = Inode(q)
  OBVIOUS
<1>2. \A f : Seen(f) => Seen(f)'
  BY <1>1 DEF Seen, Inode, backing
<1>3. HeadersSeen'
  BY <1>2 DEF HeadersSeen
<1>4. FilesKnown'
  BY DEF Aside, FilesKnown, backing
<1>5. OpenedAlone'
  BY <1>1 DEF Aside, OpenedAlone, backing
<1>6. CopiesRead'
  BY DEF Aside, CopiesRead, backing
<1> QED
  BY <1>3, <1>4, <1>5, <1>6 DEF Aside

------------------------------------------------------------------------------
(* Steps that leave the backings alone. *)

\* A process that goes on with its operation, description and inode kept.
LEMMA GotoAside ==
  ASSUME TypeOK, Links, Aside, NEW p \in Procs, UNCHANGED <<backing, file, handle>>,
         op'[p].ofd = op[p].ofd, op'[p].do = op[p].do,
         \A q \in Procs \ {p} : op'[q] = op[q],
         \/ op[p].step = "classify" /\ op'[p].step = "stamp" /\ head[Inode(p)] # "magic"
         \/ Past(p) /\ op'[p].step \in {"read", "unlock"}
         \/ /\ Past(p) /\ op'[p].step = "grow"
            /\ op'[p].do \notin Readers /\ op'[p].copy = body[Inode(p)]
  PROVE  Aside'
<1>1. \A q \in Procs : Inode(q)' = Inode(q)
  BY DEF Inode
<1>2. \A q \in Procs : Past(q)' => Past(q)
  BY DEF Past, Locked
<1>3. \A q \in Procs : Opening(q)' => Opening(q)
  BY DEF Opening
<1>4. \A q \in Procs : Past(q)' => Seen(Inode(q)')
  BY <1>1, <1>2 DEF Aside, HeadersSeen
<1>5. \A q \in Procs : handle'[q].ofd # NoOfd => Seen(file'[handle'[q].ofd])
  BY DEF Aside, HeadersSeen
<1>6. \A q \in Procs : op'[q].step = "stamp" => head[Inode(q)] # "magic"
  BY DEF Aside, OpenedAlone
<1>7. \A q \in Procs : op'[q].step = "truncate" => op[q].step = "truncate"
  OBVIOUS
<1>8. \A q \in Procs : op'[q].step = "grow" =>
        op'[q].do \notin Readers /\ op'[q].copy = body[Inode(q)]
  BY DEF Aside, CopiesRead
<1> QED
  BY <1>1, <1>3, <1>4, <1>5, <1>6, <1>7, <1>8, AsideQuiet

\* What is in the operations and handles after a step within an operation.
LEMMA Fields ==
  ASSUME TypeOK, NEW p \in Procs
  PROVE  /\ \A step \in Steps : Goto(p, step) =>
              /\ op'[p].ofd = op[p].ofd /\ op'[p].do = op[p].do /\ op'[p].step = step
              /\ op'[p].copy = op[p].copy /\ \A q \in Procs \ {p} : op'[q] = op[q]
         /\ Opened(p) =>
              /\ \/ op'[p] = Idle
                 \/ op'[p].ofd = op[p].ofd /\ op'[p].do = op[p].do /\ op'[p].step = "lock"
              /\ handle'[p] = handle[p] \/ handle'[p].ofd = op[p].ofd
              /\ \A q \in Procs \ {p} : op'[q] = op[q] /\ handle'[q] = handle[q]
              /\ file' = file /\ got' = got
<1>1. ASSUME NEW step \in Steps, Goto(p, step)
      PROVE  /\ op'[p].ofd = op[p].ofd /\ op'[p].do = op[p].do /\ op'[p].step = step
             /\ op'[p].copy = op[p].copy /\ \A q \in Procs \ {p} : op'[q] = op[q]
  BY <1>1 DEF Goto, TypeOK, Operations
<1>2. ASSUME Opened(p)
      PROVE  /\ \/ op'[p] = Idle
                \/ op'[p].ofd = op[p].ofd /\ op'[p].do = op[p].do /\ op'[p].step = "lock"
             /\ handle'[p] = handle[p] \/ handle'[p].ofd = op[p].ofd
             /\ \A q \in Procs \ {p} : op'[q] = op[q] /\ handle'[q] = handle[q]
             /\ file' = file /\ got' = got
  BY <1>2 DEF Opened, TypeOK, Operations
<1> QED
  BY <1>1, <1>2

\* What ReadDone and ReadToWrite make of the operation, and what they read.
LEMMA ReadFields ==
  ASSUME TypeOK, Links, Aside, NEW p \in Procs, op[p].step = "read",
         ReadDone(p) \/ ReadToWrite(p)
  PROVE  /\ op'[p].ofd = op[p].ofd /\ op'[p].do = op[p].do
         /\ \A q \in Procs \ {p} : op'[q] = op[q]
         /\ \/ op'[p].step = "unlock" /\ (got' = got \/ got' = [got EXCEPT ![p] = body[Inode(p)]])
            \/ /\ op'[p].step = "grow" /\ op[p].do \notin Readers
               /\ op'[p].copy = body[Inode(p)] /\ got' = got
<1> DEFINE f == Inode(p)
<1>1. f \in Files /\ (~sound[f] => body[f] = {})
  BY InodeType DEF Links, Aside, FilesKnown
<1> HIDE DEF f
<1>2. ASSUME NEW r \in Parses(f) PROVE r.ok \in BOOLEAN /\ (r.ok => r.db = body[f])
  <2>1. \/ r = [ok |-> TRUE, db |-> body[f]]
        \/ r = [ok |-> FALSE, db |-> {}]
        \/ r = [ok |-> TRUE, db |-> {}] /\ ~sound[f]
    BY DEF Parses
  <2>2. CASE r = [ok |-> TRUE, db |-> body[f]]
    BY <2>2
  <2>3. CASE r = [ok |-> FALSE, db |-> {}]
    BY <2>3
  <2>4. CASE r = [ok |-> TRUE, db |-> {}] /\ ~sound[f]
    BY <1>1, <2>4
  <2> QED
    BY <2>1, <2>2, <2>3, <2>4
<1>3. CASE ReadDone(p)
  <2>1. PICK r \in Parses(f) :
          /\ got' = IF r.ok THEN [got EXCEPT ![p] = r.db] ELSE got
          /\ op' = [op EXCEPT ![p].ok = r.ok, ![p].step = "unlock"]
    BY <1>3 DEF ReadDone, f
  <2>2. /\ op'[p].ofd = op[p].ofd /\ op'[p].do = op[p].do /\ op'[p].step = "unlock"
        /\ \A q \in Procs \ {p} : op'[q] = op[q]
    BY <2>1 DEF TypeOK, Operations
  <2>3. got' = got \/ got' = [got EXCEPT ![p] = body[f]]
    BY <1>2, <2>1
  <2> QED
    BY <2>2, <2>3 DEF f
<1>4. CASE ReadToWrite(p)
  <2>1. PICK r \in Parses(f) :
          op' = [op EXCEPT ![p].copy = r.db, ![p].ok = r.ok,
                           ![p].step = IF r.ok THEN "grow" ELSE "unlock"]
    BY <1>4 DEF ReadToWrite, f
  <2>2. /\ op'[p].ofd = op[p].ofd /\ op'[p].do = op[p].do /\ op'[p].copy = r.db
        /\ op'[p].step = (IF r.ok THEN "grow" ELSE "unlock")
        /\ \A q \in Procs \ {p} : op'[q] = op[q]
    BY <2>1 DEF TypeOK, Operations
  <2>3. got' = got /\ op[p].do \notin Readers
    BY <1>4 DEF ReadToWrite
  <2>4. CASE r.ok
    BY <1>2, <2>2, <2>3, <2>4 DEF f
  <2>5. CASE ~r.ok
    BY <2>2, <2>3, <2>5
  <2> QED
    BY <2>4, <2>5
<1> QED
  BY <1>3, <1>4

\* The process that has opened a backing knows that its header is there.
LEMMA ClassifyOkAside ==
  ASSUME TypeOK, Links, Aside, NEW p \in Procs, ClassifyOk(p)
  PROVE  Aside'
<1>1. op[p].step = "classify" /\ head[Inode(p)] = "magic" /\ UNCHANGED backing /\ Opened(p)
  BY DEF ClassifyOk, At
<1>2. Seen(Inode(p))
  <2>1. \A q \in Procs : op[q].step = "truncate" => q = p
    BY <1>1 DEF Aside, OpenedAlone, Opening
  <2> QED
    BY <1>1, <2>1 DEF Seen
<1>3. \/ op'[p] = Idle
      \/ op'[p].ofd = op[p].ofd /\ op'[p].do = op[p].do /\ op'[p].step = "lock"
  BY <1>1, Fields
<1>4. handle'[p] = handle[p] \/ handle'[p].ofd = op[p].ofd
  BY <1>1, Fields
<1>5. file' = file /\ \A q \in Procs \ {p} : op'[q] = op[q] /\ handle'[q] = handle[q]
  BY <1>1, Fields
<1>6. op'[p].step \in {"idle", "lock"}
  BY <1>3 DEF Idle, Begun
<1>7. \A q \in Procs : op'[q].step # "idle" => Inode(q)' = Inode(q)
  BY <1>3, <1>5, StepsApart DEF Inode
<1>8. \A q \in Procs : Past(q)' => Seen(Inode(q)')
  <2> SUFFICES ASSUME NEW q \in Procs, Past(q)' PROVE Seen(Inode(q)')
    OBVIOUS
  <2>1. Inode(q)' = Inode(q)
    BY <1>7 DEF Past, Locked
  <2>2. q = p \/ Past(q)
    BY <1>5 DEF Past
  <2> QED
    BY <1>2, <2>1, <2>2 DEF Aside, HeadersSeen
<1>9. \A q \in Procs : handle'[q].ofd # NoOfd => Seen(file'[handle'[q].ofd])
  BY <1>2, <1>4, <1>5 DEF Aside, HeadersSeen, Inode
<1>10. \A q \in Procs : Opening(q)' => Opening(q) /\ Inode(q)' = Inode(q)
  BY <1>5, <1>6 DEF Opening, Inode
<1>11. \A q \in Procs : op'[q].step \in {"grow", "write", "stamp", "truncate"} => q # p /\ op'[q] = op[q]
  BY <1>5, <1>6
<1> QED
  BY <1>1, <1>7, <1>8, <1>9, <1>10, <1>11, AsideQuiet DEF Aside, OpenedAlone, CopiesRead

\* The other steps within an operation that write nothing.
LEMMA LockAside ==
  ASSUME TypeOK, Links, Aside, NEW p \in Procs,
         ClassifyInit(p) \/ Lock(p) \/ ReadDone(p) \/ ReadToWrite(p)
  PROVE  Aside'
<1>1. CASE ClassifyInit(p)
  <2>1. op[p].step = "classify" /\ head[Inode(p)] # "magic" /\ Goto(p, "stamp")
    BY <1>1 DEF ClassifyInit, At
  <2>2. UNCHANGED <<backing, file, handle>>
    BY <1>1 DEF ClassifyInit
  <2> QED
    BY <2>1, <2>2, Fields, GotoAside DEF Steps
<1>2. CASE Lock(p)
  <2>1. op[p].step = "lock" /\ Goto(p, "read")
    BY <1>2 DEF Lock, At
  <2>2. UNCHANGED <<backing, file, handle>>
    BY <1>2 DEF Lock
  <2> QED
    BY <2>1, <2>2, Fields, GotoAside DEF Steps, Past
<1>3. CASE ReadDone(p) \/ ReadToWrite(p)
  <2>1. op[p].step = "read" /\ UNCHANGED <<backing, file, handle>>
    BY <1>3 DEF ReadDone, ReadToWrite, At
  <2>2. Past(p)
    BY <2>1 DEF Past, Locked
  <2> QED
    BY <1>3, <2>1, <2>2, ReadFields, GotoAside
<1> QED
  BY <1>1, <1>2, <1>3

\* Ending, dying and removing leave the others as they are, and so does forking.
LEMMA LeaveAside ==
  ASSUME TypeOK, Links, Aside, NEW p \in Procs,
         Unlock(p) \/ Remove(p) \/ Kill(p) \/ \E c \in Procs : Fork(p, c)
  PROVE  Aside'
<1>1. UNCHANGED <<head, body, sound, file>> /\ (path' = path \/ path' = NoFile)
  BY DEF Unlock, Remove, Kill, Fork, backing
<1>2. \A q \in Procs : op'[q] = op[q] \/ op'[q] = Idle
  BY DEF Unlock, Remove, Kill, Fork, TypeOK
<1>3. \A q \in Procs : \/ handle'[q] = NoHandle
                       \/ \E r \in Procs : handle'[q] = handle[r]
  BY DEF Unlock, Remove, Kill, Fork, TypeOK
<1>4. \A q \in Procs : op'[q].step # "idle" => op'[q] = op[q] /\ Inode(q)' = Inode(q)
  BY <1>1, <1>2, StepsApart DEF Inode
<1>5. \A f : Seen(f) => Seen(f)'
  BY <1>1, <1>4 DEF Seen, Inode
<1>6. HeadersSeen'
  <2>1. \A q \in Procs : Past(q)' => Past(q) /\ Inode(q)' = Inode(q)
    BY <1>4 DEF Past, Locked
  <2>2. \A q \in Procs : handle'[q].ofd # NoOfd => Seen(file'[handle'[q].ofd])
    BY <1>1, <1>3, StepsApart DEF Aside, HeadersSeen
  <2> QED
    BY <1>5, <2>1, <2>2 DEF Aside, HeadersSeen
<1>7. FilesKnown'
  BY <1>1, <1>4 DEF Aside, FilesKnown
<1>8. \A q \in Procs : Opening(q)' => op'[q] = op[q] /\ Opening(q) /\ Inode(q)' = Inode(q)
  BY <1>4 DEF Opening
<1>9. OpenedAlone'
  BY <1>1, <1>4, <1>8 DEF Aside, OpenedAlone
<1>10. CopiesRead'
  BY <1>1, <1>4 DEF Aside, CopiesRead
<1> QED
  BY <1>6, <1>7, <1>9, <1>10 DEF Aside

\* The next operation of a process that has the database bound starts at the lock.
LEMMA UseAside ==
  ASSUME TypeOK, Links, Aside, NEW p \in Procs, NEW do \in Does, NEW k, Use(p, do, k)
  PROVE  Aside'
<1>1. UNCHANGED <<backing, file, handle>> /\ handle[p] # NoHandle /\ op[p].step = "idle"
  BY DEF Use, MayStart, Opens, At
<1>2. op'[p].ofd = handle[p].ofd /\ op'[p].step = "lock"
  BY DEF Use, Begun, TypeOK
<1>3. \A q \in Procs \ {p} : op'[q] = op[q]
  BY DEF Use, TypeOK
<1>4. Seen(Inode(p)')
  BY <1>1, <1>2 DEF Links, Alive, Aside, HeadersSeen, Inode
<1>5. \A q \in Procs \ {p} : Inode(q)' = Inode(q)
  BY <1>1, <1>3 DEF Inode
<1>6. \A q \in Procs : Past(q)' => Seen(Inode(q)')
  <2> SUFFICES ASSUME NEW q \in Procs, Past(q)', q # p PROVE Seen(Inode(q)')
    BY <1>4
  <2>1. Past(q)
    BY <1>3 DEF Past
  <2> QED
    BY <1>5, <2>1 DEF Aside, HeadersSeen
<1>7. \A q \in Procs : handle'[q].ofd # NoOfd => Seen(file'[handle'[q].ofd])
  BY <1>1 DEF Aside, HeadersSeen
<1>8. \A q \in Procs : Opening(q)' => q # p /\ Opening(q)
  BY <1>2, <1>3 DEF Opening
<1>9. \A q \in Procs : op'[q].step \in {"grow", "write", "stamp", "truncate"} => q # p /\ op'[q] = op[q]
  BY <1>2, <1>3
<1> QED
  BY <1>1, <1>5, <1>6, <1>7, <1>8, <1>9, AsideQuiet DEF Aside, OpenedAlone, CopiesRead

------------------------------------------------------------------------------
(* Steps that write. *)

\* Nobody but the process that opens a backing has it open before it has a header.
LEMMA StampAside ==
  ASSUME TypeOK, Links, Aside, NEW p \in Procs, Stamp(p)
  PROVE  Aside'
<1> DEFINE f == Inode(p)
<1>1. op[p].step = "stamp" /\ f \in Files /\ head[f] # "magic" /\ head[f] # "none"
  BY InodeType DEF Stamp, At, Links, Aside, OpenedAlone, Opening
<1>2. UNCHANGED <<path, body, sound, file, handle>>
  BY DEF Stamp
<1>3. op'[p].ofd = op[p].ofd /\ op'[p].step = "truncate" /\ \A q \in Procs \ {p} : op'[q] = op[q]
  BY Fields DEF Stamp, Steps
<1>4. \A g \in Files : head'[g] = IF g = f THEN "magic" ELSE head[g]
  BY DEF Stamp, TypeOK
<1>5. \A q \in Procs : Inode(q)' = Inode(q)
  BY <1>2, <1>3 DEF Inode
<1>6. \A g \in Files : Seen(g) => Seen(g)'
  <2> SUFFICES ASSUME NEW g \in Files, Seen(g) PROVE Seen(g)'
    OBVIOUS
  <2>1. g # f /\ head'[g] = "magic"
    BY <1>1, <1>4 DEF Seen
  <2> QED
    BY <1>3, <1>5, <2>1 DEF Seen
<1>7. \A q \in Procs : Past(q)' => Past(q)
  BY <1>3 DEF Past, Locked
<1>8. HeadersSeen'
  <2>1. \A q \in Procs : Past(q)' => Inode(q)' \in Files /\ Seen(Inode(q)')
    BY <1>5, <1>7, InodeType, StepsApart DEF Aside, HeadersSeen, Links
  <2>2. \A q \in Procs : handle'[q].ofd # NoOfd =>
          file'[handle'[q].ofd] \in Files /\ Seen(file'[handle'[q].ofd])
    BY <1>2 DEF Aside, HeadersSeen, Links, Alive, IsOpen, TypeOK
  <2> QED
    BY <1>6, <2>1, <2>2 DEF HeadersSeen
<1>9. FilesKnown'
  BY <1>1, <1>2, <1>4 DEF Aside, FilesKnown, TypeOK
<1>10. \A q \in Procs : Opening(q)' => q = p
  BY <1>1, <1>3 DEF Opening, Aside, OpenedAlone
<1>11. body[f] = {} /\ head'[f] = "magic"
  BY <1>1, <1>4 DEF Aside, FilesKnown
<1>12. OpenedAlone'
  BY <1>2, <1>3, <1>5, <1>10, <1>11 DEF OpenedAlone, Opening
<1>13. CopiesRead'
  BY <1>2, <1>3, <1>5 DEF Aside, CopiesRead
<1> QED
  BY <1>8, <1>9, <1>12, <1>13 DEF Aside

\* Nobody has read from, or waits for, a backing that is being truncated.
LEMMA TruncatesAlone ==
  ASSUME TypeOK, Links, Aside, NEW p \in Procs, op[p].step = "truncate"
  PROVE  /\ Inode(p) \in Files /\ head[Inode(p)] = "magic" /\ body[Inode(p)] = {}
         /\ \A q \in Procs : Past(q) => Inode(q) # Inode(p)
         /\ \A q \in Procs : Opening(q) => q = p
         /\ \A q \in Procs : handle[q].ofd # NoOfd => file[handle[q].ofd] # Inode(p)
  BY InodeType DEF Links, Aside, OpenedAlone, Opening, HeadersSeen, Seen

LEMMA TruncateAside ==
  ASSUME TypeOK, Links, Aside, NEW p \in Procs, Truncate(p)
  PROVE  Aside'
<1> DEFINE f == Inode(p)
<1>1. op[p].step = "truncate" /\ Opened(p) /\ UNCHANGED <<path, head>>
  BY DEF Truncate, At
<1>2. /\ f \in Files /\ head[f] = "magic" /\ body[f] = {}
      /\ \A q \in Procs : Past(q) => Inode(q) # f
      /\ \A q \in Procs : Opening(q) => q = p
  BY <1>1, TruncatesAlone
<1>3. body' = body /\ \A g \in Files : sound'[g] = IF g = f THEN TRUE ELSE sound[g]
  BY <1>2 DEF Truncate, TypeOK
<1>4. \/ op'[p] = Idle
      \/ op'[p].ofd = op[p].ofd /\ op'[p].do = op[p].do /\ op'[p].step = "lock"
  BY <1>1, Fields
<1>5. handle'[p] = handle[p] \/ handle'[p].ofd = op[p].ofd
  BY <1>1, Fields
<1>6. file' = file /\ \A q \in Procs \ {p} : op'[q] = op[q] /\ handle'[q] = handle[q]
  BY <1>1, Fields
<1>7. op'[p].step \in {"idle", "lock"}
  BY <1>4 DEF Idle, Begun
<1>8. \A q \in Procs : ~Opening(q)'
  BY <1>2, <1>6, <1>7 DEF Opening
<1>9. \A q \in Procs : op'[q].step # "truncate"
  BY <1>8 DEF Opening
<1>10. \A g : head[g] = "magic" => Seen(g)'
  BY <1>1, <1>9 DEF Seen
<1>11. \A q \in Procs : Past(q)' => head[Inode(q)'] = "magic"
  <2> SUFFICES ASSUME NEW q \in Procs, Past(q)' PROVE head[Inode(q)'] = "magic"
    OBVIOUS
  <2>1. CASE q = p
    <3>1. op'[p].ofd = op[p].ofd
      BY <1>4, <2>1, StepsApart DEF Past, Locked
    <3> QED
      BY <1>2, <1>6, <2>1, <3>1 DEF Inode
  <2>2. CASE q # p
    <3>1. Past(q) /\ Inode(q)' = Inode(q)
      BY <1>6, <2>2 DEF Past, Inode
    <3> QED
      BY <3>1 DEF Aside, HeadersSeen, Seen
  <2> QED
    BY <2>1, <2>2
<1>12. \A q \in Procs : handle'[q].ofd # NoOfd => head[file'[handle'[q].ofd]] = "magic"
  BY <1>2, <1>5, <1>6 DEF Aside, HeadersSeen, Seen, Inode
<1>13. HeadersSeen'
  BY <1>10, <1>11, <1>12 DEF HeadersSeen
<1>14. FilesKnown'
  BY <1>1, <1>3 DEF Aside, FilesKnown
<1>15. OpenedAlone'
  BY <1>8, <1>9 DEF OpenedAlone, Opening
<1>16. CopiesRead'
  <2> SUFFICES ASSUME NEW q \in Procs, op'[q].step \in {"grow", "write"}
               PROVE  /\ op'[q].do \notin Readers
                      /\ op'[q].step = "grow" \/ sound'[Inode(q)'] => op'[q].copy = body'[Inode(q)']
    BY DEF CopiesRead, Inode
  <2>1. q # p /\ op'[q] = op[q] /\ Inode(q)' = Inode(q)
    BY <1>6, <1>7 DEF Inode
  <2>2. Past(q) /\ Inode(q) \in Files
    BY <2>1, InodeType DEF Past, Locked, Links
  <2>3. Inode(q) # f
    BY <1>2, <2>2
  <2> QED
    BY <1>3, <2>1, <2>2, <2>3 DEF Aside, CopiesRead
<1> QED
  BY <1>13, <1>14, <1>15, <1>16 DEF Aside

\* A process at grow or write is the only one that has read its backing.
LEMMA WritesAlone ==
  ASSUME TypeOK, Links, Aside, NEW p \in Procs, op[p].step \in {"grow", "write"}
  PROVE  /\ Inode(p) \in Files /\ head[Inode(p)] = "magic"
         /\ \A q \in Procs : q # p /\ Critical(q) => Inode(q) # Inode(p)
         /\ \A q \in Procs : op[q].step = "truncate" => Inode(q) # Inode(p)
<1>1. Critical(p) /\ Past(p) /\ op[p].do \notin Readers
  BY DEF Critical, Past, Locked, Aside, CopiesRead
<1> QED
  BY <1>1, Excludes, InodeType DEF Links, Aside, HeadersSeen, Seen

\* set_len and write_all touch the backing of the writer alone.
LEMMA WriteAside ==
  ASSUME TypeOK, Links, Aside, NEW p \in Procs, Grow(p) \/ Write(p)
  PROVE  Aside'
<1> DEFINE f == Inode(p)
<1>1. op[p].step \in {"grow", "write"} /\ UNCHANGED <<path, head, file, handle>>
  BY DEF Grow, Write, At
<1>2. /\ f \in Files /\ head[f] = "magic"
      /\ \A q \in Procs : q # p /\ Critical(q) => Inode(q) # f
      /\ \A q \in Procs : op[q].step = "truncate" => Inode(q) # f
  BY <1>1, WritesAlone
<1>3. /\ op'[p].ofd = op[p].ofd /\ op'[p].do = op[p].do /\ op'[p].copy = op[p].copy
      /\ op'[p].step \in {"write", "unlock"} /\ \A q \in Procs \ {p} : op'[q] = op[q]
      /\ op'[p].step = "write" => op[p].step = "grow"
  BY Fields DEF Grow, Write, Steps, At
<1>4. /\ \A g \in Files \ {f} : body'[g] = body[g] /\ sound'[g] = sound[g]
      /\ ~sound'[f] => body'[f] = {}
      /\ op'[p].step = "write" /\ sound'[f] => body'[f] = body[f]
  <2>1. body \in [Files -> SUBSET Keys] /\ sound \in [Files -> BOOLEAN] /\ (~sound[f] => body[f] = {})
    BY <1>2 DEF TypeOK, Aside, FilesKnown
  <2>2. CASE Grow(p)
    <3>1. \/ /\ body' = [body EXCEPT ![f] = {}]
             /\ sound' = [sound EXCEPT ![f] = FALSE]
          \/ UNCHANGED <<body, sound>>
      BY <2>2 DEF Grow
    <3> HIDE DEF f
    <3> QED
      BY <1>2, <2>1, <3>1
  <2>3. CASE Write(p)
    <3>1. /\ body' = [body EXCEPT ![f] = Result(op[p].do, op[p].key, op[p].copy)]
          /\ sound' = [sound EXCEPT ![f] = TRUE] /\ op'[p].step = "unlock"
      BY <2>3, Fields DEF Write, Steps
    <3> HIDE DEF f
    <3> QED
      BY <1>2, <2>1, <3>1
  <2> QED
    BY <2>2, <2>3
<1>5. \A q \in Procs : Inode(q)' = Inode(q)
  BY <1>1, <1>3 DEF Inode
<1>6. \A q \in Procs : op'[q].step = "truncate" => op[q].step = "truncate"
  BY <1>3
<1>7. \A g : Seen(g) => Seen(g)'
  BY <1>1, <1>5, <1>6 DEF Seen
<1>8. HeadersSeen'
  <2>1. \A q \in Procs : Past(q)' => Past(q)
    BY <1>1, <1>3 DEF Past, Locked
  <2>2. \A q \in Procs : Past(q)' => Seen(Inode(q)')
    BY <1>5, <2>1 DEF Aside, HeadersSeen
  <2>3. \A q \in Procs : handle'[q].ofd # NoOfd => Seen(file'[handle'[q].ofd])
    BY <1>1 DEF Aside, HeadersSeen
  <2> QED
    BY <1>7, <2>2, <2>3 DEF HeadersSeen
<1>9. FilesKnown'
  <2> SUFFICES ASSUME NEW g \in Files
               PROVE  /\ head[g] = "none" => sound'[g]
                      /\ head[g] # "magic" \/ ~sound'[g] => body'[g] = {}
    BY <1>1 DEF Aside, FilesKnown
  <2>1. CASE g = f
    BY <1>2, <1>4, <2>1
  <2>2. CASE g # f
    BY <1>4, <2>2 DEF Aside, FilesKnown
  <2> QED
    BY <2>1, <2>2
<1>10. OpenedAlone'
  <2>1. \A q \in Procs : Opening(q)' => Opening(q) /\ q # p /\ op'[q] = op[q]
    BY <1>3 DEF Opening
  <2>2. \A q \in Procs : op'[q].step \in {"stamp", "truncate"} => q # p /\ op'[q] = op[q]
    BY <1>3
  <2>3. \A q \in Procs : op'[q].step = "truncate" => body'[Inode(q)] = body[Inode(q)]
    BY <1>2, <1>4, <2>2, TruncatesAlone
  <2> QED
    BY <1>1, <1>5, <2>1, <2>2, <2>3 DEF Aside, OpenedAlone
<1>11. CopiesRead'
  <2> SUFFICES ASSUME NEW q \in Procs, op'[q].step \in {"grow", "write"}
               PROVE  /\ op'[q].do \notin Readers
                      /\ op'[q].step = "grow" \/ sound'[Inode(q)] => op'[q].copy = body'[Inode(q)]
    BY <1>5 DEF CopiesRead
  <2>1. CASE q = p
    BY <1>3, <1>4, <2>1 DEF Aside, CopiesRead
  <2>2. CASE q # p
    <3>1. op'[q] = op[q] /\ Critical(q) /\ Inode(q) \in Files
      BY <1>3, <2>2, InodeType DEF Critical, Locked, Links
    <3>2. Inode(q) # f
      BY <1>2, <2>2, <3>1
    <3> QED
      BY <1>4, <3>1, <3>2 DEF Aside, CopiesRead
  <2> QED
    BY <2>1, <2>2
<1> QED
  BY <1>8, <1>9, <1>10, <1>11 DEF Aside

\* A new description is nobody's, and leads to a backing that is made now, or to one
\* that nobody else is opening.
LEMMA OpenAside ==
  ASSUME NoRace, TypeOK, Links, Aside, NEW p \in Procs, NEW do \in Does, NEW k, NEW o \in Ofds,
         Open(p, do, k, o)
  PROVE  Aside'
<1>1. PICK f \in Files :
        /\ \/ head[f] = "none" /\ path' = f /\ head' = [head EXCEPT ![f] = "short"]
           \/ path # NoFile /\ f = path /\ UNCHANGED <<path, head>>
        /\ file' = [file EXCEPT ![o] = f]
  BY DEF Open
<1>2. UNCHANGED <<body, sound, handle>> /\ op[p].step = "idle" /\ ~IsOpen(o)
  BY DEF Open, MayStart, At
<1>3. \A q \in Procs : ~Opening(q)
  BY DEF Open, MayOpen, NoRace, Opening
<1>4. op'[p].ofd = o /\ op'[p].step = "classify"
  BY DEF Open, Begun, TypeOK
<1>5. \A q \in Procs \ {p} : op'[q] = op[q]
  BY DEF Open, TypeOK
<1>6. file'[o] = f /\ \A u \in Ofds \ {o} : file'[u] = file[u]
  BY <1>1 DEF TypeOK
<1>7. \A q \in Procs : op'[q].step \notin {"stamp", "truncate"}
  BY <1>3, <1>4, <1>5 DEF Opening
<1>8. /\ head[path'] # "none" \/ (path' = f /\ head'[f] = "short")
      /\ head'[f] # "none" /\ path' \in Files
      /\ \A g \in Files : head[g] # "none" => head'[g] = head[g]
      /\ \A g \in Files : head'[g] = head[g] \/ (head[g] = "none" /\ head'[g] = "short")
  BY <1>1 DEF TypeOK, Aside, FilesKnown
<1>9. \A g \in Files : Seen(g) => Seen(g)'
  BY <1>7, <1>8 DEF Seen
<1>10. \A q \in Procs : Past(q)' => q # p /\ Past(q) /\ Inode(q)' = Inode(q) /\ Inode(q) \in Files
  <2> SUFFICES ASSUME NEW q \in Procs, Past(q)'
               PROVE  q # p /\ Past(q) /\ Inode(q)' = Inode(q) /\ Inode(q) \in Files
    OBVIOUS
  <2>1. q # p /\ op'[q] = op[q] /\ Past(q)
    BY <1>4, <1>5 DEF Past, Locked
  <2>2. op[q].ofd \in Ofds /\ op[q].ofd # o /\ Inode(q) \in Files
    BY <1>2, <2>1, InodeType, StepsApart DEF Links, IsOpen
  <2> QED
    BY <1>6, <2>1, <2>2 DEF Inode
<1>11. \A q \in Procs : handle'[q].ofd # NoOfd =>
         /\ handle[q].ofd # NoOfd /\ file'[handle'[q].ofd] = file[handle[q].ofd]
         /\ file[handle[q].ofd] \in Files
  BY <1>2, <1>6 DEF IsOpen, TypeOK, Links, Alive
<1>12. HeadersSeen'
  BY <1>9, <1>10, <1>11 DEF Aside, HeadersSeen
<1>13. FilesKnown'
  <2>1. path' # NoFile => head'[path'] # "none"
    BY <1>8
  <2>2. \A g \in Files : /\ head'[g] = "none" => sound[g]
                         /\ head'[g] # "magic" \/ ~sound[g] => body[g] = {}
    BY <1>8 DEF Aside, FilesKnown
  <2> QED
    BY <1>2, <2>1, <2>2 DEF FilesKnown
<1>14. OpenedAlone'
  <2>1. \A q \in Procs : Opening(q)' => q = p
    BY <1>3, <1>5 DEF Opening
  <2>2. Inode(p)' = f
    BY <1>4, <1>6 DEF Inode
  <2> QED
    BY <1>7, <1>8, <2>1, <2>2 DEF OpenedAlone
<1>15. CopiesRead'
  <2> SUFFICES ASSUME NEW q \in Procs, op'[q].step \in {"grow", "write"}
               PROVE  /\ op'[q].do \notin Readers
                      /\ op'[q].step = "grow" \/ sound[Inode(q)'] => op'[q].copy = body[Inode(q)']
    BY <1>2 DEF CopiesRead
  <2>1. op'[q] = op[q] /\ Inode(q)' = Inode(q)
    BY <1>4, <1>5, <1>10 DEF Past, Locked
  <2> QED
    BY <2>1 DEF Aside, CopiesRead
<1> QED
  BY <1>12, <1>13, <1>14, <1>15 DEF Aside

------------------------------------------------------------------------------
\* Nothing is open or stored in the initial states.
LEMMA AsideInit == Init => Aside
<1> SUFFICES ASSUME Init PROVE Aside
  OBVIOUS
<1>1. \A p \in Procs : op[p] = Idle /\ handle[p] = NoHandle
  BY DEF Init
<1>2. \A p \in Procs : ~Past(p) /\ ~Opening(p) /\ op[p].step = "idle" /\ handle[p].ofd = NoOfd
  <2>1. \A p \in Procs : op[p].step = "idle" /\ handle[p].ofd = NoOfd
    BY <1>1, StepsApart
  <2> QED
    BY <2>1 DEF Past, Opening, Locked
<1>3. FilesKnown
  BY DEF Init, FilesKnown
<1> QED
  BY <1>2, <1>3 DEF Aside, HeadersSeen, OpenedAlone, CopiesRead, Opening

\* Every step keeps the invariant.
LEMMA AsideStep == NoRace /\ TypeOK /\ Links /\ Aside /\ [Next]_vars => Aside'
<1> SUFFICES ASSUME NoRace, TypeOK, Links, Aside, [Next]_vars PROVE Aside'
  OBVIOUS
<1>1. CASE UNCHANGED vars
  BY <1>1 DEF vars, backing, Aside, FilesKnown, HeadersSeen, OpenedAlone, CopiesRead, Opening,
              Past, Seen, Inode
<1>2. CASE Next
  <2>1. PICK p \in Procs :
          \/ Work(p)
          \/ \E do \in Does : \E k \in KeysOf(do) :
               Use(p, do, k) \/ \E o \in Ofds : Open(p, do, k, o)
          \/ Remove(p) \/ Kill(p)
          \/ \E c \in Procs : Fork(p, c)
    BY <1>2 DEF Next
  <2>2. CASE Work(p)
    BY <2>2, ClassifyOkAside, LockAside, StampAside, TruncateAside, WriteAside, LeaveAside DEF Work
  <2> QED
    BY <2>1, <2>2, UseAside, OpenAside, LeaveAside
<1> QED
  BY <1>1, <1>2

------------------------------------------------------------------------------
(* The abstract store seen in a state, and what a step does to it. *)

OnWrite(p, f) == op[p].step = "write" /\ Inode(p) = f

\* What the backing has when nobody is about to write it.
Found(f) == IF head[f] = "none" THEN "absent" ELSE IF sound[f] THEN "readable" ELSE "damaged"

Agrees ==
  \A f \in Files :
    /\ \A p \in Procs : OnWrite(p, f) => Contents(f) = op[p].copy /\ Condition(f) = "readable"
    /\ (\A p \in Procs : ~OnWrite(p, f)) => Contents(f) = body[f] /\ Condition(f) = Found(f)

\* A backing about to be written counts as what its only writer has read.
LEMMA Agree == SInv => Agrees
<1> SUFFICES ASSUME SInv, NEW f \in Files
             PROVE  /\ \A p \in Procs : OnWrite(p, f) =>
                         Contents(f) = op[p].copy /\ Condition(f) = "readable"
                    /\ (\A p \in Procs : ~OnWrite(p, f)) =>
                         Contents(f) = body[f] /\ Condition(f) = Found(f)
  BY DEF Agrees
<1>1. \A p \in Procs : p \in Writers(f) <=> OnWrite(p, f)
  BY StepsApart DEF Writers, OnWrite, At, SInv, Links, Alive
<1>2. ASSUME NEW p \in Procs, OnWrite(p, f)
      PROVE  Contents(f) = op[p].copy /\ Condition(f) = "readable"
  <2>1. \A q \in Procs : OnWrite(q, f) => q = p
    BY <1>2, WritesAlone DEF OnWrite, Critical, Locked, SInv
  <2>2. Writers(f) = {p}
    BY <1>1, <1>2, <2>1 DEF Writers
  <2>3. (CHOOSE q \in Writers(f) : TRUE) = p
    BY <2>2
  <2>4. head[f] # "none"
    BY <1>2, WritesAlone DEF OnWrite, SInv
  <2> QED
    BY <2>2, <2>3, <2>4 DEF Contents, Condition
<1>3. ASSUME \A p \in Procs : ~OnWrite(p, f) PROVE Writers(f) = {}
  BY <1>1, <1>3 DEF Writers
<1> QED
  BY <1>2, <1>3 DEF Contents, Condition, Found

Kept(f) == Contents(f)' = Contents(f) /\ Condition(f)' = Condition(f)

\* A backing no step touches is kept.
LEMMA Untouched ==
  ASSUME SInv, SInv', NEW f \in Files, body'[f] = body[f], sound'[f] = sound[f],
         head'[f] = "none" <=> head[f] = "none",
         \A p \in Procs : /\ OnWrite(p, f)' <=> OnWrite(p, f)
                          /\ OnWrite(p, f) => op'[p].copy = op[p].copy
  PROVE  Kept(f)
<1>1. Agrees /\ Agrees'
  <2>1. Agrees
    BY Agree
  <2>2. Agrees'
    BY Agree, PTL
  <2> QED
    BY <2>1, <2>2
<1>2. CASE \E p \in Procs : OnWrite(p, f)
  BY <1>1, <1>2 DEF Agrees, Kept
<1>3. CASE \A p \in Procs : ~OnWrite(p, f)
  BY <1>1, <1>3 DEF Agrees, Kept, Found
<1> QED
  BY <1>2, <1>3

Still == \A f \in Files : Kept(f)
Turns(f, c, db) ==
  /\ \A g \in Files \ {f} : Kept(g)
  /\ Condition(f)' = c /\ Contents(f)' = db /\ got' = got

\* The stores a step of with_write may leave.
Updates(db) == {{}} \cup {db \cup {k} : k \in Keys} \cup {db \ {k} : k \in Keys}

Moves ==
  \/ Still /\ got' = got
  \/ Still /\ \E p \in Procs, f \in Files :
                Condition(f) # "absent" /\ got' = [got EXCEPT ![p] = Contents(f)]
  \/ \E f \in Files : \/ Condition(f) \in {"absent", "damaged"} /\ Turns(f, "readable", {})
                      \/ Condition(f) = "readable" /\ Turns(f, "damaged", {})
                      \/ /\ Condition(f) = "readable"
                         /\ \E db \in Updates(Contents(f)) : Turns(f, "readable", db)

\* A step by which nobody comes to write or stops, and that writes nothing, is a stutter.
LEMMA Stutters ==
  ASSUME SInv, SInv', UNCHANGED <<body, sound>>,
         \A f \in Files : head'[f] = "none" <=> head[f] = "none",
         \A p \in Procs : op'[p].step = "write" <=> op[p].step = "write",
         \A p \in Procs : op[p].step = "write" => op'[p] = op[p] /\ Inode(p)' = Inode(p)
  PROVE  Still
<1> SUFFICES ASSUME NEW f \in Files PROVE Kept(f)
  BY DEF Still
<1>1. \A p \in Procs : OnWrite(p, f)' <=> OnWrite(p, f)
  BY DEF OnWrite
<1>2. \A p \in Procs : OnWrite(p, f) => op'[p].copy = op[p].copy
  BY DEF OnWrite
<1> QED
  BY <1>1, <1>2, Untouched

\* What the operations at write become in the step of another process.
LEMMA OthersWrite ==
  ASSUME TypeOK, Links, NEW p \in Procs, \A q \in Procs \ {p} : op'[q] = op[q],
         op[p].step # "write", op'[p].step # "write",
         \A o \in Ofds : IsOpen(o) => file'[o] = file[o]
  PROVE  /\ \A q \in Procs : op'[q].step = "write" <=> op[q].step = "write"
         /\ \A q \in Procs : op[q].step = "write" => op'[q] = op[q] /\ Inode(q)' = Inode(q)
  BY InodeType DEF Links, Inode

\* Opening an existing backing, and looking at its header, is no step of the store.
LEMMA OpenedMoves ==
  ASSUME SInv, SInv', NEW p \in Procs, ClassifyOk(p) \/ ClassifyInit(p) \/ Stamp(p)
  PROVE  Moves
<1>1. /\ UNCHANGED <<body, sound, file, got>> /\ op[p].step # "write"
  BY Fields DEF ClassifyOk, ClassifyInit, Stamp, SInv, At, backing
<1>2. op'[p].step # "write" /\ \A q \in Procs \ {p} : op'[q] = op[q]
  <2>1. CASE ClassifyOk(p)
    BY <2>1, Fields, StepsApart DEF ClassifyOk, SInv
  <2>2. CASE ClassifyInit(p)
    BY <2>2, Fields DEF ClassifyInit, SInv, Steps
  <2>3. CASE Stamp(p)
    BY <2>3, Fields DEF Stamp, SInv, Steps
  <2> QED
    BY <2>1, <2>2, <2>3
<1>3. \A f \in Files : head'[f] = "none" <=> head[f] = "none"
  <2>1. CASE Stamp(p)
    <3>1. Inode(p) \in Files /\ head[Inode(p)] # "none"
      BY <2>1, InodeType DEF Stamp, At, SInv, Links, Aside, OpenedAlone, Opening
    <3> QED
      BY <2>1, <3>1 DEF Stamp, SInv, TypeOK
  <2>2. CASE ~Stamp(p)
    BY <2>2 DEF ClassifyOk, ClassifyInit, backing
  <2> QED
    BY <2>1, <2>2
<1> QED
  BY <1>1, <1>2, <1>3, OthersWrite, Stutters DEF Moves, SInv

\* Truncating makes foreign contents an empty store, and changes nothing in a new one.
LEMMA TruncateMoves ==
  ASSUME SInv, SInv', NEW p \in Procs, Truncate(p)
  PROVE  Moves
<1>0. PICK f \in Files : f = Inode(p)
  BY InodeType DEF Truncate, At, SInv, Links
<1>1. op[p].step = "truncate" /\ Opened(p) /\ head' = head
  BY DEF Truncate, At
<1>2. /\ f \in Files /\ head[f] = "magic" /\ body[f] = {}
      /\ \A q \in Procs : Past(q) => Inode(q) # f
  BY <1>0, <1>1, TruncatesAlone DEF SInv
<1>3. body' = body /\ \A g \in Files : sound'[g] = IF g = f THEN TRUE ELSE sound[g]
  <2>1. body' = [body EXCEPT ![f] = {}] /\ sound' = [sound EXCEPT ![f] = TRUE]
    BY <1>0 DEF Truncate
  <2>2. body \in [Files -> SUBSET Keys] /\ sound \in [Files -> BOOLEAN]
    BY DEF SInv, TypeOK
  <2> QED
    BY <1>2, <2>1, <2>2
<1>4. op'[p].step # "write" /\ file' = file /\ got' = got /\ \A q \in Procs \ {p} : op'[q] = op[q]
  BY <1>1, Fields, StepsApart DEF SInv
<1>5. \A q \in Procs : op'[q].step = "write" <=> op[q].step = "write"
  BY <1>1, <1>4
<1>6. \A q \in Procs : op[q].step = "write" => op'[q] = op[q] /\ Inode(q)' = Inode(q)
  BY <1>1, <1>4 DEF Inode
<1>7. \A g \in Files : \A q \in Procs : /\ OnWrite(q, g)' <=> OnWrite(q, g)
                                        /\ OnWrite(q, g) => op'[q].copy = op[q].copy
  BY <1>5, <1>6 DEF OnWrite
<1>8. \A g \in Files \ {f} : Kept(g)
  BY <1>1, <1>3, <1>7, Untouched
<1>9. \A q \in Procs : ~OnWrite(q, f) /\ ~OnWrite(q, f)'
  <2>1. \A q \in Procs : ~OnWrite(q, f)
    BY <1>2 DEF OnWrite, Past, Locked
  <2> QED
    BY <1>7, <2>1
<1>10. Agrees'
  BY Agree, PTL
<1>11. Contents(f) = body[f] /\ Condition(f) = Found(f)
  BY <1>2, <1>9, Agree DEF Agrees
<1>12. Contents(f)' = body'[f] /\ Condition(f)' = Found(f)'
  BY <1>2, <1>9, <1>10 DEF Agrees
<1>13. Turns(f, "readable", {})
  BY <1>1, <1>2, <1>3, <1>4, <1>8, <1>12 DEF Turns, Found
<1>14. CASE sound[f]
  BY <1>1, <1>2, <1>3, <1>4, <1>8, <1>11, <1>12, <1>14 DEF Moves, Still, Kept, Found
<1>15. CASE ~sound[f]
  BY <1>2, <1>11, <1>13, <1>15 DEF Moves, Found
<1> QED
  BY <1>14, <1>15

\* A reader gets what is in the store: nobody is about to write there.
LEMMA ReadMoves ==
  ASSUME SInv, SInv', NEW p \in Procs, ReadDone(p) \/ ReadToWrite(p)
  PROVE  Moves
<1>1. op[p].step = "read" /\ UNCHANGED <<head, body, sound, file>>
  BY DEF ReadDone, ReadToWrite, At, backing
<1>2. PICK f \in Files : f = Inode(p)
  BY <1>1, InodeType DEF SInv, Links
<1>3. /\ op'[p].step # "write" /\ \A q \in Procs \ {p} : op'[q] = op[q]
      /\ got' = got \/ got' = [got EXCEPT ![p] = body[f]]
  BY <1>1, <1>2, ReadFields DEF SInv
<1>4. Still
  BY <1>1, <1>3, OthersWrite, Stutters DEF SInv
<1>5. Contents(f) = body[f] /\ Condition(f) # "absent"
  <2>1. Critical(p) /\ Past(p)
    BY <1>1 DEF Critical, Past, Locked
  <2>2. \A q \in Procs : ~OnWrite(q, f)
    BY <1>1, <1>2, <2>1, WritesAlone DEF OnWrite, SInv
  <2>3. head[f] = "magic"
    BY <1>2, <2>1 DEF SInv, Aside, HeadersSeen, Seen
  <2> QED
    BY <2>2, <2>3, Agree DEF Agrees, Found
<1> QED
  BY <1>3, <1>4, <1>5 DEF Moves

\* Locks, and the ends of operations, are no step of the store.
LEMMA LockMoves ==
  ASSUME SInv, SInv', NEW p \in Procs, Lock(p) \/ Unlock(p)
  PROVE  Moves
<1>1. op[p].step # "write" /\ UNCHANGED <<head, body, sound, file, got>>
  BY DEF Lock, Unlock, At, backing
<1>2. op'[p].step # "write" /\ \A q \in Procs \ {p} : op'[q] = op[q]
  <2>1. CASE Lock(p)
    BY <2>1, Fields DEF Lock, SInv, Steps
  <2>2. CASE Unlock(p)
    BY <2>2, StepsApart DEF Unlock, SInv, TypeOK
  <2> QED
    BY <2>1, <2>2
<1> QED
  BY <1>1, <1>2, OthersWrite, Stutters DEF Moves, SInv

\* set_len on a blob that nobody could read makes the store what was read, empty.
LEMMA GrowMoves ==
  ASSUME SInv, SInv', NEW p \in Procs, Grow(p)
  PROVE  Moves
<1>1. op[p].step = "grow" /\ UNCHANGED <<head, file, got>>
  BY DEF Grow, At
<1>2. PICK f \in Files : f = Inode(p)
  BY <1>1, InodeType DEF SInv, Links
<1>3. /\ head[f] = "magic" /\ op[p].copy = body[f] /\ (~sound[f] => body[f] = {})
      /\ \A q \in Procs : q # p /\ Critical(q) => Inode(q) # f
  BY <1>1, <1>2, WritesAlone DEF SInv, Aside, CopiesRead, FilesKnown
<1>4. /\ op'[p].ofd = op[p].ofd /\ op'[p].copy = op[p].copy /\ op'[p].step = "write"
      /\ \A q \in Procs \ {p} : op'[q] = op[q]
  BY Fields DEF Grow, Steps, SInv
<1>5. \A g \in Files \ {f} : body'[g] = body[g] /\ sound'[g] = sound[g]
  <2>1. \/ body' = [body EXCEPT ![f] = {}] /\ sound' = [sound EXCEPT ![f] = FALSE]
        \/ UNCHANGED <<body, sound>>
    BY <1>2 DEF Grow
  <2>2. body \in [Files -> SUBSET Keys] /\ sound \in [Files -> BOOLEAN]
    BY DEF SInv, TypeOK
  <2> QED
    BY <2>1, <2>2
<1>6. \A q \in Procs : Inode(q)' = Inode(q)
  BY <1>1, <1>4 DEF Inode
<1>7. \A g \in Files \ {f} : \A q \in Procs : /\ OnWrite(q, g)' <=> OnWrite(q, g)
                                              /\ OnWrite(q, g) => op'[q].copy = op[q].copy
  BY <1>1, <1>2, <1>4, <1>6 DEF OnWrite
<1>8. \A g \in Files \ {f} : Kept(g)
  BY <1>1, <1>5, <1>7, Untouched
<1>9. \A q \in Procs : ~OnWrite(q, f)
  BY <1>1, <1>3 DEF OnWrite, Critical, Locked
<1>10. OnWrite(p, f)'
  BY <1>2, <1>4, <1>6 DEF OnWrite
<1>11. Agrees'
  BY Agree, PTL
<1>12. Contents(f) = body[f] /\ Condition(f) = Found(f)
  BY <1>9, Agree DEF Agrees
<1>13. Contents(f)' = body[f] /\ Condition(f)' = "readable"
  BY <1>3, <1>4, <1>10, <1>11 DEF Agrees
<1>14. CASE sound[f]
  BY <1>1, <1>3, <1>8, <1>12, <1>13, <1>14 DEF Moves, Still, Kept, Found
<1>15. CASE ~sound[f]
  <2>1. Turns(f, "readable", {})
    BY <1>1, <1>3, <1>8, <1>13, <1>15 DEF Turns
  <2> QED
    BY <1>3, <1>12, <1>15, <2>1 DEF Moves, Found
<1> QED
  BY <1>14, <1>15

\* write_all makes the store what the closure of with_write made of what was read.
LEMMA WriteMoves ==
  ASSUME SInv, SInv', NEW p \in Procs, Write(p)
  PROVE  Moves
<1>1. op[p].step = "write" /\ UNCHANGED <<head, file, got>>
  BY DEF Write, At
<1>2. PICK f \in Files : f = Inode(p)
  BY <1>1, InodeType DEF SInv, Links
<1>3. /\ head[f] = "magic"
      /\ \A q \in Procs : q # p /\ Critical(q) => Inode(q) # f
  BY <1>1, <1>2, WritesAlone DEF SInv
<1>4. /\ op'[p].step = "unlock" /\ op'[p].ofd = op[p].ofd
      /\ \A q \in Procs \ {p} : op'[q] = op[q]
  BY Fields DEF Write, Steps, SInv
<1> DEFINE db == Result(op[p].do, op[p].key, op[p].copy)
<1>5. /\ body'[f] = db /\ sound'[f] = TRUE
      /\ \A g \in Files \ {f} : body'[g] = body[g] /\ sound'[g] = sound[g]
  <2>1. body' = [body EXCEPT ![f] = db] /\ sound' = [sound EXCEPT ![f] = TRUE]
    BY <1>2 DEF Write
  <2>2. body \in [Files -> SUBSET Keys] /\ sound \in [Files -> BOOLEAN]
    BY DEF SInv, TypeOK
  <2> QED
    BY <2>1, <2>2
<1>6. \A q \in Procs : Inode(q)' = Inode(q)
  BY <1>1, <1>4 DEF Inode
<1>7. \A g \in Files \ {f} : \A q \in Procs : /\ OnWrite(q, g)' <=> OnWrite(q, g)
                                              /\ OnWrite(q, g) => op'[q].copy = op[q].copy
  BY <1>1, <1>2, <1>4, <1>6 DEF OnWrite
<1>8. \A g \in Files \ {f} : Kept(g)
  BY <1>1, <1>5, <1>7, Untouched
<1>9. OnWrite(p, f)
  BY <1>1, <1>2 DEF OnWrite
<1>10. \A q \in Procs : ~OnWrite(q, f)'
  BY <1>3, <1>4, <1>6 DEF OnWrite, Critical, Locked
<1>11. Agrees'
  BY Agree, PTL
<1>12. Contents(f) = op[p].copy /\ Condition(f) = "readable"
  BY <1>9, Agree DEF Agrees
<1>13. Contents(f)' = db /\ Condition(f)' = "readable"
  BY <1>1, <1>3, <1>5, <1>10, <1>11 DEF Agrees, Found
<1>14. db \in Updates(op[p].copy)
  BY DEF Result, Updates, SInv, Links, Alive, Keyed
<1> HIDE DEF db
<1>15. Turns(f, "readable", db)
  BY <1>1, <1>8, <1>13 DEF Turns
<1> QED
  BY <1>12, <1>14, <1>15 DEF Moves

\* A writer that is killed after its set_len leaves the store damaged; other kills,
\* removals and forks are no steps of it.
LEMMA LeaveMoves ==
  ASSUME SInv, SInv', NEW p \in Procs,
         Remove(p) \/ Kill(p) \/ \E c \in Procs : Fork(p, c)
  PROVE  Moves
<1>1. UNCHANGED <<head, body, sound, file, got>>
  BY DEF Remove, Kill, Fork, backing
<1>2. /\ op'[p] = op[p] \/ (Kill(p) /\ op'[p].step = "idle")
      /\ \A q \in Procs \ {p} : op'[q] = op[q]
  BY StepsApart DEF Remove, Kill, Fork, SInv, TypeOK
<1>3. CASE op'[p] = op[p] \/ op[p].step # "write"
  <2>1. \A q \in Procs : op'[q].step = "write" <=> op[q].step = "write"
    BY <1>2, <1>3
  <2>2. \A q \in Procs : op[q].step = "write" => op'[q] = op[q] /\ Inode(q)' = Inode(q)
    BY <1>1, <1>2, <1>3 DEF Inode
  <2> QED
    BY <1>1, <2>1, <2>2, Stutters DEF Moves
<1>4. CASE op'[p].step = "idle" /\ op[p].step = "write"
  <2>1. PICK f \in Files : f = Inode(p)
    BY <1>4, InodeType DEF SInv, Links
  <2>2. /\ head[f] = "magic"
        /\ \A q \in Procs : q # p /\ Critical(q) => Inode(q) # f
    BY <1>4, <2>1, WritesAlone DEF SInv
  <2>3. /\ OnWrite(p, f) /\ (sound[f] => op[p].copy = body[f]) /\ (~sound[f] => body[f] = {})
    BY <1>4, <2>1 DEF OnWrite, SInv, Aside, CopiesRead, FilesKnown
  <2>4. \A q \in Procs : q # p => op'[q] = op[q] /\ Inode(q)' = Inode(q)
    BY <1>1, <1>2 DEF Inode
  <2>5. \A q \in Procs : ~OnWrite(q, f)'
    BY <1>4, <2>2, <2>4 DEF OnWrite, Critical, Locked
  <2>6. \A g \in Files \ {f} : \A q \in Procs : /\ OnWrite(q, g)' <=> OnWrite(q, g)
                                                /\ OnWrite(q, g) => op'[q].copy = op[q].copy
    BY <1>4, <2>1, <2>4 DEF OnWrite
  <2>7. \A g \in Files \ {f} : Kept(g)
    BY <1>1, <2>6, Untouched
  <2>8. Agrees'
    BY Agree, PTL
  <2>9. Contents(f) = op[p].copy /\ Condition(f) = "readable"
    BY <2>3, Agree DEF Agrees
  <2>10. Contents(f)' = body[f] /\ Condition(f)' = Found(f)
    BY <1>1, <2>5, <2>8 DEF Agrees, Found
  <2>11. CASE sound[f]
    BY <1>1, <2>2, <2>3, <2>7, <2>9, <2>10, <2>11 DEF Moves, Still, Kept, Found
  <2>12. CASE ~sound[f]
    <3>1. Turns(f, "damaged", {})
      BY <1>1, <2>2, <2>3, <2>7, <2>10, <2>12 DEF Turns, Found
    <3> QED
      BY <2>9, <3>1 DEF Moves
  <2> QED
    BY <2>11, <2>12
<1> QED
  BY <1>2, <1>3, <1>4

\* Waiting for the lock is no step of the store.
LEMMA UseMoves ==
  ASSUME SInv, SInv', NEW p \in Procs, NEW do \in Does, NEW k, Use(p, do, k)
  PROVE  Moves
<1>1. op[p].step # "write" /\ UNCHANGED <<head, body, sound, file, got>>
  BY DEF Use, MayStart, At, backing
<1>2. op'[p].step # "write" /\ \A q \in Procs \ {p} : op'[q] = op[q]
  BY DEF Use, Begun, SInv, TypeOK
<1> QED
  BY <1>1, <1>2, OthersWrite, Stutters DEF Moves, SInv

\* Opening a name that is free makes an empty store.
LEMMA OpenMoves ==
  ASSUME SInv, SInv', NEW p \in Procs, NEW do \in Does, NEW k, NEW o \in Ofds, Open(p, do, k, o)
  PROVE  Moves
<1>1. PICK f \in Files :
        /\ \/ head[f] = "none" /\ head' = [head EXCEPT ![f] = "short"]
           \/ UNCHANGED head
        /\ file' = [file EXCEPT ![o] = f]
  BY DEF Open
<1>2. UNCHANGED <<body, sound, got>> /\ op[p].step = "idle" /\ ~IsOpen(o)
  BY DEF Open, MayStart, At
<1>3. op'[p].step # "write" /\ \A q \in Procs \ {p} : op'[q] = op[q]
  BY DEF Open, Begun, SInv, TypeOK
<1>4. \A u \in Ofds : IsOpen(u) => file'[u] = file[u]
  BY <1>1, <1>2 DEF SInv, TypeOK
<1>5. /\ \A q \in Procs : op'[q].step = "write" <=> op[q].step = "write"
      /\ \A q \in Procs : op[q].step = "write" => op'[q] = op[q] /\ Inode(q)' = Inode(q)
  BY <1>2, <1>3, <1>4, OthersWrite DEF SInv
<1>6. CASE UNCHANGED head
  BY <1>2, <1>5, <1>6, Stutters DEF Moves
<1>7. CASE head[f] = "none" /\ head' = [head EXCEPT ![f] = "short"]
  <2>1. /\ head'[f] = "short" /\ \A g \in Files \ {f} : head'[g] = head[g]
        /\ sound[f] /\ body[f] = {}
    BY <1>7 DEF SInv, TypeOK, Aside, FilesKnown
  <2>2. \A g \in Files : \A q \in Procs : /\ OnWrite(q, g)' <=> OnWrite(q, g)
                                          /\ OnWrite(q, g) => op'[q].copy = op[q].copy
    BY <1>5 DEF OnWrite
  <2>3. \A g \in Files \ {f} : Kept(g)
    BY <1>2, <2>1, <2>2, Untouched
  <2>4. \A q \in Procs : ~OnWrite(q, f) /\ ~OnWrite(q, f)'
    BY <1>7, <2>2, WritesAlone DEF OnWrite, SInv
  <2>5. Agrees'
    BY Agree, PTL
  <2>6. Condition(f) = "absent"
    BY <1>7, <2>4, Agree DEF Agrees, Found
  <2>7. Contents(f)' = {} /\ Condition(f)' = "readable"
    BY <1>2, <2>1, <2>4, <2>5 DEF Agrees, Found
  <2> QED
    BY <1>2, <2>3, <2>6, <2>7 DEF Moves, Turns
<1> QED
  BY <1>1, <1>6, <1>7

\* Every step moves the stores as AbstractStore does.
LEMMA StepMoves == SInv /\ SInv' /\ [Next]_vars => Moves
<1> SUFFICES ASSUME SInv, SInv', [Next]_vars PROVE Moves
  OBVIOUS
<1>1. CASE UNCHANGED vars
  <2>1. UNCHANGED <<head, body, sound, file, got, op>>
    BY <1>1 DEF vars, backing
  <2> QED
    BY <2>1, Stutters DEF Moves, Inode
<1>2. CASE Next
  <2>1. PICK p \in Procs :
          \/ Work(p)
          \/ \E do \in Does : \E k \in KeysOf(do) :
               Use(p, do, k) \/ \E o \in Ofds : Open(p, do, k, o)
          \/ Remove(p) \/ Kill(p)
          \/ \E c \in Procs : Fork(p, c)
    BY <1>2 DEF Next
  <2>2. CASE Work(p)
    BY <2>2, OpenedMoves, TruncateMoves, LockMoves, ReadMoves, GrowMoves, WriteMoves DEF Work
  <2> QED
    BY <2>1, <2>2, UseMoves, OpenMoves, LeaveMoves
<1> QED
  BY <1>1, <1>2

------------------------------------------------------------------------------
(* The refinement. *)

\* Such a step is one of AbstractStore, or a stutter.
LEMMA MovesRefine ==
  ASSUME Moves
  PROVE  [Abs!Next]_(Abs!vars)
<1> DEFINE con == [f \in Files |-> Contents(f)]
           cond == [f \in Files |-> Condition(f)]
<1>1. ASSUME Still PROVE con' = con /\ cond' = cond
  BY <1>1 DEF Still, Kept
<1>2. ASSUME NEW f \in Files, NEW c, NEW db, Turns(f, c, db) PROVE Abs!Becomes(f, c, db)
  <2>1. con' = [con EXCEPT ![f] = db] /\ cond' = [cond EXCEPT ![f] = c] /\ got' = got
    BY <1>2 DEF Turns, Kept
  <2> QED
    BY <2>1 DEF Abs!Becomes
<1>3. \A f \in Files : con[f] = Contents(f) /\ cond[f] = Condition(f)
  OBVIOUS
<1>4. CASE Still /\ got' = got
  BY <1>1, <1>4 DEF Abs!vars
<1>5. CASE Still /\ \E p \in Procs, f \in Files :
                      Condition(f) # "absent" /\ got' = [got EXCEPT ![p] = Contents(f)]
  <2>1. PICK p \in Procs, f \in Files :
          Condition(f) # "absent" /\ got' = [got EXCEPT ![p] = Contents(f)]
    BY <1>5
  <2>2. Abs!Read(p, f)
    BY <1>1, <1>3, <1>5, <2>1 DEF Abs!Read
  <2> QED
    BY <2>2 DEF Abs!Next
<1>6. ASSUME NEW f \in Files, Condition(f) \in {"absent", "damaged"}, Turns(f, "readable", {})
      PROVE  Abs!Create(f) \/ Abs!Salvage(f)
  BY <1>2, <1>3, <1>6 DEF Abs!Create, Abs!Salvage
<1>7. ASSUME NEW f \in Files, Condition(f) = "readable", Turns(f, "damaged", {})
      PROVE  Abs!Damage(f)
  BY <1>2, <1>3, <1>7 DEF Abs!Damage
<1>8. ASSUME NEW f \in Files, Condition(f) = "readable",
             NEW db \in Updates(Contents(f)), Turns(f, "readable", db)
      PROVE  Abs!Update(f)
  BY <1>2, <1>3, <1>8 DEF Abs!Update, Updates
<1> QED
  BY <1>4, <1>5, <1>6, <1>7, <1>8 DEF Moves, Abs!Next

\* Nothing is stored in the initial states.
LEMMA InitRefines == Init => Abs!Init
<1> SUFFICES ASSUME Init PROVE Abs!Init
  OBVIOUS
<1>1. TypeOK /\ Links /\ Aside
  BY TypeInit, LinksInit, AsideInit
<1>2. \A p \in Procs : op[p].step = "idle"
  BY StepsApart DEF Init
<1>3. \A f \in Files : Contents(f) = body[f] /\ Condition(f) = Found(f)
  BY <1>1, <1>2, Agree DEF SInv, Agrees, OnWrite
<1>4. \A f \in Files : body[f] = {} /\ Found(f) \in {"absent", "damaged"}
  BY DEF Init, Found
<1>5. got = [p \in Procs |-> {}]
  BY DEF Init
<1> QED
  BY <1>3, <1>4, <1>5 DEF Abs!Init

\* Who replaces a header is the only one that has anything to do with that backing.
LEMMA HeaderAlone ==
  ASSUME TypeOK, Links, Aside, NEW p \in Procs, op[p].step \in {"stamp", "truncate"}
  PROVE  \A q \in Procs : q # p /\ InUse(q) => Inode(q) # Inode(p)
  BY DEF InUse, Critical, Past, Locked, Opening, Links, Aside, OpenedAlone, HeadersSeen, Seen

\* The invariant that the locks, and the openings without a lock, are kept by.
LEMMA StoreHolds == NoRace => (Spec => []SInv)
<1> SUFFICES ASSUME NoRace PROVE Spec => []SInv
  OBVIOUS
<1>1. Init => SInv
  BY TypeInit, LinksInit, AsideInit DEF SInv
<1>2. SInv /\ [Next]_vars => SInv'
  BY TypeStep, LinksStep, AsideStep DEF SInv, Links
<1> QED
  BY <1>1, <1>2, PTL DEF Spec

\* No process writes a database, or replaces its header without a lock, while another one
\* reads or writes it: whatever forks, deaths, pids used again and removals there are, if
\* the first opens of a backing do not race.
THEOREM StoreExclusion == "race" \notin Habits => (Spec => []Exclusion)
<1> SUFFICES ASSUME NoRace PROVE Spec => []Exclusion
  BY DEF NoRace
<1>1. SInv => Exclusion
  <2> SUFFICES ASSUME SInv, NEW p \in Procs, NEW q \in Procs, p # q, InUse(p), InUse(q),
                      Inode(p) = Inode(q)
               PROVE  Shares(p)
    BY DEF Exclusion
  <2>1. Critical(p) /\ Critical(q)
    BY HeaderAlone DEF SInv, InUse
  <2> QED
    BY <2>1, Excludes DEF SInv, Shares
<1> QED
  BY <1>1, StoreHolds, PTL

\* The databases implement the abstract stores: every update is applied whole, to what the
\* updates before it have left, readers get one moment's contents, and a writer that dies
\* damages its backing or changes nothing, if the first opens of a backing do not race.
THEOREM StoreRefines == "race" \notin Habits => (Spec => ImplementsAbstractStore)
<1> SUFFICES ASSUME NoRace PROVE Spec => ImplementsAbstractStore
  BY DEF NoRace
<1>1. SInv /\ SInv' /\ [Next]_vars => [Abs!Next]_(Abs!vars)
  BY StepMoves, MovesRefine
<1> QED
  BY <1>1, StoreHolds, InitRefines, PTL DEF Spec, ImplementsAbstractStore, Abs!Spec

==============================================================================
