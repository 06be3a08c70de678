----------------------------- MODULE FlockStore ------------------------------
(***************************************************************************)
(* A variable database in a file or a POSIX shared memory object           *)
(* (l_builtin/src/vardb.rs, FlockBackend), with the subcommands and the    *)
(* variable accesses of cmd_shm.rs that read and write it.  Each process   *)
(* opens the backing by name, checks its magic header, takes a flock(2) of *)
(* its own open-file-description, and reads or rewrites the whole blob.    *)
(* Processes fork, are killed at every step, and reuse the pids of dead    *)
(* ones: a process is its pid.  The contents of a database are the names   *)
(* of the variables stored in it.                                          *)
(***************************************************************************)
EXTENDS Naturals

CONSTANTS Procs, Shells,   \* pids, and those of the unrelated first processes
          Files, NoFile,   \* inodes
          Ofds, NoOfd,     \* open-file-descriptions
          NoProc, Keys, NoKey,
          Does,            \* the operations scripts use
          Habits,          \* "race": open a backing while another first opens it;
                           \* "mortal": processes are killed; "rm": databases are removed
          MaxOps           \* bound: operations started by all processes together

AllDoes == {"bind", "seed", "get", "unbind", "put", "drop", "sync", "clear", "info"}

ASSUME StoreAssumption ==
  /\ Shells \subseteq Procs /\ NoProc \notin Procs
  /\ NoFile \notin Files /\ NoOfd \notin Ofds /\ NoKey \notin Keys
  /\ Does \subseteq AllDoes /\ Habits \subseteq {"race", "mortal", "rm"}
  /\ MaxOps \in Nat

VARIABLES
  path,    \* the inode the name of the backing leads to
  head,    \* the header of each inode: "none" (no inode), "short", "magic", "alien"
  body,    \* the database that follows the header,
  sound,   \* if rkyv wrote it whole, and neither a dead writer nor a foreign program
  file,    \* the inode of each open-file-description
  lock,    \* the flock each open-file-description holds
  status,  \* of each pid: "running", or "absent" when no process has it
  handle,  \* FlockState of the database a process has bound: description and pid
  op,      \* the operation each process is in
  got,     \* what each process read last
  ops,     \* operations started
  left     \* history: descriptions that a process was killed with while it had the lock

backing == <<path, head, body, sound>>
vars == <<backing, file, lock, status, handle, op, got, ops, left>>

NoHandle == [ofd |-> NoOfd, pid |-> NoProc]
Begun(do, k, o, step) ==
  [do |-> do, key |-> k, ofd |-> o, step |-> step, copy |-> {}, ok |-> TRUE]
Idle == Begun("none", NoKey, NoOfd, "idle")

Steps == {"idle", "classify", "stamp", "truncate", "lock", "read", "grow", "write", "unlock"}
Operations ==
  [do : AllDoes \cup {"none"}, key : Keys \cup {NoKey}, ofd : Ofds \cup {NoOfd},
   step : Steps, copy : SUBSET Keys, ok : BOOLEAN]

TypeOK ==
  /\ path \in Files \cup {NoFile}
  /\ head \in [Files -> {"none", "short", "magic", "alien"}]
  /\ body \in [Files -> SUBSET Keys]
  /\ sound \in [Files -> BOOLEAN]
  /\ file \in [Ofds -> Files \cup {NoFile}]
  /\ lock \in [Ofds -> {"none", "sh", "ex"}]
  /\ status \in [Procs -> {"absent", "running"}]
  /\ handle \in [Procs -> [ofd : Ofds \cup {NoOfd}, pid : Procs \cup {NoProc}]]
  /\ op \in [Procs -> Operations]
  /\ got \in [Procs -> SUBSET Keys]
  /\ ops \in 0..MaxOps
  /\ left \in SUBSET Ofds

\* The name is free, or leads to a file of some other format.
Init ==
  /\ path \in Files \cup {NoFile}
  /\ head = [f \in Files |-> IF f = path THEN "alien" ELSE "none"]
  /\ body = [f \in Files |-> {}]
  /\ sound = [f \in Files |-> f # path]
  /\ file = [o \in Ofds |-> NoFile]
  /\ lock = [o \in Ofds |-> "none"]
  /\ status = [p \in Procs |-> IF p \in Shells THEN "running" ELSE "absent"]
  /\ handle = [p \in Procs |-> NoHandle]
  /\ op = [p \in Procs |-> Idle]
  /\ got = [p \in Procs |-> {}]
  /\ ops = 0 /\ left = {}

Running(p) == status[p] = "running"
At(p, step) == Running(p) /\ op[p].step = step
Inode(p) == file[op[p].ofd]

\* The steps in which a process has the lock.
Locked == {"read", "grow", "write", "unlock"}
Critical(p) == op[p].step \in Locked

\* A description, with its lock, lives as long as some process has it open.
IsOpen(o) == \E p \in Procs : handle[p].ofd = o \/ op[p].ofd = o

Goto(p, step) == op' = [op EXCEPT ![p].step = step]

------------------------------------------------------------------------------
(* Opening. *)

Readers == {"get", "unbind", "info"}        \* with LockedDatabase::read
Binders == {"bind", "seed"}                 \* the database opened stays bound
Visitors == {"sync", "clear", "info"}       \* it is closed at the end of the command
Keyed == {"seed", "put", "drop", "sync"}    \* it stores or removes one variable
KeysOf(do) == IF do \in Keyed THEN Keys ELSE {NoKey}

\* Mutant of Opens: a forked child goes on with the description of its parent.
OpensOnce(p, do) == do \in Binders \cup Visitors

\* A bound database is opened again by the first operation in a forked child.
Opens(p, do) == do \in Binders \cup Visitors \/ handle[p].pid # p

MayStart(p, do) ==
  /\ At(p, "idle") /\ ops < MaxOps
  /\ do \in Binders \cup Visitors \/ handle[p] # NoHandle

\* Unless scripts race, the first open of a backing has ended before the next starts.
MayOpen ==
  \/ "race" \in Habits
  \/ \A p \in Procs : op[p].step \notin {"classify", "stamp", "truncate"}

\* open_flock_fd: open(2) with O_CREAT, or shm_open, a new description either way.
Open(p, do, k, o) ==
  /\ MayStart(p, do) /\ Opens(p, do) /\ ~IsOpen(o) /\ MayOpen
  /\ \E f \in Files :
       /\ IF path = NoFile
            THEN /\ head[f] = "none"
                 /\ path' = f
                 /\ head' = [head EXCEPT ![f] = "short"]
            ELSE f = path /\ UNCHANGED <<path, head>>
       /\ file' = [file EXCEPT ![o] = f]
  /\ lock' = [lock EXCEPT ![o] = "none"]
  /\ left' = left \ {o}
  /\ op' = [op EXCEPT ![p] = Begun(do, k, o, "classify")]
  /\ ops' = ops + 1
  /\ UNCHANGED <<body, sound, status, handle, got>>

\* FlockState::refresh in the process that opened the database.
Use(p, do, k) ==
  /\ MayStart(p, do) /\ ~Opens(p, do)
  /\ op' = [op EXCEPT ![p] = Begun(do, k, handle[p].ofd, "lock")]
  /\ ops' = ops + 1
  /\ UNCHANGED <<backing, file, lock, left, status, handle, got>>

\* The backing has been opened: a visitor keeps it to itself, the others bind it.
Opened(p) ==
  /\ handle' = IF op[p].do \in Visitors THEN handle
               ELSE [handle EXCEPT ![p] = [ofd |-> op[p].ofd, pid |-> p]]
  /\ op' = IF op[p].do = "bind" THEN [op EXCEPT ![p] = Idle]
           ELSE [op EXCEPT ![p].step = "lock"]
  /\ UNCHANGED <<file, lock, left, status, got, ops>>

\* init_or_check_magic, without a lock: a header that is there is left alone,
ClassifyOk(p) ==
  /\ At(p, "classify") /\ head[Inode(p)] = "magic"
  /\ Opened(p)
  /\ UNCHANGED backing

\* and a short or foreign one is to be replaced.
ClassifyInit(p) ==
  /\ At(p, "classify") /\ head[Inode(p)] # "magic"
  /\ Goto(p, "stamp")
  /\ UNCHANGED <<backing, file, lock, left, status, handle, got, ops>>

Stamp(p) ==
  /\ At(p, "stamp")
  /\ head' = [head EXCEPT ![Inode(p)] = "magic"]
  /\ Goto(p, "truncate")
  /\ UNCHANGED <<path, body, sound, file, lock, left, status, handle, got, ops>>

Truncate(p) ==
  /\ At(p, "truncate")
  /\ body' = [body EXCEPT ![Inode(p)] = {}]
  /\ sound' = [sound EXCEPT ![Inode(p)] = TRUE]
  /\ Opened(p)
  /\ UNCHANGED <<path, head>>

------------------------------------------------------------------------------
(* Reading and writing under the lock. *)

\* flock(2) of another description of the same inode, in a mode that excludes this one.
Excluded(o, mode) ==
  \E u \in Ofds \ {o} :
    /\ file[u] = file[o] /\ IsOpen(u)
    /\ lock[u] = "ex" \/ (lock[u] = "sh" /\ mode = "ex")

\* Mutant of Mode: writers take the shared lock.
ModeShared(do) == IF do \in Readers \cup {"put"} THEN "sh" ELSE "ex"

Mode(do) == IF do \in Readers THEN "sh" ELSE "ex"

Lock(p) ==
  /\ At(p, "lock") /\ ~Excluded(op[p].ofd, Mode(op[p].do))
  /\ lock' = [lock EXCEPT ![op[p].ofd] = Mode(op[p].do)]
  /\ Goto(p, "read")
  /\ UNCHANGED <<backing, file, left, status, handle, got, ops>>

\* What reading a blob may return.  Bytes that rkyv did not write are an error, or
\* deserialize by accident to an empty database.
Parses(f) ==
  IF sound[f] THEN {[ok |-> TRUE, db |-> body[f]]}
  ELSE {[ok |-> FALSE, db |-> {}], [ok |-> TRUE, db |-> {}]}

ReadDone(p) ==
  /\ At(p, "read") /\ op[p].do \in Readers
  /\ \E r \in Parses(Inode(p)) :
       /\ got' = IF r.ok THEN [got EXCEPT ![p] = r.db] ELSE got
       /\ op' = [op EXCEPT ![p].ok = r.ok, ![p].step = "unlock"]
  /\ UNCHANGED <<backing, file, lock, left, status, handle, ops>>

\* A writer that cannot read the blob fails and writes nothing.
ReadToWrite(p) ==
  /\ At(p, "read") /\ op[p].do \notin Readers
  /\ \E r \in Parses(Inode(p)) :
       op' = [op EXCEPT ![p].copy = r.db, ![p].ok = r.ok,
                        ![p].step = IF r.ok THEN "grow" ELSE "unlock"]
  /\ UNCHANGED <<backing, file, lock, left, status, handle, got, ops>>

\* set_len of write_blob_at: the old blob is cut or padded, if the new size differs.
Grow(p) ==
  /\ At(p, "grow")
  /\ \/ /\ body' = [body EXCEPT ![Inode(p)] = {}]
        /\ sound' = [sound EXCEPT ![Inode(p)] = FALSE]
     \/ UNCHANGED <<body, sound>>
  /\ Goto(p, "write")
  /\ UNCHANGED <<path, head, file, lock, left, status, handle, got, ops>>

\* The closures that with_write is called with.
Result(do, k, c) ==
  CASE do \in {"seed", "put", "sync"} -> c \cup {k}
    [] do = "drop" -> c \ {k}
    [] OTHER -> {}

Write(p) ==
  /\ At(p, "write")
  /\ body' = [body EXCEPT ![Inode(p)] = Result(op[p].do, op[p].key, op[p].copy)]
  /\ sound' = [sound EXCEPT ![Inode(p)] = TRUE]
  /\ Goto(p, "unlock")
  /\ UNCHANGED <<path, head, file, lock, left, status, handle, got, ops>>

\* Mutant of Unlock: a failed read leaves without releasing the lock.
UnlockOnSuccess(p) ==
  /\ At(p, "unlock")
  /\ lock' = IF ~op[p].ok THEN lock ELSE [lock EXCEPT ![op[p].ofd] = "none"]
  /\ left' = left \ {op[p].ofd}
  /\ handle' = IF op[p].do = "unbind" \/ (op[p].do = "drop" /\ op[p].ok)
                 THEN [handle EXCEPT ![p] = NoHandle] ELSE handle
  /\ op' = [op EXCEPT ![p] = Idle]
  /\ UNCHANGED <<backing, file, status, got, ops>>

\* The lock is released; `unbind` forgets the database, and so does a `drop` that worked.
Unlock(p) ==
  /\ At(p, "unlock")
  /\ lock' = [lock EXCEPT ![op[p].ofd] = "none"]
  /\ left' = left \ {op[p].ofd}
  /\ handle' = IF op[p].do = "unbind" \/ (op[p].do = "drop" /\ op[p].ok)
                 THEN [handle EXCEPT ![p] = NoHandle] ELSE handle
  /\ op' = [op EXCEPT ![p] = Idle]
  /\ UNCHANGED <<backing, file, status, got, ops>>

------------------------------------------------------------------------------
\* `rm`: this shell's variables are unbound and the name is unlinked, no lock taken.
Remove(p) ==
  /\ "rm" \in Habits /\ At(p, "idle")
  /\ path' = NoFile
  /\ handle' = [handle EXCEPT ![p] = NoHandle]
  /\ UNCHANGED <<head, body, sound, file, lock, left, status, op, got, ops>>

\* A child starts with its parent's descriptions; its pid may be that of a dead process.
Fork(p, c) ==
  /\ At(p, "idle") /\ ~Running(c)
  /\ status' = [status EXCEPT ![c] = "running"]
  /\ handle' = [handle EXCEPT ![c] = handle[p]]
  /\ UNCHANGED <<backing, file, lock, left, op, got, ops>>

Kill(p) ==
  /\ "mortal" \in Habits /\ Running(p)
  /\ status' = [status EXCEPT ![p] = "absent"]
  /\ handle' = [handle EXCEPT ![p] = NoHandle]
  /\ op' = [op EXCEPT ![p] = Idle]
  /\ left' = IF Critical(p) THEN left \cup {op[p].ofd} ELSE left
  /\ UNCHANGED <<backing, file, lock, got, ops>>

Work(p) ==
  \/ ClassifyOk(p) \/ ClassifyInit(p) \/ Stamp(p) \/ Truncate(p)
  \/ Lock(p) \/ ReadDone(p) \/ ReadToWrite(p) \/ Grow(p) \/ Write(p) \/ Unlock(p)

Next == \E p \in Procs :
  \/ Work(p)
  \/ \E do \in Does : \E k \in KeysOf(do) : Use(p, do, k) \/ \E o \in Ofds : Open(p, do, k, o)
  \/ Remove(p) \/ Kill(p)
  \/ \E c \in Procs : Fork(p, c)

Spec == Init /\ [][Next]_vars
FairSpec == Spec /\ \A p \in Procs : WF_vars(Work(p))

------------------------------------------------------------------------------
(* Properties. *)

\* No process writes a backing or replaces its header, for which it has no lock, while
\* another one reads or writes it, although forked children inherit descriptions and the
\* locks with them (FlockBackend).
InUse(p) == Critical(p) \/ op[p].step \in {"stamp", "truncate"}
Shares(p) == Critical(p) /\ op[p].do \in Readers
Exclusion ==
  \A p, q \in Procs :
    (p # q /\ InUse(p) /\ InUse(q) /\ Inode(p) = Inode(q)) => Shares(p) /\ Shares(q)

\* Every operation ends, unless the lock it waits for was left behind by a process
\* that was killed, and a child of that process keeps the description open.
Busy(p) == Running(p) /\ op[p].step # "idle"
Stranded(f) == \E u \in left : file[u] = f /\ IsOpen(u) /\ lock[u] # "none"
OperationsEnd ==
  \A p \in Procs : Busy(p) ~> (~Busy(p) \/ (At(p, "lock") /\ Stranded(Inode(p))))

\* The database implements the abstract one.  While a writer is about to write, its
\* backing still counts as what the writer has read.
Writers(f) == {p \in Procs : At(p, "write") /\ Inode(p) = f}
Contents(f) ==
  IF Writers(f) # {} THEN op[CHOOSE p \in Writers(f) : TRUE].copy ELSE body[f]
Condition(f) ==
  IF head[f] = "none" THEN "absent"
  ELSE IF sound[f] \/ Writers(f) # {} THEN "readable" ELSE "damaged"
Abs == INSTANCE AbstractStore WITH
  contents <- [f \in Files |-> Contents(f)], condition <- [f \in Files |-> Condition(f)]
ImplementsAbstractStore == Abs!Spec

------------------------------------------------------------------------------
(* The inductive invariant under Exclusion. *)

\* Only running processes have anything open; who is in an operation has a description,
\* and a variable to store or remove if the operation does so.
Alive ==
  /\ \A p \in Procs :
       /\ ~Running(p) => handle[p] = NoHandle /\ op[p] = Idle
       /\ handle[p].ofd = NoOfd => handle[p] = NoHandle
       /\ op[p].ofd = NoOfd <=> op[p].step = "idle"
       /\ op[p].do \in Keyed => op[p].key \in Keys
  /\ \A o \in Ofds : IsOpen(o) => file[o] \in Files

\* A description is in use by one process, the one whose pid is recorded with it in
\* every handle on it.
OneUser ==
  \A p, q \in Procs : op[p].ofd # NoOfd =>
    /\ op[q].ofd = op[p].ofd => q = p
    /\ handle[q].ofd = op[p].ofd => handle[q].pid = p

SamePid ==
  \A p, q \in Procs :
    handle[p].ofd = handle[q].ofd /\ handle[p].ofd # NoOfd => handle[p].pid = handle[q].pid

\* Who is critical holds the lock, and the kernel gives out compatible locks only.
LocksHeld == \A p \in Procs : Critical(p) => lock[op[p].ofd] = Mode(op[p].do)
LocksCompatible ==
  \A o, u \in Ofds :
    (o # u /\ file[o] = file[u] /\ IsOpen(o) /\ IsOpen(u) /\ lock[o] = "ex")
      => lock[u] = "none"

StoreInv == TypeOK /\ Alive /\ OneUser /\ SamePid /\ LocksHeld /\ LocksCompatible
==============================================================================
