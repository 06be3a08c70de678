------------------------------ MODULE ShmVars -------------------------------
(***************************************************************************)
(* A shell variable bound to a database in memory (l_builtin/src/          *)
(* cmd_shm.rs, and the memfd and mmap backends of vardb.rs).  The memory   *)
(* is shared with forked children and guarded by a process-shared          *)
(* pthread_rwlock_t in it.  bash keeps a copy of the array in every        *)
(* process: whenever a script names the variable, the getter first reads   *)
(* the database and makes the copy equal to what it read, and an           *)
(* assignment calls the setter for each element, which stores that element *)
(* alone.                                                                  *)
(***************************************************************************)
EXTENDS Naturals, FiniteSets

CONSTANTS Procs, Shell,       \* processes, and the first of them
          Dbs, NoDb,          \* databases: memory that one `bind` creates
          Limited, Capacity,  \* those of -M, and the elements they have room for
          Length,             \* bound: the array has the indices 0 .. Length - 1
          Values, Unset,
          Nobody, Dead,       \* no holder of a lock, or one that was killed
          Does,               \* what scripts do with the variable
          Mortal,             \* whether processes are killed
          MaxOps              \* bound: operations started by all processes together

Setters == {"put", "append", "reassign"}                  \* v[i]=x, v+=(x), v=(x ...)
Namers == Setters \cup {"get", "delete", "unset"}         \* and $v, unset v[i], unset v
Commands == {"bind", "seed", "sync", "unbind", "info", "drop", "clear", "rm"}
AllDoes == Namers \cup Commands

ASSUME VarsAssumption ==
  /\ Shell \in Procs /\ NoDb \notin Dbs /\ Limited \subseteq Dbs
  /\ Nobody \notin Procs /\ Dead \notin Procs /\ Nobody # Dead
  /\ Unset \notin Values /\ Does \subseteq AllDoes /\ Mortal \in BOOLEAN
  /\ Length \in Nat /\ Capacity \in Nat /\ MaxOps \in Nat

Idx == 0 .. Length - 1
Contents == [Idx -> Values \cup {Unset}]
Empty == [i \in Idx |-> Unset]
Elements(c) == {i \in Idx : c[i] # Unset}
Overlay(c, base) == [i \in Idx |-> IF c[i] # Unset THEN c[i] ELSE base[i]]
Only(i, v) == [Empty EXCEPT ![i] = v]

VARIABLES
  alive,   \* the processes that run
  bound,   \* REGISTRY of each process: the database of the variable
  kind,    \* its shell variable: "none", "plain", or "dynamic" with getter and setter
  copy,    \* the array in the shell variable
  stored,  \* the array in each database,
  torn,    \* unless a writer is, or was killed, in the middle of it
  writer,  \* the lock of each database: its writer
  readers, \* and its readers
  pc, op,  \* where each process is, in which operation
  ops,     \* operations started
  past     \* history: what the database has held since the getter of a process began

memory == <<stored, torn>>
locks == <<writer, readers>>
shell == <<bound, kind, copy>>
vars == <<alive, shell, memory, locks, pc, op, ops, past>>

\* `got` is what db.read returned, while its caller has it, `data` what with_write is to store.
Idle == [do |-> "none", todo |-> Empty, data |-> Empty, got |-> Empty, failed |-> FALSE]
Looking == {"rdwait", "reading", "gotten", "merging"}
Steps == Looking \cup {"idle", "found", "setting", "wrwait", "writing", "growing", "written"}

TypeOK ==
  /\ alive \subseteq Procs
  /\ bound \in [Procs -> Dbs \cup {NoDb}]
  /\ kind \in [Procs -> {"none", "plain", "dynamic"}]
  /\ copy \in [Procs -> Contents]
  /\ stored \in [Dbs -> Contents] /\ torn \in [Dbs -> BOOLEAN]
  /\ writer \in [Dbs -> Procs \cup {Nobody, Dead}]
  /\ readers \in [Dbs -> SUBSET (Procs \cup {Dead})]
  /\ pc \in [Procs -> Steps]
  /\ op \in [Procs -> [do : AllDoes \cup {"none", "bound", "sown"}, todo : Contents,
                       data : Contents, got : Contents, failed : BOOLEAN]]
  /\ ops \in 0..MaxOps
  /\ past \in [Procs -> SUBSET Contents]

Init ==
  /\ alive = {Shell}
  /\ bound = [p \in Procs |-> NoDb]
  /\ kind = [p \in Procs |-> "none"]
  /\ copy = [p \in Procs |-> Empty]
  /\ stored = [d \in Dbs |-> Empty] /\ torn = [d \in Dbs |-> FALSE]
  /\ writer = [d \in Dbs |-> Nobody] /\ readers = [d \in Dbs |-> {}]
  /\ pc = [p \in Procs |-> "idle"]
  /\ op = [p \in Procs |-> Idle]
  /\ ops = 0
  /\ past = [p \in Procs |-> {}]

\* The memory of a database goes with the last process that has it mapped.
Fresh == {d \in Dbs : \A p \in Procs : bound[p] # d}

At(p, step) == pc[p] = step
Goto(p, step) == pc' = [pc EXCEPT ![p] = step]
Done(p) == Goto(p, "idle") /\ op' = [op EXCEPT ![p] = Idle]
Variable(p, d, k, c) ==
  /\ bound' = [bound EXCEPT ![p] = d]
  /\ kind' = [kind EXCEPT ![p] = k]
  /\ copy' = [copy EXCEPT ![p] = c]

\* The history goes along with every step.
Remember ==
  past' = [p \in Procs |->
    IF pc'[p] \in Looking
      THEN {stored'[bound'[p]]} \cup (IF pc[p] \in Looking THEN past[p] ELSE {})
      ELSE {}]

------------------------------------------------------------------------------
(* The start of an operation, and reading under the lock. *)

\* A call that fails at once, or needs the variable and finds none, changes nothing.
MayStart(p, do) ==
  /\ p \in alive /\ At(p, "idle") /\ ops < MaxOps
  /\ do \in {"sync", "info", "drop", "clear", "rm"} => bound[p] # NoDb
  /\ do \in {"sync", "get", "delete", "unset"} => kind[p] # "none"

\* Naming a dynamic variable calls its getter; unbind and info read the database.
FirstStep(p, do) ==
  CASE do \in {"drop", "clear"} -> "wrwait"
    [] do \in {"unbind", "info"} /\ bound[p] # NoDb -> "rdwait"
    [] do \in Namers \cup {"bind", "seed", "sync"} /\ kind[p] = "dynamic" -> "rdwait"
    [] OTHER -> "found"

Start(p, do) ==
  /\ MayStart(p, do)
  /\ Goto(p, FirstStep(p, do))
  /\ op' = [op EXCEPT ![p] = [Idle EXCEPT !.do = do]]
  /\ ops' = ops + 1
  /\ UNCHANGED <<alive, shell, memory, locks>>
  /\ Remember

RdLock(p) ==
  /\ At(p, "rdwait") /\ writer[bound[p]] = Nobody
  /\ readers' = [readers EXCEPT ![bound[p]] = @ \cup {p}]
  /\ Goto(p, "reading")
  /\ UNCHANGED <<alive, shell, memory, writer, op, ops>>
  /\ Remember

\* The blob is read under the lock,
Read(p) ==
  /\ At(p, "reading")
  /\ op' = [op EXCEPT ![p].got = stored[bound[p]]]
  /\ Goto(p, "gotten")
  /\ UNCHANGED <<alive, shell, memory, locks, ops>>
  /\ Remember

\* whose guard is dropped when read returns: unbind and info keep what they read for
\* themselves, a getter still has to bring it into the variable.
RdUnlock(p) ==
  /\ At(p, "gotten")
  /\ readers' = [readers EXCEPT ![bound[p]] = @ \ {p}]
  /\ Goto(p, IF op[p].do \in {"unbind", "info"} THEN "found" ELSE "merging")
  /\ UNCHANGED <<alive, shell, memory, writer, op, ops>>
  /\ Remember

\* Mutant of Refreshed: the getter inserts what is new and removes nothing.
RefreshedOnly(c, db) == Overlay(db, c)

\* The getter inserts the elements that differ and removes those that have gone.
Refreshed(c, db) ==
  [i \in Idx |-> IF db[i] # Unset /\ db[i] # c[i] THEN db[i]
                 ELSE IF i \in Elements(c) \ Elements(db) THEN Unset ELSE c[i]]

Merge(p) ==
  /\ At(p, "merging")
  /\ copy' = [copy EXCEPT ![p] = Refreshed(copy[p], op[p].got)]
  /\ op' = [op EXCEPT ![p].got = Empty]
  /\ Goto(p, "found")
  /\ UNCHANGED <<alive, bound, kind, memory, locks, ops>>
  /\ Remember

------------------------------------------------------------------------------
(* What the operations do once the variable has been found. *)

\* bash's part of an assignment: a plain variable takes it all; for a dynamic one the
\* setter is called for each element.
Assign(p, c, base) ==
  IF kind[p] = "dynamic" /\ c # Empty
    THEN /\ copy' = [copy EXCEPT ![p] = base]
         /\ op' = [op EXCEPT ![p].todo = c]
         /\ Goto(p, "setting")
         /\ UNCHANGED <<bound, kind>>
    ELSE /\ Variable(p, bound[p], IF kind[p] = "none" THEN "plain" ELSE kind[p],
                     Overlay(c, base))
         /\ Done(p)

Put(p) ==
  /\ op[p].do = "put"
  /\ \E i \in Idx, v \in Values : Assign(p, Only(i, v), copy[p])
  /\ UNCHANGED <<memory, locks>>

\* The index is one more than the largest of the copy, if that is within the bound.
Append(p) ==
  /\ op[p].do = "append"
  /\ IF Length - 1 \in Elements(copy[p])
       THEN Done(p) /\ UNCHANGED shell
       ELSE \E i \in Idx, v \in Values :
              /\ \A j \in Elements(copy[p]) : j < i
              /\ i = 0 \/ i - 1 \in Elements(copy[p])
              /\ Assign(p, Only(i, v), copy[p])
  /\ UNCHANGED <<memory, locks>>

\* A whole new list: the copy is emptied first, the database is not.
Reassign(p) ==
  /\ op[p].do = "reassign"
  /\ \E c \in Contents :
       /\ \A i \in Elements(c) : i = 0 \/ i - 1 \in Elements(c)
       /\ Assign(p, c, Empty)
  /\ UNCHANGED <<memory, locks>>

\* No hook of the variable hears of a deletion, nor does REGISTRY of an `unset`.
Delete(p) ==
  /\ op[p].do = "delete"
  /\ \E i \in Idx : copy' = [copy EXCEPT ![p][i] = Unset]
  /\ Done(p)
  /\ UNCHANGED <<bound, kind, memory, locks>>

Forget(p) ==
  /\ op[p].do = "unset"
  /\ Variable(p, bound[p], "none", Empty)
  /\ Done(p)
  /\ UNCHANGED <<memory, locks>>

\* The database found in REGISTRY, or a new one.  The hooks are set by a function that
\* finds the variable again, and then calls a getter that reads the new database.
Bind(p) ==
  /\ op[p].do \in {"bind", "seed"}
  /\ \E d \in ({bound[p]} \ {NoDb}) \cup Fresh :
       /\ Variable(p, d, "dynamic", copy[p])
       /\ IF d \in Fresh
            THEN /\ stored' = [stored EXCEPT ![d] = Empty]
                 /\ torn' = [torn EXCEPT ![d] = FALSE]
                 /\ writer' = [writer EXCEPT ![d] = Nobody]
                 /\ readers' = [readers EXCEPT ![d] = {}]
            ELSE UNCHANGED <<memory, locks>>
  /\ LET seeds == op[p].do = "seed" /\ kind[p] # "none" IN
       IF kind[p] = "dynamic"
         THEN /\ op' = [op EXCEPT ![p].do = IF seeds THEN "sown" ELSE "bound",
                                  ![p].data = copy[p]]
              /\ Goto(p, "rdwait")
         ELSE IF seeds THEN op' = [op EXCEPT ![p].data = copy[p]] /\ Goto(p, "wrwait")
         ELSE Done(p)

\* There is no memory for a new database.
BindFails(p) ==
  /\ op[p].do \in {"bind", "seed"} /\ bound[p] = NoDb /\ Fresh = {}
  /\ Done(p)
  /\ UNCHANGED <<shell, memory, locks>>

Sow(p) ==
  /\ op[p].do = "sown"
  /\ Goto(p, "wrwait")
  /\ UNCHANGED <<shell, memory, locks, op>>

\* sync is to store the current array.
Sync(p) ==
  /\ op[p].do = "sync"
  /\ op' = [op EXCEPT ![p].data = copy[p]]
  /\ Goto(p, "wrwait")
  /\ UNCHANGED <<shell, memory, locks>>

\* The variable stays as a plain one, if the database had an entry for it.
Unbind(p) ==
  /\ op[p].do = "unbind"
  /\ \E k \in {"none", "plain"} :
       /\ bound[p] = NoDb => k = "none"
       /\ op[p].got # Empty => k = "plain"
       /\ Variable(p, NoDb, k, op[p].got)
  /\ Done(p)
  /\ UNCHANGED <<memory, locks>>

\* Mutant of Remove: REGISTRY is cleaned up, and not the variable.
RemoveEntry(p) ==
  /\ op[p].do = "rm"
  /\ Variable(p, NoDb, kind[p], copy[p])
  /\ Done(p)
  /\ UNCHANGED <<memory, locks>>

\* rm of a database in memory: there is nothing to unlink.
Remove(p) ==
  /\ op[p].do = "rm"
  /\ Variable(p, NoDb, "none", Empty)
  /\ Done(p)
  /\ UNCHANGED <<memory, locks>>

JustRead(p) ==
  /\ op[p].do \in {"get", "info", "bound"}
  /\ Done(p)
  /\ UNCHANGED <<shell, memory, locks>>

Found(p) ==
  /\ At(p, "found")
  /\ \/ Put(p) \/ Append(p) \/ Reassign(p) \/ Delete(p) \/ Forget(p) \/ Bind(p)
     \/ BindFails(p) \/ Sow(p) \/ Sync(p) \/ Unbind(p) \/ Remove(p) \/ JustRead(p)
  /\ UNCHANGED <<alive, ops>>
  /\ Remember

------------------------------------------------------------------------------
(* Writing under the lock. *)

\* The element a setter is called for: bash goes through a list in order.
Target(p) == CHOOSE i \in Elements(op[p].todo) : \A j \in Elements(op[p].todo) : i <= j

\* The setter changes the copy first.
Set(p) ==
  /\ At(p, "setting")
  /\ copy' = [copy EXCEPT ![p][Target(p)] = op[p].todo[Target(p)]]
  /\ Goto(p, "wrwait")
  /\ UNCHANGED <<alive, bound, kind, memory, locks, op, ops>>
  /\ Remember

\* Mutant of Free: a writer does not wait for readers.
FreeOfWriters(d) == writer[d] = Nobody

Free(d) == writer[d] = Nobody /\ readers[d] = {}

WrLock(p) ==
  /\ At(p, "wrwait") /\ Free(bound[p])
  /\ writer' = [writer EXCEPT ![bound[p]] = p]
  /\ Goto(p, "writing")
  /\ UNCHANGED <<alive, shell, memory, readers, op, ops>>
  /\ Remember

\* Mutant of Result: the setter stores the whole array of its process.
ResultOfCopy(p) ==
  CASE op[p].do \in Setters -> copy[p]
    [] op[p].do \in {"seed", "sown", "sync"} -> op[p].data
    [] OTHER -> Empty

\* The closures that with_write is called with.
Result(p) ==
  CASE op[p].do \in Setters ->
         [stored[bound[p]] EXCEPT ![Target(p)] = op[p].todo[Target(p)]]
    [] op[p].do \in {"seed", "sown", "sync"} -> op[p].data
    [] OTHER -> Empty

Fits(d, c) == d \in Limited => Cardinality(Elements(c)) <= Capacity

\* The region is exhausted: nothing has been written.
Overflow(p) ==
  /\ At(p, "writing") /\ ~Fits(bound[p], Result(p))
  /\ op' = [op EXCEPT ![p].failed = TRUE]
  /\ Goto(p, "written")
  /\ UNCHANGED <<alive, shell, memory, locks, ops>>
  /\ Remember

\* The new length first,
Grow(p) ==
  /\ At(p, "writing") /\ Fits(bound[p], Result(p))
  /\ torn' = [torn EXCEPT ![bound[p]] = TRUE]
  /\ Goto(p, "growing")
  /\ UNCHANGED <<alive, shell, stored, locks, op, ops>>
  /\ Remember

\* then the bytes.
Write(p) ==
  /\ At(p, "growing")
  /\ stored' = [stored EXCEPT ![bound[p]] = Result(p)]
  /\ torn' = [torn EXCEPT ![bound[p]] = FALSE]
  /\ Goto(p, "written")
  /\ UNCHANGED <<alive, shell, locks, op, ops>>
  /\ Remember

\* Mutant of Released: a write that fails returns with the lock.
ReleasedOnSuccess(p) ==
  IF op[p].failed THEN writer ELSE [writer EXCEPT ![bound[p]] = Nobody]

\* The guard is dropped on every path.
Released(p) == [writer EXCEPT ![bound[p]] = Nobody]

\* After its last element an assignment has ended; drop forgets the variable.
WrUnlock(p) ==
  /\ At(p, "written")
  /\ writer' = Released(p)
  /\ LET rest == IF op[p].do \in Setters THEN [op[p].todo EXCEPT ![Target(p)] = Unset]
                 ELSE Empty IN
       IF rest = Empty THEN Done(p)
       ELSE op' = [op EXCEPT ![p].todo = rest] /\ Goto(p, "setting")
  /\ IF op[p].do = "drop" THEN Variable(p, NoDb, "none", Empty) ELSE UNCHANGED shell
  /\ UNCHANGED <<alive, memory, readers, ops>>
  /\ Remember

------------------------------------------------------------------------------
\* A child has a copy of the shell, its variables and REGISTRY; it maps the same memory.
Fork(p, c) ==
  /\ p \in alive /\ At(p, "idle") /\ c \notin alive
  /\ alive' = alive \cup {c}
  /\ Variable(c, bound[p], kind[p], copy[p])
  /\ UNCHANGED <<memory, locks, pc, op, ops>>
  /\ Remember

\* The lock is not robust: what a killed process holds stays locked.
Kill(p) ==
  /\ Mortal /\ p \in alive
  /\ alive' = alive \ {p}
  /\ Variable(p, NoDb, "none", Empty)
  /\ writer' = [d \in Dbs |-> IF writer[d] = p THEN Dead ELSE writer[d]]
  /\ readers' = [d \in Dbs |-> IF p \in readers[d] THEN (readers[d] \ {p}) \cup {Dead}
                               ELSE readers[d]]
  /\ Done(p)
  /\ UNCHANGED <<memory, ops>>
  /\ Remember

Work(p) ==
  \/ RdLock(p) \/ Read(p) \/ RdUnlock(p) \/ Merge(p) \/ Found(p) \/ Set(p)
  \/ WrLock(p) \/ Overflow(p) \/ Grow(p) \/ Write(p) \/ WrUnlock(p)

Next == \E p \in Procs :
  \/ Work(p) \/ Kill(p)
  \/ \E do \in Does : Start(p, do)
  \/ \E c \in Procs : Fork(p, c)

Spec == Init /\ [][Next]_vars
FairSpec == Spec /\ \A p \in Procs : WF_vars(Work(p))

------------------------------------------------------------------------------
(* Properties. *)

\* The invariant behind the others: who is at a place of the code has the lock that is
\* taken there, on the database the variable is bound to; readers and writers exclude each
\* other; a half-written database is locked by its writer, or for ever.
DeadIsIdle == \A p \in Procs \ alive : At(p, "idle")
HasDatabase ==
  \A p \in Procs :
    (pc[p] \notin {"idle", "found"} \/ (At(p, "found") /\ op[p].do \in {"sync", "sown"}))
      => bound[p] \in Dbs
LockHeld ==
  \A p \in Procs :
    /\ pc[p] \in {"writing", "growing", "written"} => writer[bound[p]] = p
    /\ pc[p] \in {"reading", "gotten"} => p \in readers[bound[p]]
LockExcludes == \A d \in Dbs : writer[d] # Nobody => readers[d] = {}
TornIsLocked ==
  \A d \in Dbs :
    torn[d] => \/ writer[d] = Dead
               \/ \E p \in Procs : writer[d] = p /\ bound[p] = d /\ At(p, "growing")

\* Nobody reads a database in the middle of a write, not even one whose writer was
\* killed there: its lock is held for ever (RwLockReadGuard, RwLockWriteGuard).
ReadWhole == \A p \in Procs : At(p, "reading") => ~torn[bound[p]]

\* What a getter leaves in the variable is the array as it was in the database at one moment
\* while the getter ran, elements that others removed included: not a mixture of two, nor of
\* the database and the old copy, although others write before the lock is taken and between
\* its release and the merge (shm_array_getter).
CopyIsOneMoment ==
  [][\A p \in Procs : At(p, "merging") /\ pc'[p] = "found" => copy'[p] \in past[p]]_vars

\* A variable that has the hooks has a database in REGISTRY, through forks, unbinds and
\* removals: the message "not bound to a shared database" of get_shm is not needed.
HooksAreBound == \A p \in Procs : kind[p] = "dynamic" => bound[p] # NoDb

VarsInv ==
  TypeOK /\ DeadIsIdle /\ HasDatabase /\ LockHeld /\ LockExcludes /\ TornIsLocked /\ HooksAreBound

\* Assignments to different elements do not undo each other, from whatever old copy they
\* were made: an element changes when it is assigned, or by a command that replaces or
\* removes the whole array (shm_array_setter).
Replaces == {"seed", "sown", "sync", "drop", "clear"}
Assigns(p, d, i) ==
  /\ At(p, "growing") /\ bound[p] = d
  /\ op[p].do \in Replaces \/ (op[p].todo[i] # Unset /\ stored'[d][i] = op[p].todo[i])
AssignsOneElement ==
  [][\A d \in Dbs \ Fresh : \A i \in Idx :
       stored'[d][i] # stored[d][i] => \E p \in Procs : Assigns(p, d, i)]_vars

\* Every operation ends, unless a process was killed with the lock it waits for
\* (with_write drops its guard on success and failure).
Busy(p) == p \in alive /\ ~At(p, "idle")
Stranded(d) == writer[d] = Dead \/ Dead \in readers[d]
AccessesEnd ==
  \A p \in Procs :
    Busy(p) ~> (~Busy(p) \/ (pc[p] \in {"rdwait", "wrwait"} /\ Stranded(bound[p])))
=============================================================================
