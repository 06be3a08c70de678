--------------------------- MODULE ShmVars_proofs ---------------------------
(***************************************************************************)
(* Proofs about ShmVars: types, and what the lock of a database in memory  *)
(* gives to the shells that read and write it, for any number of           *)
(* processes, databases, elements and operations.                          *)
(***************************************************************************)
EXTENDS ShmVars, FiniteSetTheorems, WellFoundedInduction, TLAPS

USE VarsAssumption DEF VarsAssumption

Marks == AllDoes \cup {"none", "bound", "sown"}
Operations == [do : Marks, todo : Contents, data : Contents, got : Contents, failed : BOOLEAN]

\* The operators on arrays return arrays.
LEMMA ContentsTypes ==
  /\ Empty \in Contents
  /\ \A c, base \in Contents : Overlay(c, base) \in Contents
  /\ \A c, db \in Contents : Refreshed(c, db) \in Contents
  /\ \A i \in Idx, v \in Values : Only(i, v) \in Contents
<1>1. Empty \in Contents
  BY DEF Empty, Contents
<1>2. ASSUME NEW c \in Contents, NEW base \in Contents
      PROVE  Overlay(c, base) \in Contents /\ Refreshed(c, base) \in Contents
  BY <1>2 DEF Overlay, Refreshed, Elements, Contents
<1>3. ASSUME NEW i \in Idx, NEW v \in Values PROVE Only(i, v) \in Contents
  BY <1>1 DEF Only, Contents
<1> QED
  BY <1>1, <1>2, <1>3

\* What the getter makes of the copy is the array in the database.
LEMMA GetterCopies ==
  ASSUME NEW c \in Contents, NEW db \in Contents
  PROVE  Refreshed(c, db) = db
<1>1. \A i \in Idx : Refreshed(c, db)[i] = db[i]
  BY DEF Refreshed, Elements, Contents
<1>2. Refreshed(c, db) = [i \in Idx |-> db[i]]
  BY <1>1 DEF Refreshed
<1> QED
  BY <1>2 DEF Contents

\* Being in no operation, and being at the start of one, is well typed.
LEMMA IdleType ==
  /\ Idle \in Operations
  /\ \A do \in AllDoes : [Idle EXCEPT !.do = do] \in Operations
  BY ContentsTypes DEF Idle, Operations, Marks

\* A change of one field leaves an operation well typed, and so does its end.
LEMMA OpFields ==
  ASSUME TypeOK, NEW p \in Procs, NEW c \in Contents, NEW f \in BOOLEAN, NEW do \in Marks
  PROVE  /\ [op EXCEPT ![p].todo = c] \in [Procs -> Operations]
         /\ [op EXCEPT ![p].data = c] \in [Procs -> Operations]
         /\ [op EXCEPT ![p].got = c] \in [Procs -> Operations]
         /\ [op EXCEPT ![p].failed = f] \in [Procs -> Operations]
         /\ [op EXCEPT ![p].do = do, ![p].data = c] \in [Procs -> Operations]
         /\ [op EXCEPT ![p] = Idle] \in [Procs -> Operations]
<1>1. op \in [Procs -> Operations]
  BY DEF TypeOK, Operations, Marks
<1>2. [op EXCEPT ![p].todo = c] \in [Procs -> Operations]
  BY <1>1 DEF Operations
<1>3. [op EXCEPT ![p].data = c] \in [Procs -> Operations]
  BY <1>1 DEF Operations
<1>4. /\ [op EXCEPT ![p].failed = f] \in [Procs -> Operations]
      /\ [op EXCEPT ![p].got = c] \in [Procs -> Operations]
  BY <1>1 DEF Operations
<1>5. [op EXCEPT ![p].do = do, ![p].data = c] \in [Procs -> Operations]
  <2>1. [op EXCEPT ![p].do = do, ![p].data = c]
          = [op EXCEPT ![p] = [op[p] EXCEPT !.do = do, !.data = c]]
    BY Zenon
  <2>2. [op[p] EXCEPT !.do = do, !.data = c] \in Operations
    BY <1>1 DEF Operations
  <2> QED
    BY <1>1, <2>1, <2>2
<1>6. [op EXCEPT ![p] = Idle] \in [Procs -> Operations]
  BY <1>1, IdleType
<1> QED
  BY <1>2, <1>3, <1>4, <1>5, <1>6

\* The initial state is well typed.
LEMMA TypeInit == Init => TypeOK
<1> SUFFICES ASSUME Init PROVE TypeOK
  OBVIOUS
<1>1. op \in [Procs -> Operations]
  BY IdleType DEF Init
<1>2. /\ copy \in [Procs -> Contents]
      /\ stored \in [Dbs -> Contents]
  BY ContentsTypes DEF Init
<1> QED
  BY <1>1, <1>2 DEF Init, TypeOK, Operations, Marks, Steps

\* What one shell makes of its variable is well typed, and so is a step of its program.
LEMMA VariableType ==
  ASSUME TypeOK, NEW p \in Procs, NEW d \in Dbs \cup {NoDb},
         NEW k \in {"none", "plain", "dynamic"}, NEW c \in Contents, Variable(p, d, k, c)
  PROVE  /\ bound' \in [Procs -> Dbs \cup {NoDb}]
         /\ kind' \in [Procs -> {"none", "plain", "dynamic"}]
         /\ copy' \in [Procs -> Contents]
  BY DEF TypeOK, Variable

LEMMA StepType ==
  ASSUME TypeOK, NEW p \in Procs, NEW step \in Steps, Goto(p, step)
  PROVE  pc' \in [Procs -> Steps]
  BY DEF TypeOK, Goto

\* The end of an operation is well typed.
LEMMA DoneType ==
  ASSUME TypeOK, NEW p \in Procs, Done(p)
  PROVE  pc' \in [Procs -> Steps] /\ op' \in [Procs -> Operations]
<1>1. pc' \in [Procs -> Steps]
  BY StepType DEF Done, Steps
<1>2. op' \in [Procs -> Operations]
  BY OpFields, ContentsTypes DEF Done, Marks
<1> QED
  BY <1>1, <1>2

\* The state of the shells and programs, and that of the memory and its locks.
ShellsTyped ==
  /\ bound \in [Procs -> Dbs \cup {NoDb}]
  /\ kind \in [Procs -> {"none", "plain", "dynamic"}]
  /\ copy \in [Procs -> Contents]
  /\ pc \in [Procs -> Steps]
  /\ op \in [Procs -> Operations]
MemoryTyped ==
  /\ stored \in [Dbs -> Contents] /\ torn \in [Dbs -> BOOLEAN]
  /\ writer \in [Dbs -> Procs \cup {Nobody, Dead}]
  /\ readers \in [Dbs -> SUBSET (Procs \cup {Dead})]

StateTyped == ShellsTyped /\ MemoryTyped /\ alive \subseteq Procs /\ ops \in 0..MaxOps
PastTyped == past \in [Procs -> SUBSET Contents]

LEMMA TypeParts ==
  /\ TypeOK <=> StateTyped /\ PastTyped
  /\ StateTyped <=> ShellsTyped /\ MemoryTyped /\ alive \subseteq Procs /\ ops \in 0..MaxOps
  BY DEF TypeOK, StateTyped, PastTyped, ShellsTyped, MemoryTyped, Operations, Marks

LEMMA TypePartsNext ==
  ASSUME StateTyped', PastTyped'
  PROVE  TypeOK'
  BY DEF TypeOK, StateTyped, PastTyped, ShellsTyped, MemoryTyped, Operations, Marks

\* bash's part of an assignment is well typed.
LEMMA AssignType ==
  ASSUME TypeOK, NEW p \in Procs, NEW c \in Contents, NEW base \in Contents, Assign(p, c, base)
  PROVE  ShellsTyped'
<1>0. ShellsTyped
  BY TypeParts
<1>1. CASE kind[p] = "dynamic" /\ c # Empty
  <2>1. copy' = [copy EXCEPT ![p] = base] /\ UNCHANGED <<bound, kind>>
    BY <1>1 DEF Assign
  <2>2. op' \in [Procs -> Operations]
    <3>1. op' = [op EXCEPT ![p].todo = c]
      BY <1>1 DEF Assign
    <3> QED
      BY <3>1, OpFields DEF Marks
  <2>3. pc' \in [Procs -> Steps]
    BY <1>1, StepType DEF Assign, Steps
  <2> QED
    BY <1>0, <2>1, <2>2, <2>3 DEF ShellsTyped
<1>2. CASE ~(kind[p] = "dynamic" /\ c # Empty)
  <2>1. Variable(p, bound[p], IF kind[p] = "none" THEN "plain" ELSE kind[p], Overlay(c, base))
    BY <1>2 DEF Assign
  <2>2. /\ bound[p] \in Dbs \cup {NoDb}
        /\ (IF kind[p] = "none" THEN "plain" ELSE kind[p]) \in {"none", "plain", "dynamic"}
        /\ Overlay(c, base) \in Contents
    BY <1>0, ContentsTypes DEF ShellsTyped
  <2>3. /\ bound' \in [Procs -> Dbs \cup {NoDb}]
        /\ kind' \in [Procs -> {"none", "plain", "dynamic"}]
        /\ copy' \in [Procs -> Contents]
    BY <2>1, <2>2, VariableType
  <2>4. pc' \in [Procs -> Steps] /\ op' \in [Procs -> Operations]
    BY <1>2, DoneType DEF Assign
  <2> QED
    BY <2>3, <2>4 DEF ShellsTyped
<1> QED
  BY <1>1, <1>2

\* Whatever an operation does to the variable it has found is well typed.
LEMMA FoundType ==
  ASSUME TypeOK, NEW p \in Procs, Found(p)
  PROVE  ShellsTyped' /\ MemoryTyped'
<1>0. ShellsTyped /\ MemoryTyped
  BY TypeParts
<1>1. ASSUME UNCHANGED <<memory, locks>> PROVE MemoryTyped'
  BY <1>0, <1>1 DEF MemoryTyped, memory, locks
<1>2. ASSUME NEW d \in Dbs \cup {NoDb}, NEW k \in {"none", "plain", "dynamic"},
             NEW c \in Contents, Variable(p, d, k, c), Done(p)
      PROVE  ShellsTyped'
  BY <1>2, VariableType, DoneType DEF ShellsTyped
<1>3. ASSUME UNCHANGED shell, Done(p) PROVE ShellsTyped'
  BY <1>0, <1>3, DoneType DEF ShellsTyped, shell
<1>4. copy[p] \in Contents /\ bound[p] \in Dbs \cup {NoDb} /\ op[p] \in Operations
  BY <1>0 DEF ShellsTyped
<1>5. CASE Put(p)
  <2>1. PICK i \in Idx, v \in Values : Assign(p, Only(i, v), copy[p])
    BY <1>5 DEF Put
  <2> QED
    BY <1>1, <1>4, <1>5, <2>1, AssignType, ContentsTypes DEF Put
<1>6. CASE Append(p)
  <2>1. CASE Length - 1 \in Elements(copy[p])
    BY <1>1, <1>3, <1>6, <2>1 DEF Append
  <2>2. CASE ~(Length - 1 \in Elements(copy[p]))
    <3>1. PICK i \in Idx, v \in Values : Assign(p, Only(i, v), copy[p])
      BY <1>6, <2>2 DEF Append
    <3> QED
      BY <1>1, <1>4, <1>6, <3>1, AssignType, ContentsTypes DEF Append
  <2> QED
    BY <2>1, <2>2
<1>7. CASE Reassign(p)
  <2>1. PICK c \in Contents : Assign(p, c, Empty)
    BY <1>7 DEF Reassign
  <2> QED
    BY <1>1, <1>7, <2>1, AssignType, ContentsTypes DEF Reassign
<1>8. CASE Delete(p)
  <2>1. PICK i \in Idx : copy' = [copy EXCEPT ![p][i] = Unset]
    BY <1>8 DEF Delete
  <2>2. copy' = [copy EXCEPT ![p] = [copy[p] EXCEPT ![i] = Unset]]
    BY <2>1
  <2>3. [copy[p] EXCEPT ![i] = Unset] \in Contents
    BY <1>4 DEF Contents
  <2>4. copy' \in [Procs -> Contents]
    BY <1>0, <2>2, <2>3 DEF ShellsTyped
  <2> QED
    BY <1>0, <1>1, <1>8, <2>4, DoneType DEF Delete, ShellsTyped
<1>9. CASE Forget(p)
  BY <1>1, <1>2, <1>4, <1>9, ContentsTypes DEF Forget
<1>10. CASE Bind(p)
  <2>1. PICK d \in ({bound[p]} \ {NoDb}) \cup Fresh :
          /\ Variable(p, d, "dynamic", copy[p])
          /\ IF d \in Fresh
               THEN /\ stored' = [stored EXCEPT ![d] = Empty]
                    /\ torn' = [torn EXCEPT ![d] = FALSE]
                    /\ writer' = [writer EXCEPT ![d] = Nobody]
                    /\ readers' = [readers EXCEPT ![d] = {}]
               ELSE UNCHANGED <<memory, locks>>
    BY <1>10 DEF Bind
  <2>2. MemoryTyped'
    <3>1. CASE d \in Fresh
      BY <1>0, <2>1, <3>1, ContentsTypes DEF MemoryTyped
    <3>2. CASE d \notin Fresh
      BY <1>1, <2>1, <3>2
    <3> QED
      BY <3>1, <3>2
  <2>3. d \in Dbs
    BY <1>4, <2>1 DEF Fresh
  <2>4. /\ bound' \in [Procs -> Dbs \cup {NoDb}]
        /\ kind' \in [Procs -> {"none", "plain", "dynamic"}]
        /\ copy' \in [Procs -> Contents]
    BY <1>4, <2>1, <2>3, VariableType
  <2>5. pc' \in [Procs -> Steps] /\ op' \in [Procs -> Operations]
    <3> DEFINE seeds == op[p].do = "seed" /\ kind[p] # "none"
    <3>1. CASE kind[p] = "dynamic"
      <4>1. /\ op' = [op EXCEPT ![p].do = IF seeds THEN "sown" ELSE "bound", ![p].data = copy[p]]
            /\ Goto(p, "rdwait")
        BY <1>10, <3>1 DEF Bind
      <4>2. (IF seeds THEN "sown" ELSE "bound") \in Marks
        BY DEF Marks
      <4> HIDE DEF seeds
      <4>3. op' \in [Procs -> Operations]
        BY <1>4, <4>1, <4>2, OpFields
      <4> QED
        BY <4>1, <4>3, StepType DEF Steps, Looking
    <3>2. CASE kind[p] # "dynamic" /\ seeds
      <4>1. op' = [op EXCEPT ![p].data = copy[p]] /\ Goto(p, "wrwait")
        BY <1>10, <3>2 DEF Bind
      <4>2. op' \in [Procs -> Operations]
        BY <1>4, <4>1, OpFields DEF Marks
      <4> QED
        BY <4>1, <4>2, StepType DEF Steps
    <3>3. CASE kind[p] # "dynamic" /\ ~seeds
      BY <1>10, <3>3, DoneType DEF Bind
    <3> QED
      BY <3>1, <3>2, <3>3
  <2> QED
    BY <2>2, <2>4, <2>5 DEF ShellsTyped
<1>11. CASE BindFails(p)
  BY <1>1, <1>3, <1>11 DEF BindFails
<1>12. CASE Sow(p)
  <2>1. pc' \in [Procs -> Steps]
    BY <1>12, StepType DEF Sow, Steps
  <2> QED
    BY <1>0, <1>1, <1>12, <2>1 DEF Sow, ShellsTyped, shell
<1>13. CASE Sync(p)
  <2>1. pc' \in [Procs -> Steps]
    BY <1>13, StepType DEF Sync, Steps
  <2>2. op' = [op EXCEPT ![p].data = copy[p]]
    BY <1>13 DEF Sync
  <2>3. op' \in [Procs -> Operations]
    BY <1>4, <2>2, OpFields DEF Marks
  <2> QED
    BY <1>0, <1>1, <1>13, <2>1, <2>3 DEF Sync, ShellsTyped, shell
<1>14. CASE Unbind(p)
  <2>1. PICK k \in {"none", "plain"} : Variable(p, NoDb, k, op[p].got)
    BY <1>14 DEF Unbind
  <2>2. op[p].got \in Contents
    BY <1>4 DEF Operations
  <2>3. Done(p) /\ UNCHANGED <<memory, locks>>
    BY <1>14 DEF Unbind
  <2> QED
    BY <1>1, <1>2, <2>1, <2>2, <2>3
<1>15. CASE Remove(p)
  BY <1>1, <1>2, <1>15, ContentsTypes DEF Remove
<1>16. CASE JustRead(p)
  BY <1>1, <1>3, <1>16 DEF JustRead
<1> QED
  BY <1>5, <1>6, <1>7, <1>8, <1>9, <1>10, <1>11, <1>12, <1>13, <1>14, <1>15, <1>16 DEF Found


------------------------------------------------------------------------------
(* Types. *)

\* What a writer stores is an array.
LEMMA ResultType ==
  ASSUME TypeOK, NEW p \in Procs, bound[p] \in Dbs
  PROVE  Result(p) \in Contents
<1>1. /\ stored[bound[p]] \in Contents
      /\ op[p].todo \in Contents /\ op[p].data \in Contents
  BY DEF TypeOK
<1>2. [stored[bound[p]] EXCEPT ![Target(p)] = op[p].todo[Target(p)]] \in Contents
  <2>1. CASE Target(p) \in Idx
    <3>1. op[p].todo[Target(p)] \in Values \cup {Unset}
      BY <1>1, <2>1 DEF Contents
    <3> QED
      BY <1>1, <3>1 DEF Contents
  <2>2. CASE Target(p) \notin Idx
    BY <1>1, <2>2 DEF Contents
  <2> QED
    BY <2>1, <2>2
<1> QED
  BY <1>1, <1>2, ContentsTypes DEF Result

\* A step of an operation assigns values of the declared types.
LEMMA WorkType ==
  ASSUME TypeOK, HasDatabase, NEW p \in Procs, Work(p)
  PROVE  StateTyped'
<1>0. ShellsTyped /\ MemoryTyped /\ alive \subseteq Procs /\ ops \in 0..MaxOps
  BY TypeParts
<1>1. CASE Found(p)
  BY <1>0, <1>1, FoundType DEF Found, StateTyped
<1> SUFFICES ASSUME ~Found(p) PROVE StateTyped'
  BY <1>1
<1>2. pc[p] \notin {"idle", "found"}
  BY <1>0 DEF Work, RdLock, Read, RdUnlock, Merge, Set, WrLock, Overflow, Grow, Write, WrUnlock, At
<1>3. bound[p] \in Dbs
  BY <1>2 DEF HasDatabase
<1>4. /\ stored[bound[p]] \in Contents /\ copy[p] \in Contents
      /\ op[p].todo \in Contents /\ op[p].data \in Contents
  BY <1>0, <1>3 DEF ShellsTyped, MemoryTyped, Operations
<1>5. alive' = alive /\ ops' = ops
  BY DEF Work, RdLock, Read, RdUnlock, Merge, Set, WrLock, Overflow, Grow, Write, WrUnlock
<1>6. SUFFICES ShellsTyped' /\ MemoryTyped'
  BY <1>0, <1>5 DEF StateTyped
<1>7. CASE RdLock(p)
  <2>1. pc' \in [Procs -> Steps]
    BY <1>7, StepType DEF RdLock, Steps, Looking
  <2> QED
    BY <1>0, <1>3, <1>7, <2>1 DEF RdLock, ShellsTyped, MemoryTyped, shell, memory
<1>8. CASE Read(p)
  <2>1. pc' \in [Procs -> Steps]
    BY <1>8, StepType DEF Read, Steps, Looking
  <2>2. op' \in [Procs -> Operations]
    BY <1>4, <1>8, OpFields DEF Read, Marks
  <2> QED
    BY <1>0, <1>8, <2>1, <2>2 DEF Read, ShellsTyped, MemoryTyped, shell, memory, locks
<1>9. CASE RdUnlock(p)
  <2>1. (IF op[p].do \in {"unbind", "info"} THEN "found" ELSE "merging") \in Steps
    BY DEF Steps, Looking
  <2>2. pc' \in [Procs -> Steps]
    BY <1>9, <2>1, StepType DEF RdUnlock
  <2> QED
    BY <1>0, <1>9, <2>2 DEF RdUnlock, ShellsTyped, MemoryTyped, shell, memory
<1>16. CASE Merge(p)
  <2>1. pc' \in [Procs -> Steps]
    BY <1>16, StepType DEF Merge, Steps
  <2>2. op' \in [Procs -> Operations]
    BY <1>16, OpFields, ContentsTypes DEF Merge, Marks
  <2>3. op[p].got \in Contents
    BY <1>0 DEF ShellsTyped, Operations
  <2>4. copy' \in [Procs -> Contents]
    BY <1>0, <1>4, <1>16, <2>3, ContentsTypes DEF Merge, ShellsTyped
  <2> QED
    BY <1>0, <1>16, <2>1, <2>2, <2>4 DEF Merge, ShellsTyped, MemoryTyped, memory, locks
<1>10. CASE Set(p)
  <2>1. pc' \in [Procs -> Steps]
    BY <1>10, StepType DEF Set, Steps
  <2>2. copy' = [copy EXCEPT ![p] = [copy[p] EXCEPT ![Target(p)] = op[p].todo[Target(p)]]]
    BY <1>10 DEF Set
  <2>3. [copy[p] EXCEPT ![Target(p)] = op[p].todo[Target(p)]] \in Contents
    <3>1. CASE Target(p) \in Idx
      <4>1. op[p].todo[Target(p)] \in Values \cup {Unset}
        BY <1>4, <3>1 DEF Contents
      <4> QED
        BY <1>4, <4>1 DEF Contents
    <3>2. CASE Target(p) \notin Idx
      BY <1>4, <3>2 DEF Contents
    <3> QED
      BY <3>1, <3>2
  <2> QED
    <3>1. copy' \in [Procs -> Contents]
      BY <1>0, <2>2, <2>3 DEF ShellsTyped
    <3> QED
      BY <1>0, <1>10, <2>1, <3>1 DEF Set, ShellsTyped, MemoryTyped, memory, locks
<1>11. CASE WrLock(p)
  <2>1. pc' \in [Procs -> Steps]
    BY <1>11, StepType DEF WrLock, Steps
  <2> QED
    BY <1>0, <1>11, <2>1 DEF WrLock, ShellsTyped, MemoryTyped, shell, memory
<1>12. CASE Overflow(p)
  <2>1. pc' \in [Procs -> Steps]
    BY <1>12, StepType DEF Overflow, Steps
  <2>2. op' \in [Procs -> Operations]
    BY <1>4, <1>12, OpFields DEF Overflow, Marks
  <2> QED
    BY <1>0, <1>12, <2>1, <2>2 DEF Overflow, ShellsTyped, MemoryTyped, shell, memory, locks
<1>13. CASE Grow(p)
  <2>1. pc' \in [Procs -> Steps]
    BY <1>13, StepType DEF Grow, Steps
  <2> QED
    BY <1>0, <1>13, <2>1 DEF Grow, ShellsTyped, MemoryTyped, shell, locks
<1>14. CASE Write(p)
  <2>1. pc' \in [Procs -> Steps]
    BY <1>14, StepType DEF Write, Steps
  <2> QED
    BY <1>0, <1>3, <1>14, <2>1, ResultType DEF Write, ShellsTyped, MemoryTyped, shell, locks
<1>15. CASE WrUnlock(p)
  <2>1. pc' \in [Procs -> Steps] /\ op' \in [Procs -> Operations]
    <3>1. ASSUME NEW rest, op' = [op EXCEPT ![p].todo = rest], rest \in Contents,
                 Goto(p, "setting")
          PROVE  pc' \in [Procs -> Steps] /\ op' \in [Procs -> Operations]
      <4>1. op' \in [Procs -> Operations]
        BY <1>4, <3>1, OpFields DEF Marks
      <4> QED
        BY <3>1, <4>1, StepType DEF Steps
    <3>2. [op[p].todo EXCEPT ![Target(p)] = Unset] \in Contents
      BY <1>4 DEF Contents
    <3> QED
      BY <1>15, <3>1, <3>2, DoneType, ContentsTypes DEF WrUnlock
  <2>2. /\ bound' \in [Procs -> Dbs \cup {NoDb}]
        /\ kind' \in [Procs -> {"none", "plain", "dynamic"}]
        /\ copy' \in [Procs -> Contents]
    BY <1>0, <1>15, VariableType, ContentsTypes DEF WrUnlock, ShellsTyped, shell
  <2> QED
    BY <1>0, <1>15, <2>1, <2>2 DEF WrUnlock, Released, ShellsTyped, MemoryTyped, memory
<1> QED
  BY <1>7, <1>8, <1>9, <1>10, <1>11, <1>12, <1>13, <1>14, <1>15, <1>16 DEF Work

\* Every step assigns values of the declared types.
LEMMA TypeStep == TypeOK /\ HasDatabase /\ [Next]_vars => StateTyped'
<1> SUFFICES ASSUME TypeOK, HasDatabase, [Next]_vars PROVE StateTyped'
  OBVIOUS
<1>0. ShellsTyped /\ MemoryTyped /\ alive \subseteq Procs /\ ops \in 0..MaxOps
  BY TypeParts
<1>1. CASE UNCHANGED vars
  BY <1>0, <1>1 DEF vars, shell, memory, locks, ShellsTyped, MemoryTyped, StateTyped
<1>2. ASSUME NEW p \in Procs, Work(p) PROVE StateTyped'
  BY <1>2, WorkType
<1>3. ASSUME NEW p \in Procs, NEW do \in Does, Start(p, do) PROVE StateTyped'
  <2>1. pc' \in [Procs -> Steps]
    BY <1>0, <1>3 DEF Start, Goto, FirstStep, Steps, Looking, ShellsTyped
  <2>2. op' \in [Procs -> Operations]
    BY <1>0, <1>3, IdleType DEF Start, ShellsTyped
  <2>3. ops' \in 0..MaxOps
    BY <1>0, <1>3 DEF Start, MayStart
  <2>4. ShellsTyped' /\ MemoryTyped' /\ alive' = alive
    BY <1>0, <1>3, <2>1, <2>2 DEF Start, ShellsTyped, MemoryTyped, shell, memory, locks
  <2> QED
    BY <1>0, <2>3, <2>4 DEF StateTyped
<1>4. ASSUME NEW p \in Procs, NEW c \in Procs, Fork(p, c) PROVE StateTyped'
  <2>1. ShellsTyped'
    BY <1>0, <1>4, VariableType DEF Fork, ShellsTyped
  <2>2. MemoryTyped'
    BY <1>0, <1>4 DEF Fork, MemoryTyped, memory, locks
  <2> QED
    BY <1>0, <1>4, <2>1, <2>2 DEF Fork, StateTyped
<1>5. ASSUME NEW p \in Procs, Kill(p) PROVE StateTyped'
  <2>1. ShellsTyped'
    BY <1>5, VariableType, DoneType, ContentsTypes DEF Kill, ShellsTyped
  <2>2. MemoryTyped'
    BY <1>0, <1>5 DEF Kill, MemoryTyped, memory
  <2> QED
    BY <1>0, <1>5, <2>1, <2>2 DEF Kill, StateTyped
<1> QED
  BY <1>1, <1>2, <1>3, <1>4, <1>5 DEF Next


------------------------------------------------------------------------------
(* The invariant. *)

Links == DeadIsIdle /\ HasDatabase /\ LockHeld /\ LockExcludes /\ TornIsLocked /\ HooksAreBound

\* What an operation does that has found its variable, seen by the others: its shell gets a
\* database `d`, a variable of kind `k` and goes on to step `s`; memory is only touched when
\* nobody else has it.
Moves(p, d, k, s) ==
  /\ bound' = [bound EXCEPT ![p] = d]
  /\ kind' = [kind EXCEPT ![p] = k]
  /\ pc' = [pc EXCEPT ![p] = s]
  /\ k = "dynamic" => d # NoDb
  /\ s # "idle" => d \in Dbs
Prepares(e) ==
  /\ stored' = [stored EXCEPT ![e] = Empty] /\ torn' = [torn EXCEPT ![e] = FALSE]
  /\ writer' = [writer EXCEPT ![e] = Nobody] /\ readers' = [readers EXCEPT ![e] = {}]

LEMMA AssignMoves ==
  ASSUME TypeOK, HooksAreBound, NEW p \in Procs, NEW c, NEW base, Assign(p, c, base)
  PROVE  \E d \in Dbs \cup {NoDb}, k \in {"none", "plain", "dynamic"}, s \in {"idle", "setting"} :
           Moves(p, d, k, s)
<1>0. /\ bound \in [Procs -> Dbs \cup {NoDb}] /\ kind \in [Procs -> {"none", "plain", "dynamic"}]
      /\ kind[p] = "dynamic" => bound[p] # NoDb
  BY DEF TypeOK, HooksAreBound
<1>1. CASE kind[p] = "dynamic" /\ c # Empty
  <2>1. Moves(p, bound[p], kind[p], "setting")
    BY <1>0, <1>1 DEF Assign, Moves, Goto
  <2> QED
    BY <1>0, <2>1
<1>2. CASE ~(kind[p] = "dynamic" /\ c # Empty)
  <2>1. Moves(p, bound[p], IF kind[p] = "none" THEN "plain" ELSE kind[p], "idle")
    BY <1>0, <1>2 DEF Assign, Variable, Done, Moves, Goto
  <2> QED
    BY <1>0, <2>1
<1> QED
  BY <1>1, <1>2

LEMMA FoundMoves ==
  ASSUME TypeOK, HasDatabase, HooksAreBound, NEW p \in Procs, Found(p)
  PROVE  /\ \E d \in Dbs \cup {NoDb}, k \in {"none", "plain", "dynamic"},
               s \in {"idle", "setting", "rdwait", "wrwait"} : Moves(p, d, k, s)
         /\ UNCHANGED <<memory, locks>> \/ \E e \in Fresh : Prepares(e)
<1>0. /\ bound \in [Procs -> Dbs \cup {NoDb}] /\ kind \in [Procs -> {"none", "plain", "dynamic"}]
      /\ kind[p] = "dynamic" => bound[p] # NoDb
      /\ op[p].do \in {"sync", "sown"} => bound[p] \in Dbs
  BY DEF TypeOK, HooksAreBound, HasDatabase, Found, At
<1>1. ASSUME NEW s \in {"idle", "wrwait"}, UNCHANGED <<bound, kind>>, Goto(p, s),
             s = "wrwait" => bound[p] \in Dbs
      PROVE  Moves(p, bound[p], kind[p], s)
  BY <1>0, <1>1 DEF Moves, Goto
<1>2. CASE Put(p)
  BY <1>2, AssignMoves DEF Put
<1>3. CASE Append(p)
  <2>1. CASE Length - 1 \in Elements(copy[p])
    BY <1>0, <1>1, <1>3, <2>1 DEF Append, Done, shell
  <2>2. CASE ~(Length - 1 \in Elements(copy[p]))
    <3>1. PICK i \in Idx, v \in Values : Assign(p, Only(i, v), copy[p])
      BY <1>3, <2>2 DEF Append
    <3> QED
      BY <1>3, <3>1, AssignMoves DEF Append
  <2> QED
    BY <2>1, <2>2
<1>4. CASE Reassign(p)
  <2>1. PICK c \in Contents : Assign(p, c, Empty)
    BY <1>4 DEF Reassign
  <2> QED
    BY <1>4, <2>1, AssignMoves DEF Reassign
<1>5. CASE Delete(p) \/ JustRead(p) \/ BindFails(p)
  BY <1>0, <1>1, <1>5 DEF Delete, JustRead, BindFails, Done, shell
<1>6. CASE Sow(p) \/ Sync(p)
  BY <1>0, <1>1, <1>6 DEF Sow, Sync, shell
<1>7. CASE Forget(p) \/ Remove(p)
  <2>1. Moves(p, bound[p], "none", "idle") \/ Moves(p, NoDb, "none", "idle")
    BY <1>7 DEF Forget, Remove, Variable, Done, Moves, Goto
  <2> QED
    BY <1>0, <1>7, <2>1 DEF Forget, Remove
<1>8. CASE Unbind(p)
  <2>1. PICK k \in {"none", "plain"} : Moves(p, NoDb, k, "idle")
    BY <1>8 DEF Unbind, Variable, Done, Moves, Goto
  <2> QED
    BY <1>8, <2>1 DEF Unbind
<1>9. CASE Bind(p)
  <2>1. PICK d \in ({bound[p]} \ {NoDb}) \cup Fresh :
          /\ Variable(p, d, "dynamic", copy[p])
          /\ IF d \in Fresh THEN Prepares(d) ELSE UNCHANGED <<memory, locks>>
    BY <1>9 DEF Bind, Prepares
  <2>2. d \in Dbs /\ d # NoDb
    BY <1>0, <2>1 DEF Fresh
  <2>3. PICK s \in {"idle", "rdwait", "wrwait"} : pc' = [pc EXCEPT ![p] = s]
    BY <1>9 DEF Bind, Done, Goto
  <2>4. Moves(p, d, "dynamic", s)
    BY <2>1, <2>2, <2>3 DEF Moves, Variable
  <2>5. UNCHANGED <<memory, locks>> \/ \E e \in Fresh : Prepares(e)
    BY <2>1
  <2> QED
    BY <2>2, <2>4, <2>5
<1> QED
  BY <1>2, <1>3, <1>4, <1>5, <1>6, <1>7, <1>8, <1>9 DEF Found


\* After that the links hold as before: the others have their databases and locks.
LEMMA FoundLinks ==
  ASSUME TypeOK, Links, NEW p \in Procs, Found(p)
  PROVE  Links'
<1>1. PICK d \in Dbs \cup {NoDb}, k \in {"none", "plain", "dynamic"},
           s \in {"idle", "setting", "rdwait", "wrwait"} : Moves(p, d, k, s)
  BY FoundMoves DEF Links
<1>2. UNCHANGED <<memory, locks>> \/ \E e \in Fresh : Prepares(e)
  BY FoundMoves DEF Links
<1>3. alive' = alive /\ pc[p] = "found"
  BY DEF Found, At
<1>4. /\ pc \in [Procs -> Steps] /\ bound \in [Procs -> Dbs \cup {NoDb}]
      /\ kind \in [Procs -> {"none", "plain", "dynamic"}]
      /\ writer \in [Dbs -> Procs \cup {Nobody, Dead}]
      /\ readers \in [Dbs -> SUBSET (Procs \cup {Dead})] /\ torn \in [Dbs -> BOOLEAN]
  BY DEF TypeOK
<1>5. \A q \in Procs \ {p} : pc'[q] = pc[q] /\ bound'[q] = bound[q] /\ kind'[q] = kind[q]
                             /\ op'[q].do = op[q].do
  <2>1. \A q \in Procs \ {p} : op'[q].do = op[q].do
    BY DEF Found, Put, Append, Reassign, Delete, Forget, Bind, BindFails, Sow, Sync, Unbind,
           Remove, JustRead, Assign, Done, TypeOK
  <2> QED
    BY <1>1, <1>4, <2>1 DEF Moves
<1>6. pc'[p] = s /\ bound'[p] = d /\ kind'[p] = k
  BY <1>1, <1>4 DEF Moves
<1>7. DeadIsIdle' /\ HasDatabase' /\ HooksAreBound'
  <2>1. p \in alive
    BY <1>3 DEF Links, DeadIsIdle, At
  <2>2. DeadIsIdle'
    BY <1>3, <1>5, <2>1 DEF Links, DeadIsIdle, At
  <2>3. HasDatabase'
    BY <1>1, <1>5, <1>6 DEF Links, HasDatabase, At, Moves
  <2>4. HooksAreBound'
    BY <1>1, <1>5, <1>6 DEF Links, HooksAreBound, Moves
  <2> QED
    BY <2>2, <2>3, <2>4
<1>8. CASE UNCHANGED <<memory, locks>>
  <2>1. writer' = writer /\ readers' = readers /\ torn' = torn
    BY <1>8 DEF memory, locks
  <2>2. LockHeld'
    BY <1>1, <1>5, <1>6, <2>1 DEF Links, LockHeld
  <2>3. LockExcludes'
    BY <2>1 DEF Links, LockExcludes
  <2>4. TornIsLocked'
    BY <1>3, <1>5, <2>1 DEF Links, TornIsLocked, At
  <2> QED
    BY <1>7, <2>2, <2>3, <2>4 DEF Links
<1>9. CASE \E e \in Fresh : Prepares(e)
  <2>1. PICK e \in Fresh : Prepares(e)
    BY <1>9
  <2>2. e \in Dbs /\ \A q \in Procs : bound[q] # e
    BY DEF Fresh
  <2>3. \A f \in Dbs \ {e} : writer'[f] = writer[f] /\ readers'[f] = readers[f] /\ torn'[f] = torn[f]
    BY <1>4, <2>1, <2>2 DEF Prepares
  <2>4. writer'[e] = Nobody /\ readers'[e] = {} /\ torn'[e] = FALSE
    BY <1>4, <2>1, <2>2 DEF Prepares
  <2>5. LockHeld'
    <3>1. ASSUME NEW q \in Procs \ {p}, pc[q] \notin {"idle", "found"}
          PROVE  bound[q] \in Dbs \ {e}
      BY <2>2, <3>1 DEF Links, HasDatabase
    <3> QED
      BY <1>1, <1>5, <1>6, <2>3, <3>1 DEF Links, LockHeld
  <2>6. LockExcludes'
    BY <2>3, <2>4 DEF Links, LockExcludes
  <2>7. TornIsLocked'
    BY <1>3, <1>5, <2>3, <2>4 DEF Links, TornIsLocked, At
  <2> QED
    BY <1>7, <2>5, <2>6, <2>7 DEF Links
<1> QED
  BY <1>2, <1>8, <1>9

\* Steps under the lock, or to and from it.
LEMMA LockLinks ==
  ASSUME TypeOK, Links, NEW p \in Procs, Work(p), ~Found(p)
  PROVE  Links'
<1>0. /\ pc \in [Procs -> Steps] /\ bound \in [Procs -> Dbs \cup {NoDb}]
      /\ kind \in [Procs -> {"none", "plain", "dynamic"}]
      /\ writer \in [Dbs -> Procs \cup {Nobody, Dead}]
      /\ readers \in [Dbs -> SUBSET (Procs \cup {Dead})] /\ torn \in [Dbs -> BOOLEAN]
  BY DEF TypeOK
<1>1. pc[p] \notin {"idle", "found"}
  BY DEF Work, RdLock, Read, RdUnlock, Merge, Set, WrLock, Overflow, Grow, Write, WrUnlock, At
<1>2. bound[p] \in Dbs /\ p \in alive
  BY <1>1 DEF Links, HasDatabase, DeadIsIdle, At
<1>3. alive' = alive
  BY DEF Work, RdLock, Read, RdUnlock, Merge, Set, WrLock, Overflow, Grow, Write, WrUnlock
<1>4. \A q \in Procs \ {p} : op'[q].do = op[q].do
  BY DEF Work, RdLock, Read, RdUnlock, Merge, Set, WrLock, Overflow, Grow, Write, WrUnlock, Done, TypeOK
<1>5. /\ DeadIsIdle /\ HasDatabase /\ LockHeld /\ LockExcludes /\ TornIsLocked /\ HooksAreBound
  BY DEF Links
<1>6. DeadIsIdle'
  BY <1>0, <1>2, <1>3, <1>5 DEF DeadIsIdle, At, Work, RdLock, Read, RdUnlock, Merge, Set, WrLock, Overflow,
     Grow, Write, WrUnlock, Goto, Done
<1>7. CASE RdLock(p)
  <2>1. HasDatabase' /\ HooksAreBound'
    BY <1>0, <1>2, <1>5, <1>7 DEF RdLock, HasDatabase, HooksAreBound, Goto, At, shell
  <2>2. LockHeld' /\ LockExcludes' /\ TornIsLocked'
    BY <1>0, <1>2, <1>5, <1>7 DEF RdLock, LockHeld, LockExcludes, TornIsLocked, Goto, At, shell, memory
  <2> QED
    BY <1>6, <2>1, <2>2 DEF Links
<1>8. CASE Read(p)
  <2>1. HasDatabase' /\ HooksAreBound'
    BY <1>0, <1>2, <1>4, <1>5, <1>8 DEF Read, HasDatabase, HooksAreBound, Goto, At, shell
  <2>2. LockHeld' /\ LockExcludes' /\ TornIsLocked'
    BY <1>0, <1>2, <1>5, <1>8 DEF Read, LockHeld, LockExcludes, TornIsLocked, Goto, At, shell, locks, memory
  <2> QED
    BY <1>6, <2>1, <2>2 DEF Links
<1>9. CASE RdUnlock(p)
  <2>1. HasDatabase' /\ HooksAreBound'
    BY <1>0, <1>2, <1>5, <1>9 DEF RdUnlock, HasDatabase, HooksAreBound, Goto, At, shell
  <2>2. LockHeld' /\ LockExcludes' /\ TornIsLocked'
    BY <1>0, <1>2, <1>5, <1>9 DEF RdUnlock, LockHeld, LockExcludes, TornIsLocked, Goto, At, shell, memory
  <2> QED
    BY <1>6, <2>1, <2>2 DEF Links
<1>16. CASE Merge(p)
  <2>1. HasDatabase' /\ HooksAreBound'
    BY <1>0, <1>2, <1>4, <1>5, <1>16 DEF Merge, HasDatabase, HooksAreBound, Goto, At
  <2>2. LockHeld' /\ LockExcludes' /\ TornIsLocked'
    BY <1>0, <1>2, <1>5, <1>16 DEF Merge, LockHeld, LockExcludes, TornIsLocked, Goto, At, locks, memory
  <2> QED
    BY <1>6, <2>1, <2>2 DEF Links
<1>10. CASE Set(p)
  <2>1. HasDatabase' /\ HooksAreBound'
    BY <1>0, <1>2, <1>5, <1>10 DEF Set, HasDatabase, HooksAreBound, Goto, At
  <2>2. LockHeld' /\ LockExcludes' /\ TornIsLocked'
    BY <1>0, <1>2, <1>5, <1>10 DEF Set, LockHeld, LockExcludes, TornIsLocked, Goto, At, locks, memory
  <2> QED
    BY <1>6, <2>1, <2>2 DEF Links
<1>11. CASE WrLock(p)
  <2>1. HasDatabase' /\ HooksAreBound'
    BY <1>0, <1>2, <1>5, <1>11 DEF WrLock, HasDatabase, HooksAreBound, Goto, At, shell
  <2>2. writer[bound[p]] = Nobody /\ readers[bound[p]] = {}
    BY <1>11 DEF WrLock, Free
  <2>3. LockHeld' /\ LockExcludes' /\ TornIsLocked'
    BY <1>0, <1>2, <1>5, <1>11, <2>2 DEF WrLock, LockHeld, LockExcludes, TornIsLocked, Goto, At, shell, memory
  <2> QED
    BY <1>6, <2>1, <2>3 DEF Links
<1>12. CASE Overflow(p)
  <2>1. HasDatabase' /\ HooksAreBound'
    BY <1>0, <1>2, <1>4, <1>5, <1>12 DEF Overflow, HasDatabase, HooksAreBound, Goto, At, shell
  <2>2. LockHeld' /\ LockExcludes' /\ TornIsLocked'
    BY <1>0, <1>2, <1>5, <1>12 DEF Overflow, LockHeld, LockExcludes, TornIsLocked, Goto, At, locks, memory, shell
  <2> QED
    BY <1>6, <2>1, <2>2 DEF Links
<1>13. CASE Grow(p)
  <2>1. HasDatabase' /\ HooksAreBound'
    BY <1>0, <1>2, <1>5, <1>13 DEF Grow, HasDatabase, HooksAreBound, Goto, At, shell
  <2>2. LockHeld' /\ LockExcludes' /\ TornIsLocked'
    BY <1>0, <1>2, <1>5, <1>13 DEF Grow, LockHeld, LockExcludes, TornIsLocked, Goto, At, locks, shell
  <2> QED
    BY <1>6, <2>1, <2>2 DEF Links
<1>14. CASE Write(p)
  <2>1. HasDatabase' /\ HooksAreBound'
    BY <1>0, <1>2, <1>5, <1>14 DEF Write, HasDatabase, HooksAreBound, Goto, At, shell
  <2>2. LockHeld' /\ LockExcludes' /\ TornIsLocked'
    BY <1>0, <1>2, <1>5, <1>14 DEF Write, LockHeld, LockExcludes, TornIsLocked, Goto, At, locks, shell
  <2> QED
    BY <1>6, <2>1, <2>2 DEF Links
<1>15. CASE WrUnlock(p)
  <2>8. PICK s \in {"idle", "setting"} :
          pc' = [pc EXCEPT ![p] = s] /\ (op[p].do = "drop" => s = "idle")
    <3>1. CASE Done(p)
      BY <3>1 DEF Done, Goto
    <3>2. CASE ~Done(p)
      <4>1. op[p].do \in Setters
        BY <1>15, <3>2 DEF WrUnlock
      <4>2. Goto(p, "setting")
        BY <1>15, <3>2 DEF WrUnlock
      <4> QED
        BY <4>1, <4>2 DEF Goto, Setters
    <3> QED
      BY <3>1, <3>2
  <2>9. \/ /\ op[p].do = "drop"
           /\ bound' = [bound EXCEPT ![p] = NoDb] /\ kind' = [kind EXCEPT ![p] = "none"]
        \/ bound' = bound /\ kind' = kind
    BY <1>15 DEF WrUnlock, Variable, shell
  <2>1. \A q \in Procs \ {p} : pc'[q] = pc[q] /\ bound'[q] = bound[q] /\ kind'[q] = kind[q]
    BY <1>0, <2>8, <2>9
  <2>2. /\ pc'[p] \in {"idle", "setting"}
        /\ \/ bound'[p] = bound[p] /\ kind'[p] = kind[p]
           \/ pc'[p] = "idle" /\ kind'[p] = "none"
    BY <1>0, <2>8, <2>9
  <2>3. HasDatabase' /\ HooksAreBound'
    BY <1>2, <1>4, <1>5, <2>1, <2>2 DEF HasDatabase, HooksAreBound, At
  <2>4. /\ writer' = [writer EXCEPT ![bound[p]] = Nobody] /\ readers' = readers /\ torn' = torn
        /\ writer[bound[p]] = p /\ pc[p] = "written"
    BY <1>5, <1>15 DEF WrUnlock, Released, LockHeld, memory, At
  <2>5. LockHeld'
    <3>1. ASSUME NEW q \in Procs \ {p}, pc[q] \in {"writing", "growing", "written"}
          PROVE  bound[q] # bound[p] /\ bound[q] \in Dbs
      BY <1>5, <2>4, <3>1 DEF LockHeld, HasDatabase
    <3>2. ASSUME NEW q \in Procs PROVE LockHeld!(q)'
      BY <1>0, <1>2, <1>5, <2>1, <2>2, <2>4, <3>1 DEF LockHeld
    <3> QED
      BY <3>2 DEF LockHeld
  <2>6. LockExcludes'
    BY <1>0, <1>2, <1>5, <2>4 DEF LockExcludes
  <2>7. TornIsLocked'
    BY <1>0, <1>2, <1>5, <2>1, <2>4 DEF TornIsLocked, At
  <2> QED
    BY <1>6, <2>3, <2>5, <2>6, <2>7 DEF Links
<1> QED
  BY <1>7, <1>8, <1>9, <1>10, <1>11, <1>12, <1>13, <1>14, <1>15, <1>16 DEF Work

\* The start of an operation that goes to the lock has a database to go to.
LEMMA StartLinks ==
  ASSUME TypeOK, Links, NEW p \in Procs, NEW do \in Does, Start(p, do)
  PROVE  Links'
<1>0. /\ pc \in [Procs -> Steps] /\ bound \in [Procs -> Dbs \cup {NoDb}]
      /\ kind \in [Procs -> {"none", "plain", "dynamic"}]
      /\ op \in [Procs -> Operations]
  BY TypeParts DEF ShellsTyped
<1>1. /\ DeadIsIdle /\ HasDatabase /\ LockHeld /\ LockExcludes /\ TornIsLocked /\ HooksAreBound
  BY DEF Links
<1>2. p \in alive /\ pc[p] = "idle" /\ UNCHANGED <<alive, shell, memory, locks>>
  BY DEF Start, MayStart, At
<1>3. PICK s \in {"found", "rdwait", "wrwait"} :
        /\ pc' = [pc EXCEPT ![p] = s]
        /\ s # "found" => bound[p] # NoDb
  <2>1. do \in {"drop", "clear"} => bound[p] # NoDb
    BY DEF Start, MayStart
  <2>2. kind[p] = "dynamic" => bound[p] # NoDb
    BY <1>1 DEF HooksAreBound
  <2> QED
    <3>1. Goto(p, FirstStep(p, do))
      BY DEF Start
    <3>2. /\ FirstStep(p, do) \in {"found", "rdwait", "wrwait"}
          /\ FirstStep(p, do) # "found" => bound[p] # NoDb
      <4>1. CASE do \in {"drop", "clear"}
        BY <2>1, <4>1 DEF FirstStep, Namers, Setters
      <4>2. CASE do \in {"unbind", "info"} /\ bound[p] # NoDb
        BY <4>2 DEF FirstStep, Namers, Setters
      <4>3. CASE do \in Namers \cup {"bind", "seed", "sync"} /\ kind[p] = "dynamic"
        BY <2>2, <4>3 DEF FirstStep, Namers, Setters
      <4> QED
        BY <4>1, <4>2, <4>3 DEF FirstStep
    <3> QED
      BY <3>1, <3>2 DEF Goto
<1>4. op'[p].do = do /\ \A q \in Procs \ {p} : op'[q] = op[q]
  BY <1>0 DEF Start, Idle, Operations
<1>5. do # "sown" /\ (do = "sync" => bound[p] # NoDb)
  BY DEF Start, MayStart, AllDoes, Namers, Setters, Commands
<1>6. HasDatabase'
  BY <1>0, <1>1, <1>2, <1>3, <1>4, <1>5 DEF HasDatabase, At, shell
<1>7. DeadIsIdle' /\ HooksAreBound' /\ LockExcludes'
  BY <1>0, <1>1, <1>2, <1>3 DEF DeadIsIdle, HooksAreBound, LockExcludes, At, shell, locks
<1>8. LockHeld' /\ TornIsLocked'
  BY <1>0, <1>1, <1>2, <1>3 DEF LockHeld, TornIsLocked, At, shell, locks, memory
<1> QED
  BY <1>6, <1>7, <1>8 DEF Links

\* A child has the database of its parent, and no lock.
LEMMA ForkLinks ==
  ASSUME TypeOK, Links, NEW p \in Procs, NEW c \in Procs, Fork(p, c)
  PROVE  Links'
<1>0. /\ pc \in [Procs -> Steps] /\ bound \in [Procs -> Dbs \cup {NoDb}]
      /\ kind \in [Procs -> {"none", "plain", "dynamic"}]
  BY DEF TypeOK
<1>1. /\ DeadIsIdle /\ HasDatabase /\ LockHeld /\ LockExcludes /\ TornIsLocked /\ HooksAreBound
  BY DEF Links
<1>2. /\ c \notin alive /\ alive' = alive \cup {c} /\ pc[c] = "idle"
      /\ UNCHANGED <<memory, locks, pc, op>>
  BY <1>1 DEF Fork, DeadIsIdle, At
<1>3. /\ bound' = [bound EXCEPT ![c] = bound[p]]
      /\ kind' = [kind EXCEPT ![c] = kind[p]]
  BY DEF Fork, Variable
<1>4. HasDatabase' /\ HooksAreBound' /\ DeadIsIdle'
  BY <1>0, <1>1, <1>2, <1>3 DEF HasDatabase, HooksAreBound, DeadIsIdle, At
<1>5. LockHeld' /\ LockExcludes' /\ TornIsLocked'
  BY <1>0, <1>1, <1>2, <1>3 DEF LockHeld, LockExcludes, TornIsLocked, At, memory, locks
<1> QED
  BY <1>4, <1>5 DEF Links

\* What a killed process held stays locked.
LEMMA KillLinks ==
  ASSUME TypeOK, Links, NEW p \in Procs, Kill(p)
  PROVE  Links'
<1>0. /\ pc \in [Procs -> Steps] /\ bound \in [Procs -> Dbs \cup {NoDb}]
      /\ kind \in [Procs -> {"none", "plain", "dynamic"}]
      /\ op \in [Procs -> Operations]
      /\ writer \in [Dbs -> Procs \cup {Nobody, Dead}]
      /\ readers \in [Dbs -> SUBSET (Procs \cup {Dead})] /\ torn \in [Dbs -> BOOLEAN]
  BY TypeParts DEF ShellsTyped, MemoryTyped
<1>1. /\ DeadIsIdle /\ HasDatabase /\ LockHeld /\ LockExcludes /\ TornIsLocked /\ HooksAreBound
  BY DEF Links
<1>2. /\ alive' = alive \ {p} /\ pc' = [pc EXCEPT ![p] = "idle"]
      /\ op' = [op EXCEPT ![p] = Idle] /\ UNCHANGED memory
      /\ bound' = [bound EXCEPT ![p] = NoDb] /\ kind' = [kind EXCEPT ![p] = "none"]
  BY DEF Kill, Done, Goto, Variable
<1>3. /\ writer' = [d \in Dbs |-> IF writer[d] = p THEN Dead ELSE writer[d]]
      /\ readers' = [d \in Dbs |-> IF p \in readers[d] THEN (readers[d] \ {p}) \cup {Dead}
                                   ELSE readers[d]]
  BY DEF Kill
<1>4. HasDatabase' /\ HooksAreBound' /\ DeadIsIdle'
  BY <1>0, <1>1, <1>2 DEF HasDatabase, HooksAreBound, DeadIsIdle, At
<1>5. LockHeld'
  <2>1. ASSUME NEW q \in Procs, pc'[q] # "idle"
        PROVE  q # p /\ pc'[q] = pc[q] /\ bound'[q] = bound[q]
    BY <1>0, <1>2, <2>1
  <2>2. ASSUME NEW q \in Procs, pc'[q] \in {"writing", "growing", "written"}
        PROVE  writer'[bound'[q]] = q
    BY <1>0, <1>1, <1>3, <2>1, <2>2 DEF LockHeld, HasDatabase
  <2>3. ASSUME NEW q \in Procs, pc'[q] \in {"reading", "gotten"}
        PROVE  q \in readers'[bound'[q]]
    BY <1>0, <1>1, <1>3, <2>1, <2>3 DEF LockHeld, HasDatabase
  <2> QED
    BY <2>2, <2>3 DEF LockHeld
<1>6. LockExcludes'
  BY <1>0, <1>1, <1>3 DEF LockExcludes
<1>7. TornIsLocked'
  BY <1>0, <1>1, <1>2, <1>3 DEF TornIsLocked, At, memory
<1> QED
  BY <1>4, <1>5, <1>6, <1>7 DEF Links

LEMMA InitLinks == Init => Links
  BY DEF Init, Links, DeadIsIdle, HasDatabase, LockHeld, LockExcludes, TornIsLocked,
     HooksAreBound, At

\* The invariant, types and links, goes through every step.
LEMMA VarsInvParts == VarsInv <=> TypeOK /\ Links
  BY DEF VarsInv, Links

\* The history goes along with every step.
LEMMA Remembers == Next => Remember
  BY DEF Next, Work, Start, Fork, Kill, RdLock, Read, RdUnlock, Merge, Found, Set, WrLock,
     Overflow, Grow, Write, WrUnlock

LEMMA VarsInvStep == VarsInv /\ [Next]_vars => VarsInv'
<1> SUFFICES ASSUME VarsInv, [Next]_vars PROVE VarsInv'
  OBVIOUS
<1>1. TypeOK /\ Links
  BY VarsInvParts
<1>2. StateTyped'
  BY <1>1, TypeStep DEF Links
<1>3. Links'
  <2>1. CASE UNCHANGED vars
    BY <1>1, <2>1 DEF vars, shell, memory, locks, Links, DeadIsIdle, HasDatabase, LockHeld,
       LockExcludes, TornIsLocked, HooksAreBound, At
  <2>2. CASE Next
    <3>1. PICK p \in Procs :
            \/ Work(p) \/ Kill(p)
            \/ \E do \in Does : Start(p, do)
            \/ \E c \in Procs : Fork(p, c)
      BY <2>2 DEF Next
    <3>2. CASE Work(p)
      BY <1>1, <3>2, FoundLinks, LockLinks
    <3>3. CASE Kill(p)
      BY <1>1, <3>3, KillLinks
    <3>4. CASE \E do \in Does : Start(p, do)
      BY <1>1, <3>4, StartLinks
    <3>5. CASE \E c \in Procs : Fork(p, c)
      BY <1>1, <3>5, ForkLinks
    <3> QED
      BY <3>1, <3>2, <3>3, <3>4, <3>5
  <2> QED
    BY <2>1, <2>2
<1>4. PastTyped'
  <2>1. CASE UNCHANGED vars
    BY <1>1, <2>1, TypeParts DEF vars, PastTyped
  <2>2. CASE Next
    <3>1. ASSUME NEW p \in Procs, pc'[p] \in Looking PROVE stored'[bound'[p]] \in Contents
      <4>1. bound'[p] \in Dbs
        BY <1>3, <3>1 DEF Links, HasDatabase, Looking
      <4> QED
        BY <1>2, <4>1 DEF StateTyped, MemoryTyped
    <3>2. \A p \in Procs : past[p] \subseteq Contents
      BY <1>1, TypeParts DEF PastTyped
    <3>3. Remember
      BY <2>2, Remembers
    <3> QED
      BY <3>1, <3>2, <3>3 DEF Remember, PastTyped
  <2> QED
    BY <2>1, <2>2
<1>5. TypeOK'
  BY <1>2, <1>4, TypePartsNext
<1> QED
  BY <1>3, <1>5 DEF VarsInv, Links

\* In every reachable state of any number of shells and databases, who is at a place of
\* the code holds the lock taken there, on the database of its variable; readers and
\* writers exclude each other; and a database half written is locked by its writer, or
\* for ever (the guards of shm_array_getter and with_write).
THEOREM VarsInductive == Spec => []VarsInv
<1>1. Init => VarsInv
  BY InitLinks, TypeInit DEF VarsInv, Links
<1> QED
  BY <1>1, VarsInvStep, PTL DEF Spec

\* Nobody ever reads a database in the middle of a write, although a writer may be killed
\* there: the lock it held is never free again.
THEOREM ReadsWhole == Spec => []ReadWhole
<1>1. VarsInv => ReadWhole
  <2> SUFFICES ASSUME VarsInv, NEW p \in Procs, pc[p] = "reading"
               PROVE  ~torn[bound[p]]
    BY DEF ReadWhole, At
  <2>1. bound[p] \in Dbs /\ p \in readers[bound[p]]
    BY DEF VarsInv, HasDatabase, LockHeld
  <2>2. writer[bound[p]] = Nobody
    BY <2>1 DEF VarsInv, LockExcludes
  <2> QED
    BY <2>1, <2>2 DEF VarsInv, TornIsLocked
<1> QED
  BY <1>1, VarsInductive, PTL

\* A variable with the hooks always has a database in REGISTRY, through forks, unbinds,
\* removals and deaths (get_shm finds what it looks for).
THEOREM HooksStayBound == Spec => []HooksAreBound
<1>1. VarsInv => HooksAreBound
  BY DEF VarsInv
<1> QED
  BY <1>1, VarsInductive, PTL

\* Shells other than that of the step have the copy and the place they had.
LEMMA WorkOfOthers ==
  ASSUME TypeOK, NEW p \in Procs, Work(p), NEW q \in Procs \ {p}
  PROVE  pc'[q] = pc[q] /\ bound'[q] = bound[q] /\ copy'[q] = copy[q] /\ op'[q] = op[q]
<1>0. /\ pc \in [Procs -> Steps] /\ bound \in [Procs -> Dbs \cup {NoDb}]
      /\ copy \in [Procs -> Contents] /\ op \in [Procs -> Operations]
  BY TypeParts DEF ShellsTyped
<1>1. CASE Found(p)
  BY <1>0, <1>1 DEF Found, Put, Append, Reassign, Delete, Forget, Bind, BindFails, Sow, Sync, Unbind,
     Remove, JustRead, Assign, Done, Goto, Variable, shell
<1>2. CASE ~Found(p)
  BY <1>0, <1>2 DEF Work, RdLock, Read, RdUnlock, Merge, Set, WrLock, Overflow, Grow, Write, WrUnlock,
     Done, Goto, Variable, shell
<1> QED
  BY <1>1, <1>2

\* A database changes in a write under its lock, or is new.
LEMMA WhoStores ==
  ASSUME TypeOK, NEW p \in Procs, Work(p), NEW d \in Dbs
  PROVE  \/ stored'[d] = stored[d]
         \/ d \in Fresh
         \/ pc[p] = "growing" /\ bound[p] = d
<1>0. stored \in [Dbs -> Contents]
  BY DEF TypeOK
<1>1. CASE Found(p)
  <2>1. UNCHANGED <<memory, locks>> \/ \E e \in Fresh : stored' = [stored EXCEPT ![e] = Empty]
    BY <1>1 DEF Found, Put, Append, Reassign, Delete, Forget, Bind, BindFails, Sow, Sync, Unbind,
       Remove, JustRead
  <2> QED
    BY <1>0, <2>1 DEF memory
<1>2. CASE ~Found(p)
  BY <1>0, <1>2 DEF Work, RdLock, Read, RdUnlock, Merge, Set, WrLock, Overflow, Grow, Write, WrUnlock,
     At, memory
<1> QED
  BY <1>1, <1>2

\* What a getter has read, and what it could read now, are moments of the database since it began.
SeenIsPast ==
  \A p \in Procs :
    /\ pc[p] \in Looking => stored[bound[p]] \in past[p]
    /\ pc[p] \in {"gotten", "merging"} => op[p].got \in past[p]

LEMMA SeenStep == VarsInv /\ SeenIsPast /\ [Next]_vars => SeenIsPast'
<1> SUFFICES ASSUME VarsInv, SeenIsPast, [Next]_vars, NEW q \in Procs, pc'[q] \in Looking
             PROVE  /\ stored'[bound'[q]] \in past'[q]
                    /\ pc'[q] \in {"gotten", "merging"} => op'[q].got \in past'[q]
  BY DEF SeenIsPast, Looking
<1>0. /\ TypeOK
      /\ pc \in [Procs -> Steps] /\ op \in [Procs -> Operations]
  BY TypeParts DEF VarsInv, ShellsTyped
<1>1. CASE UNCHANGED vars
  BY <1>1 DEF vars, shell, memory, SeenIsPast, Looking
<1> SUFFICES ASSUME Next
             PROVE  /\ stored'[bound'[q]] \in past'[q]
                    /\ pc'[q] \in {"gotten", "merging"} => op'[q].got \in past'[q]
  BY <1>1
<1>2. /\ stored'[bound'[q]] \in past'[q]
      /\ pc[q] \in Looking => past[q] \subseteq past'[q]
  BY Remembers DEF Remember
<1> SUFFICES ASSUME pc'[q] \in {"gotten", "merging"} PROVE op'[q].got \in past'[q]
  BY <1>2
<1>3. ASSUME pc'[q] = pc[q], op'[q] = op[q] PROVE op'[q].got \in past'[q]
  BY <1>2, <1>3 DEF SeenIsPast, Looking
<1>4. ASSUME NEW p \in Procs, Work(p), q # p PROVE op'[q].got \in past'[q]
  BY <1>0, <1>3, <1>4, WorkOfOthers
<1>5. CASE Work(q)
  <2>1. CASE Read(q)
    <3>1. pc[q] = "reading" /\ op'[q].got = stored[bound[q]]
      BY <1>0, <2>1 DEF Read, At, Operations
    <3> QED
      BY <1>2, <3>1 DEF SeenIsPast, Looking
  <2>2. CASE RdUnlock(q)
    <3>1. pc[q] = "gotten" /\ op'[q] = op[q]
      BY <2>2 DEF RdUnlock, At
    <3> QED
      BY <1>2, <3>1 DEF SeenIsPast, Looking
  <2>3. ~Found(q)
    BY <1>0, FoundMoves DEF VarsInv, Moves
  <2> QED
    BY <1>0, <1>5, <2>1, <2>2, <2>3 DEF Work, RdLock, Merge, Set, WrLock, Overflow, Grow, Write,
       WrUnlock, Done, Goto
<1>6. ASSUME NEW p \in Procs, NEW do \in Does, Start(p, do) PROVE op'[q].got \in past'[q]
  <2>1. q # p
    BY <1>0, <1>6 DEF Start, FirstStep, Goto
  <2> QED
    BY <1>0, <1>3, <1>6, <2>1 DEF Start, Goto
<1>7. ASSUME NEW p \in Procs, NEW c \in Procs, Fork(p, c) PROVE op'[q].got \in past'[q]
  BY <1>3, <1>7 DEF Fork
<1>8. ASSUME NEW p \in Procs, Kill(p) PROVE op'[q].got \in past'[q]
  <2>1. q # p
    BY <1>0, <1>8 DEF Kill, Done, Goto
  <2> QED
    BY <1>0, <1>3, <1>8, <2>1 DEF Kill, Done, Goto
<1> QED
  BY <1>4, <1>5, <1>6, <1>7, <1>8 DEF Next

\* Who leaves a getter merges what it read into its variable.
LEMMA MergeLeaves ==
  ASSUME VarsInv, Next, NEW q \in Procs, pc[q] = "merging", pc'[q] = "found"
  PROVE  Merge(q)
<1>0. TypeOK /\ pc \in [Procs -> Steps]
  BY TypeParts DEF VarsInv, ShellsTyped
<1>1. ASSUME NEW p \in Procs, Work(p), q # p PROVE FALSE
  BY <1>0, <1>1, WorkOfOthers
<1>2. ASSUME NEW p \in Procs, NEW do \in Does, Start(p, do) PROVE FALSE
  BY <1>0, <1>2 DEF Start, MayStart, Goto, At
<1>3. ASSUME NEW p \in Procs, NEW c \in Procs, Fork(p, c) PROVE FALSE
  BY <1>3 DEF Fork
<1>4. ASSUME NEW p \in Procs, Kill(p) PROVE FALSE
  BY <1>0, <1>4 DEF Kill, Done, Goto
<1>5. Work(q)
  BY <1>1, <1>2, <1>3, <1>4 DEF Next
<1> QED
  BY <1>5 DEF Work, RdLock, Read, RdUnlock, Found, Set, WrLock, Overflow, Grow, Write, WrUnlock, At

\* What a getter leaves in the variable is what the database was at one moment while the getter
\* ran, although the lock is free again before the variable is changed (shm_array_getter).
THEOREM GetterSeesOneMoment == Spec => CopyIsOneMoment
<1>1. Init => SeenIsPast
  BY DEF Init, SeenIsPast, Looking
<1>2. Spec => [](VarsInv /\ SeenIsPast)
  BY <1>1, SeenStep, VarsInductive, PTL DEF Spec
<1>3. VarsInv /\ SeenIsPast /\ [Next]_vars =>
        [\A p \in Procs : At(p, "merging") /\ pc'[p] = "found" => copy'[p] \in past[p]]_vars
  <2> SUFFICES ASSUME VarsInv, SeenIsPast, Next, NEW p \in Procs, pc[p] = "merging", pc'[p] = "found"
               PROVE  copy'[p] \in past[p]
    BY DEF At
  <2>1. copy \in [Procs -> Contents] /\ op[p].got \in Contents
    BY TypeParts DEF VarsInv, ShellsTyped, Operations
  <2>2. copy'[p] = Refreshed(copy[p], op[p].got)
    BY <2>1, MergeLeaves DEF Merge
  <2>3. copy'[p] = op[p].got
    BY <2>1, <2>2, GetterCopies
  <2> QED
    BY <2>3 DEF SeenIsPast
<1> QED
  BY <1>2, <1>3, PTL DEF Spec, CopyIsOneMoment

------------------------------------------------------------------------------
(* Assignments. *)

\* A set of numbers that is not empty has a least one.
LEMMA LeastNumber ==
  ASSUME NEW S \in SUBSET Nat, S # {}
  PROVE  \E i \in S : \A j \in S : i <= j
<1> DEFINE F == {0..i : i \in S}
           R == StrictSubsetOrdering(Nat)
<1>1. PICK t \in F : \A u \in F : <<u, t>> \notin R
  <2>1. F \subseteq FiniteSubsetsOf(Nat)
    <3> SUFFICES ASSUME NEW i \in S PROVE 0..i \in FiniteSubsetsOf(Nat)
      OBVIOUS
    <3>1. IsFiniteSet(0..i)
      BY FS_Interval
    <3> QED
      BY <3>1 DEF FiniteSubsetsOf
  <2>2. F # {}
    OBVIOUS
  <2>3. IsWellFoundedOn(R, FiniteSubsetsOf(Nat))
    BY FS_StrictSubsetOrderingWellFounded
  <2> HIDE DEF F, R
  <2> QED
    BY <2>1, <2>2, <2>3, WFMin
<1>2. PICK i \in S : t = 0..i
  BY <1>1
<1>3. ASSUME NEW j \in S, j < i PROVE FALSE
  <2>1. 0..j \subseteq 0..i /\ 0..j # 0..i
    <3>1. i \in 0..i /\ i \notin 0..j
      BY <1>3
    <3> QED
      BY <1>3, <3>1
  <2>2. <<0..j, 0..i>> \in (SUBSET Nat) \X (SUBSET Nat)
    OBVIOUS
  <2>3. <<0..j, 0..i>> \in R
    BY <2>1, <2>2 DEF StrictSubsetOrdering
  <2> QED
    BY <1>1, <1>2, <2>3
<1> QED
  BY <1>3

\* Who is about to write has something to write: an element, or the whole array.
HasWork ==
  \A p \in Procs : pc[p] \in {"setting", "wrwait", "writing", "growing", "written"} =>
    /\ op[p].do \in Setters \cup Replaces
    /\ op[p].do \in Setters => op[p].todo # Empty

\* The element a setter is called for is one that is assigned.
LEMMA TargetAssigned ==
  ASSUME TypeOK, NEW p \in Procs, op[p].todo # Empty
  PROVE  Target(p) \in Idx /\ op[p].todo[Target(p)] # Unset
<1>1. op[p].todo \in Contents
  BY DEF TypeOK
<1>2. PICK i \in Idx : op[p].todo[i] # Unset
  BY <1>1 DEF Contents, Empty
<1>3. Elements(op[p].todo) \in SUBSET Nat /\ Elements(op[p].todo) # {}
  BY <1>2, VarsAssumption DEF Elements, Idx
<1>4. \E least \in Elements(op[p].todo) : \A j \in Elements(op[p].todo) : least <= j
  BY <1>3, LeastNumber
<1> QED
  BY <1>4 DEF Target, Elements

\* bash's part of an assignment ends it or leaves elements to assign.
LEMMA AssignWork ==
  ASSUME TypeOK, NEW p \in Procs, op[p].do \in Setters, NEW c, NEW base, Assign(p, c, base)
  PROVE  \/ pc'[p] = "idle"
         \/ op'[p].do \in Setters /\ op'[p].todo # Empty
<1>1. /\ pc \in [Procs -> Steps] /\ op \in [Procs -> Operations]
  BY TypeParts DEF ShellsTyped
<1>2. CASE kind[p] = "dynamic" /\ c # Empty
  <2>1. op' = [op EXCEPT ![p].todo = c]
    BY <1>2 DEF Assign
  <2>2. op'[p].do = op[p].do /\ op'[p].todo = c
    BY <1>1, <2>1 DEF Operations
  <2> QED
    BY <1>2, <2>2
<1>3. CASE ~(kind[p] = "dynamic" /\ c # Empty)
  BY <1>1, <1>3 DEF Assign, Done, Goto
<1> QED
  BY <1>2, <1>3

\* What a shell does by itself leaves it with something to write, if it is to write.
LEMMA OwnWork ==
  ASSUME TypeOK, HasWork, NEW p \in Procs, Work(p),
         pc'[p] \in {"setting", "wrwait", "writing", "growing", "written"}
  PROVE  op'[p].do \in Setters \cup Replaces /\ (op'[p].do \in Setters => op'[p].todo # Empty)
<1>0. /\ pc \in [Procs -> Steps] /\ op \in [Procs -> Operations]
  BY TypeParts DEF ShellsTyped
<1>1. CASE Found(p)
  <2>1. CASE Put(p) \/ Append(p) \/ Reassign(p)
    <3>1. CASE Append(p) /\ Length - 1 \in Elements(copy[p])
      BY <1>0, <3>1 DEF Append, Done, Goto
    <3>2. CASE ~(Append(p) /\ Length - 1 \in Elements(copy[p]))
      <4>1. op[p].do \in Setters /\ \E c, base : Assign(p, c, base)
        BY <2>1, <3>2 DEF Put, Append, Reassign, Setters
      <4> QED
        BY <4>1, AssignWork
    <3> QED
      BY <3>1, <3>2
  <2>2. CASE Delete(p) \/ Forget(p) \/ BindFails(p) \/ Unbind(p) \/ Remove(p) \/ JustRead(p)
    BY <1>0, <2>2 DEF Delete, Forget, BindFails, Unbind, Remove, JustRead, Done, Goto
  <2>3. CASE Sow(p)
    BY <2>3 DEF Sow, Replaces, Setters
  <2>4. CASE Sync(p)
    <3>1. op'[p].do = "sync"
      BY <1>0, <2>4 DEF Sync, Operations
    <3> QED
      BY <3>1 DEF Replaces, Setters
  <2>5. CASE Bind(p)
    <3>1. op[p].do = "seed" /\ op' = [op EXCEPT ![p].data = copy[p]]
      BY <1>0, <2>5 DEF Bind, Done, Goto
    <3>2. op'[p].do = "seed"
      BY <1>0, <3>1 DEF Operations
    <3> QED
      BY <3>2 DEF Replaces, Setters
  <2> QED
    BY <1>1, <2>1, <2>2, <2>3, <2>4, <2>5 DEF Found
<1>2. CASE Overflow(p)
  <2>1. op'[p].do = op[p].do /\ op'[p].todo = op[p].todo
    BY <1>0, <1>2 DEF Overflow, Operations
  <2> QED
    BY <1>2, <2>1 DEF Overflow, HasWork, At
<1>3. CASE WrUnlock(p)
  <2> DEFINE rest == IF op[p].do \in Setters THEN [op[p].todo EXCEPT ![Target(p)] = Unset] ELSE Empty
  <2>1. rest # Empty /\ op' = [op EXCEPT ![p].todo = rest]
    BY <1>0, <1>3 DEF WrUnlock, Done, Goto
  <2>2. op'[p].do = op[p].do /\ op'[p].todo = rest
    <3> HIDE DEF rest
    <3> QED
      BY <1>0, <2>1 DEF Operations
  <2> QED
    BY <2>1, <2>2
<1>4. CASE RdLock(p) \/ Read(p) \/ RdUnlock(p) \/ Merge(p)
  BY <1>0, <1>4 DEF RdLock, Read, RdUnlock, Merge, Goto
<1>5. CASE Set(p) \/ WrLock(p) \/ Grow(p) \/ Write(p)
  BY <1>5 DEF Set, WrLock, Grow, Write, HasWork, At
<1> QED
  BY <1>1, <1>2, <1>3, <1>4, <1>5 DEF Work

LEMMA WorkStep == VarsInv /\ HasWork /\ [Next]_vars => HasWork'
<1> SUFFICES ASSUME VarsInv, HasWork, [Next]_vars, NEW q \in Procs,
                    pc'[q] \in {"setting", "wrwait", "writing", "growing", "written"}
             PROVE  op'[q].do \in Setters \cup Replaces /\ (op'[q].do \in Setters => op'[q].todo # Empty)
  BY DEF HasWork
<1>0. /\ TypeOK
      /\ pc \in [Procs -> Steps] /\ op \in [Procs -> Operations]
  BY TypeParts DEF VarsInv, ShellsTyped
<1>1. CASE pc'[q] = pc[q] /\ op'[q] = op[q]
  BY <1>1 DEF HasWork
<1>2. CASE Work(q)
  BY <1>0, <1>2, OwnWork
<1>3. ASSUME NEW p \in Procs, Work(p), q # p
      PROVE  pc'[q] = pc[q] /\ op'[q] = op[q]
  BY <1>0, <1>3, WorkOfOthers
<1>4. ASSUME NEW p \in Procs, NEW do \in Does, Start(p, do)
      PROVE  op'[q].do \in Setters \cup Replaces /\ (op'[q].do \in Setters => op'[q].todo # Empty)
  <2>1. CASE q = p
    <3>1. do \in {"drop", "clear"}
      BY <1>0, <1>4, <2>1 DEF Start, FirstStep, Goto
    <3>2. op'[q].do = do
      BY <1>0, <1>4, <2>1 DEF Start, Idle
    <3> QED
      BY <3>1, <3>2 DEF Replaces, Setters
  <2>2. CASE q # p
    BY <1>0, <1>1, <1>4, <2>2 DEF Start, Goto
  <2> QED
    BY <2>1, <2>2
<1>5. ASSUME NEW p \in Procs, Kill(p)
      PROVE  pc'[q] = pc[q] /\ op'[q] = op[q]
  BY <1>0, <1>5 DEF Kill, Done, Goto
<1>6. ASSUME NEW p \in Procs, NEW c \in Procs, Fork(p, c)
      PROVE  pc'[q] = pc[q] /\ op'[q] = op[q]
  BY <1>6 DEF Fork
<1>7. CASE UNCHANGED vars
  BY <1>1, <1>7 DEF vars
<1> QED
  BY <1>1, <1>2, <1>3, <1>4, <1>5, <1>6, <1>7 DEF Next

\* An element of a database changes only when it is assigned, or in a command that replaces
\* the array, however old the copies are from which the shells assign.
THEOREM ElementsKept == Spec => AssignsOneElement
<1>1. Init => HasWork
  BY DEF Init, HasWork
<1>2. Spec => [](VarsInv /\ HasWork)
  BY <1>1, WorkStep, VarsInductive, PTL DEF Spec
<1>3. VarsInv /\ HasWork /\ [Next]_vars =>
        [\A d \in Dbs \ Fresh : \A i \in Idx :
           stored'[d][i] # stored[d][i] => \E p \in Procs : Assigns(p, d, i)]_vars
  <2> SUFFICES ASSUME VarsInv, HasWork, Next, NEW d \in Dbs \ Fresh, NEW i \in Idx,
                      stored'[d][i] # stored[d][i]
               PROVE  \E p \in Procs : Assigns(p, d, i)
    OBVIOUS
  <2>0. TypeOK /\ stored \in [Dbs -> Contents] /\ pc \in [Procs -> Steps]
    BY TypeParts DEF VarsInv, MemoryTyped, ShellsTyped
  <2>1. PICK p \in Procs : Work(p)
    BY DEF Next, Start, Kill, Fork, memory
  <2>2. At(p, "growing") /\ bound[p] = d
    BY <2>0, <2>1, WhoStores DEF At
  <2>3. Write(p)
    BY <2>1, <2>2 DEF Work, RdLock, Read, RdUnlock, Merge, Found, Set, WrLock, Overflow, Grow, WrUnlock, At
  <2>4. stored'[d] = Result(p)
    BY <2>0, <2>2, <2>3 DEF Write
  <2>5. CASE op[p].do \in Replaces
    BY <2>2, <2>5 DEF Assigns
  <2>6. CASE op[p].do \in Setters
    <3>1. Target(p) \in Idx /\ op[p].todo[Target(p)] # Unset
      BY <2>0, <2>2, <2>6, TargetAssigned DEF HasWork, At
    <3>2. stored'[d] = [stored[d] EXCEPT ![Target(p)] = op[p].todo[Target(p)]]
      BY <2>2, <2>4, <2>6 DEF Result, Setters
    <3>3. i = Target(p)
      BY <2>0, <3>1, <3>2 DEF Contents
    <3> QED
      BY <2>0, <2>2, <3>1, <3>2, <3>3 DEF Assigns, Contents
  <2> QED
    BY <2>2, <2>5, <2>6 DEF HasWork, At
<1> QED
  BY <1>2, <1>3, PTL DEF Spec, AssignsOneElement
=============================================================================
