-------------------------- MODULE Descriptors_proofs ---------------------------
(***************************************************************************)
(* Proofs about Descriptors, for any number of processes, descriptions and *)
(* descriptors: what a script was told of a descriptor holds, nothing is   *)
(* left open behind its back, and programs inherit no more than they       *)
(* should.  And about DescriptorIO, for any number of processes, calls,    *)
(* signals and kills and any room and amount: O_NONBLOCK comes back, calls *)
(* with -n do not wait, the others fail with EAGAIN only for a reason, and *)
(* what write and send tell is what went out.                              *)
(***************************************************************************)
EXTENDS Descriptors, DescriptorIO, FiniteSetTheorems, WellFoundedInduction, TLAPS

USE DescriptorsAssumption DEF DescriptorsAssumption

Tables == [Fds -> Entry]

\* What was told is what is there; FD_CLOEXEC too, where it was asked for and set.
Held(t, k) == t[k.fd].d = k.d /\ (k.c /\ ~k.high => t[k.fd].c)
Holding ==
  \A p \in alive \ programs : \A k \in told[p] : Held(tab[p], k) \/ TakenAway(p, k)

\* What a subcommand made is out of bash's range.
MadeHigh == \A p \in Procs : \A k \in told[p] : k.by = "made" => k.fd >= FdMin

DInv == /\ TypeOK /\ Holding /\ MadeHigh /\ OpenIsTold /\ ProgramsGetNoMore
        /\ programs \subseteq alive

------------------------------------------------------------------------------
(* Numbers. *)

\* A set of numbers that is not empty has a least one.
LEMMA LeastNumber ==
  ASSUME NEW S \in SUBSET Nat, S # {}
  PROVE  \E i \in S : \A j \in S : i <= j
<1> DEFINE F == {0..i : i \in S}
           R == StrictSubsetOrdering(Nat)
<1>1. PICK t \in F : \A u \in F : <<u, t>> \notin R
  <2>1. F \subseteq FiniteSubsetsOf(Nat)
    <3> SUFFICES ASSUME NEW i \in S PROVE 0..i \in FiniteSubsetsOf(Nat)
      OBVIOUS
    <3>1. IsFiniteSet(0..i)
      BY FS_Interval
    <3> QED
      BY <3>1 DEF FiniteSubsetsOf
  <2>2. F # {}
    OBVIOUS
  <2>3. IsWellFoundedOn(R, FiniteSubsetsOf(Nat))
    BY FS_StrictSubsetOrderingWellFounded
  <2> HIDE DEF F, R
  <2> QED
    BY <2>1, <2>2, <2>3, WFMin
<1>2. PICK i \in S : t = 0..i
  BY <1>1
<1>3. ASSUME NEW j \in S, j < i PROVE FALSE
  <2>1. 0..j \subseteq 0..i /\ 0..j # 0..i
    <3>1. i \in 0..i /\ i \notin 0..j
      BY <1>3
    <3> QED
      BY <1>3, <3>1
  <2>2. <<0..j, 0..i>> \in (SUBSET Nat) \X (SUBSET Nat)
    OBVIOUS
  <2>3. <<0..j, 0..i>> \in R
    BY <2>1, <2>2 DEF StrictSubsetOrdering
  <2> QED
    BY <1>1, <1>2, <2>3
<1> QED
  BY <1>3

\* The kernel's choice is free.
LEMMA LowestIsFree ==
  ASSUME NEW t \in Tables, NEW from \in Nat, LowestFree(t, from) # NoFd
  PROVE  /\ LowestFree(t, from) \in Fds /\ LowestFree(t, from) >= from
         /\ t[LowestFree(t, from)].d = NoDesc
<1> DEFINE free == {fd \in Fds : fd >= from /\ t[fd].d = NoDesc}
<1>1. free # {} /\ LowestFree(t, from) = CHOOSE fd \in free : \A other \in free : fd <= other
  BY DEF LowestFree
<1>2. free \in SUBSET Nat
  BY DEF Fds
<1>3. \E fd \in free : \A other \in free : fd <= other
  BY <1>1, <1>2, LeastNumber
<1>4. LowestFree(t, from) \in free
  BY <1>1, <1>3
<1> QED
  BY <1>4

\* A table with a number opened is a table, and so is one with a number closed.
LEMMA OpenedTable ==
  ASSUME NEW t \in Tables, NEW fd \in Fds, NEW d \in Descs \cup {Std, Null, Lib}, NEW c \in BOOLEAN
  PROVE  /\ Opened(t, fd, d, c) \in Tables /\ Opened(t, fd, d, c)[fd] = [d |-> d, c |-> c]
         /\ \A x \in Fds \ {fd} : Opened(t, fd, d, c)[x] = t[x]
<1>1. [d |-> d, c |-> c] \in Entry
  BY DEF Entry
<1> QED
  BY <1>1 DEF Opened, Tables

LEMMA ShutTable ==
  ASSUME NEW t \in Tables, NEW fd \in Fds
  PROVE  /\ Shut(t, fd) \in Tables /\ Shut(t, fd)[fd] = Closed
         /\ \A x \in Fds \ {fd} : Shut(t, fd)[x] = t[x]
<1>1. Closed \in Entry
  BY DEF Entry, Closed
<1> QED
  BY <1>1 DEF Shut, Tables

\* ensure_high_fd: it fails and closes, keeps a high number, or moves a low one.
LEMMA HighOrGone ==
  ASSUME NEW t \in Tables, NEW fd \in Fds, t[fd].d # NoDesc, NEW c \in BOOLEAN
  PROVE  LET e == EnsureHigh(t, fd, c)
         IN /\ e.tab \in Tables
            /\ \/ /\ e.fd = NoFd /\ fd < FdMin /\ e.tab[fd] = Closed
                  /\ \A x \in Fds \ {fd} : e.tab[x] = t[x]
               \/ e.fd = fd /\ fd >= FdMin /\ e.tab = t
               \/ /\ fd < FdMin /\ e.fd \in Fds /\ e.fd >= FdMin /\ t[e.fd].d = NoDesc
                  /\ e.tab[e.fd] = [d |-> t[fd].d, c |-> c] /\ e.tab[fd] = Closed
                  /\ \A x \in Fds \ {fd, e.fd} : e.tab[x] = t[x]
<1> DEFINE e == EnsureHigh(t, fd, c)
           new == LowestFree(t, FdMin)
<1>1. t[fd].d \in Descs \cup {Std, Null, Lib} /\ fd \in Int
  BY DEF Tables, Entry, Fds
<1>2. CASE fd >= FdMin
  <2>1. e = [tab |-> t, fd |-> fd]
    BY <1>2 DEF EnsureHigh
  <2> QED
    BY <1>2, <2>1
<1>3. CASE fd < FdMin /\ new = NoFd
  <2>1. e.tab = Shut(t, fd) /\ e.fd = NoFd
    BY <1>1, <1>3 DEF EnsureHigh
  <2> QED
    BY <1>1, <1>3, <2>1, ShutTable
<1>4. CASE fd < FdMin /\ new # NoFd
  <2>1. new \in Fds /\ new >= FdMin /\ t[new].d = NoDesc
    BY <1>4, LowestIsFree
  <2> HIDE DEF new
  <2> DEFINE o == Opened(t, new, t[fd].d, c)
  <2>2. e.tab = Shut(o, fd) /\ e.fd = new
    BY <1>1, <1>4 DEF EnsureHigh, new
  <2>3. /\ o \in Tables /\ o[new] = [d |-> t[fd].d, c |-> c]
        /\ \A x \in Fds \ {new} : o[x] = t[x]
    BY <1>1, <2>1, OpenedTable
  <2> HIDE DEF o
  <2>4. Shut(o, fd) \in Tables /\ Shut(o, fd)[fd] = Closed /\ \A x \in Fds \ {fd} : Shut(o, fd)[x] = o[x]
    BY <1>1, <2>3, ShutTable
  <2>5. new # fd
    BY <1>1, <1>4, <2>1 DEF Fds
  <2> QED
    BY <1>4, <2>1, <2>2, <2>3, <2>4, <2>5
<1> QED
  BY <1>1, <1>2, <1>3, <1>4

\* A description that was just made, at its number or made high.
LEMMA Raised ==
  ASSUME NEW t \in Tables, NEW born \in Fds, t[born].d = NoDesc, NEW d \in Descs,
         NEW b \in BOOLEAN, NEW c \in BOOLEAN
  PROVE  LET e == EnsureHigh(Opened(t, born, d, b), born, c)
         IN /\ e.tab \in Tables
            /\ \A x \in Fds : t[x].d # NoDesc => e.tab[x] = t[x]
            /\ \/ e.fd = NoFd /\ \A x \in Fds : e.tab[x].d # NoDesc => t[x].d # NoDesc
               \/ /\ e.fd \in Fds /\ e.fd >= FdMin /\ t[e.fd].d = NoDesc /\ e.tab[e.fd].d = d
                  /\ born < FdMin => e.tab[e.fd].c = c
                  /\ \A x \in Fds : e.tab[x].d # NoDesc => x = e.fd \/ t[x].d # NoDesc
<1> DEFINE o == Opened(t, born, d, b)
           e == EnsureHigh(o, born, c)
<1>1. o \in Tables /\ o[born] = [d |-> d, c |-> b] /\ \A x \in Fds \ {born} : o[x] = t[x]
  BY OpenedTable
<1>2. d # NoDesc /\ Closed.d = NoDesc
  BY DEF Closed
<1> HIDE DEF o
<1>3. /\ e.tab \in Tables
      /\ \/ /\ e.fd = NoFd /\ born < FdMin /\ e.tab[born] = Closed
            /\ \A x \in Fds \ {born} : e.tab[x] = o[x]
         \/ e.fd = born /\ born >= FdMin /\ e.tab = o
         \/ /\ born < FdMin /\ e.fd \in Fds /\ e.fd >= FdMin /\ o[e.fd].d = NoDesc
            /\ e.tab[e.fd] = [d |-> o[born].d, c |-> c] /\ e.tab[born] = Closed
            /\ \A x \in Fds \ {born, e.fd} : e.tab[x] = o[x]
  BY <1>1, <1>2, HighOrGone
<1> HIDE DEF e
<1>4. born \in Int /\ FdMin \in Int
  BY DEF Fds
<1>5. CASE e.fd = NoFd /\ e.tab[born] = Closed /\ \A x \in Fds \ {born} : e.tab[x] = o[x]
  BY <1>1, <1>2, <1>3, <1>5 DEF e, o
<1>6. CASE e.fd = born /\ born >= FdMin /\ e.tab = o
  BY <1>1, <1>2, <1>3, <1>4, <1>6 DEF e, o
<1>7. CASE /\ born < FdMin /\ e.fd \in Fds /\ e.fd >= FdMin /\ o[e.fd].d = NoDesc
           /\ e.tab[e.fd] = [d |-> o[born].d, c |-> c] /\ e.tab[born] = Closed
           /\ \A x \in Fds \ {born, e.fd} : e.tab[x] = o[x]
  <2>1. e.fd # born
    BY <1>4, <1>7
  <2>2. t[e.fd].d = NoDesc /\ e.tab[e.fd].d = d /\ e.tab[e.fd].c = c
    BY <1>1, <1>7, <2>1
  <2>3. \A x \in Fds : t[x].d # NoDesc => e.tab[x] = t[x]
    BY <1>1, <1>7, <2>2
  <2>4. \A x \in Fds : e.tab[x].d # NoDesc => x = e.fd \/ t[x].d # NoDesc
    BY <1>1, <1>2, <1>7
  <2> QED
    BY <1>3, <1>7, <2>2, <2>3, <2>4 DEF e, o
<1> QED
  BY <1>3, <1>5, <1>6, <1>7

------------------------------------------------------------------------------
(* Steps. *)

\* What one process has and was told, the others unchanged.
Changes(p, t, K, L) ==
  /\ tab' = [tab EXCEPT ![p] = t]
  /\ told' = [told EXCEPT ![p] = @ \cup K]
  /\ lost' = [lost EXCEPT ![p] = @ \cup L]
  /\ UNCHANGED <<alive, async, programs, dropped>>
  /\ loaded' \subseteq Procs /\ ops' \in Nat

\* The numbers that were open stay as they are, and new ones are told or lost.
Adds(p, t, K, L) ==
  /\ t \in Tables /\ K \in SUBSET Known /\ L \in SUBSET Fds
  /\ \A x \in Fds : tab[p][x].d # NoDesc => t[x] = tab[p][x]
  /\ \A x \in Fds : t[x].d # NoDesc => tab[p][x].d # NoDesc \/ x \in L \/ \E k \in K : k.fd = x
  /\ \A k \in K : Held(t, k) /\ (k.by = "made" => k.fd >= FdMin)

LEMMA AddsKeeps ==
  ASSUME DInv, NEW p \in alive \ programs, NEW t, NEW K, NEW L, Changes(p, t, K, L), Adds(p, t, K, L)
  PROVE  DInv'
<1>1. p \in Procs
  BY DEF DInv, TypeOK
<1>2. /\ tab'[p] = t /\ told'[p] = told[p] \cup K /\ lost'[p] = lost[p] \cup L
      /\ \A q \in Procs \ {p} : tab'[q] = tab[q] /\ told'[q] = told[q] /\ lost'[q] = lost[q]
  BY <1>1 DEF Changes, DInv, TypeOK
<1>3. TypeOK'
  <2>1. /\ tab' \in [Procs -> Tables] /\ told' \in [Procs -> SUBSET Known]
        /\ lost' \in [Procs -> SUBSET Fds]
    BY <1>1 DEF Changes, Adds, DInv, TypeOK, Tables
  <2> QED
    BY <2>1 DEF Changes, DInv, TypeOK, Tables
<1>4. UNCHANGED <<alive, async, programs, dropped>>
  BY DEF Changes
<1>5. Holding'
  <2> SUFFICES ASSUME NEW q \in alive \ programs, NEW k \in told'[q]
               PROVE  Held(tab'[q], k) \/ TakenAway(q, k)
    BY <1>4 DEF Holding, TakenAway
  <2>1. q \in Procs
    BY DEF DInv, TypeOK
  <2>2. CASE q # p
    BY <1>2, <2>1, <2>2 DEF DInv, Holding
  <2>3. CASE q = p /\ k \in K
    BY <1>2, <2>3 DEF Adds
  <2>4. CASE q = p /\ k \in told[p]
    <3>1. k \in Known
      BY <1>1, <2>4 DEF DInv, TypeOK
    <3>2. k.fd \in Fds /\ k.d # NoDesc
      BY <3>1 DEF Known
    <3>3. Held(tab[p], k) \/ TakenAway(p, k)
      BY <2>4 DEF DInv, Holding
    <3> QED
      BY <1>2, <2>4, <3>2, <3>3 DEF Adds, Held
  <2> QED
    BY <1>2, <2>2, <2>3, <2>4
<1>6. MadeHigh'
  BY <1>2 DEF DInv, MadeHigh, Adds
<1>7. OpenIsTold'
  <2> SUFFICES ASSUME NEW q \in alive \ programs, NEW fd \in Fds, IsOpen(tab'[q], fd)
               PROVE  \/ fd \in lost'[q]
                      \/ fd = 0 /\ q \in async
                      \/ \E k \in told'[q] : k.fd = fd
    BY <1>4 DEF OpenIsTold
  <2>1. q \in Procs
    BY DEF DInv, TypeOK
  <2>2. CASE q # p
    BY <1>2, <2>1, <2>2 DEF DInv, OpenIsTold
  <2>3. CASE q = p
    <3>1. t[fd].d # NoDesc
      BY <1>2, <2>3 DEF IsOpen
    <3>2. CASE tab[p][fd].d # NoDesc
      BY <1>2, <2>3, <3>2 DEF DInv, OpenIsTold, IsOpen
    <3>3. CASE fd \in L \/ \E k \in K : k.fd = fd
      BY <1>2, <2>3, <3>3
    <3> QED
      BY <3>1, <3>2, <3>3 DEF Adds
  <2> QED
    BY <2>2, <2>3
<1>8. ProgramsGetNoMore'
  <2> SUFFICES ASSUME NEW q \in programs, NEW k \in told'[q], k.c, ~k.high
               PROVE  tab'[q][k.fd].d # k.d \/ TakenAway(q, k)
    BY <1>4 DEF ProgramsGetNoMore, TakenAway
  <2>1. q \in Procs \ {p}
    BY DEF DInv, TypeOK
  <2> QED
    BY <1>2, <2>1 DEF DInv, ProgramsGetNoMore
<1> QED
  BY <1>3, <1>4, <1>5, <1>6, <1>7, <1>8 DEF DInv

\* The three ends of a call are changes of one process.
LEMMA Outcomes ==
  ASSUME DInv, NEW p \in Procs, Op(p), NEW t
  PROVE  /\ \A fd, d, by, c, high : Bound(p, t, fd, d, by, c, high) =>
              Changes(p, t, {[fd |-> fd, d |-> d, by |-> by, c |-> c, high |-> high]}, {})
         /\ \A fds : Leaked(p, t, fds) => Changes(p, t, {}, fds)
         /\ Failed(p, t) => Changes(p, t, {}, {})
<1>1. loaded' \subseteq Procs /\ ops' \in Nat /\ UNCHANGED <<alive, async, programs>>
  BY DEF Op, DInv, TypeOK
<1>2. told' = told => told' = [told EXCEPT ![p] = @ \cup {}]
  BY DEF DInv, TypeOK
<1>3. lost' = lost => lost' = [lost EXCEPT ![p] = @ \cup {}]
  BY DEF DInv, TypeOK
<1>4. ASSUME NEW fd, NEW d, NEW by, NEW c, NEW high, Bound(p, t, fd, d, by, c, high)
      PROVE  Changes(p, t, {[fd |-> fd, d |-> d, by |-> by, c |-> c, high |-> high]}, {})
  BY <1>1, <1>3, <1>4 DEF Bound, Table, Tell, Changes
<1>5. ASSUME NEW fds, Leaked(p, t, fds) PROVE Changes(p, t, {}, fds)
  BY <1>1, <1>2, <1>5 DEF Leaked, Table, Changes
<1>6. ASSUME Failed(p, t) PROVE Changes(p, t, {}, {})
  BY <1>1, <1>2, <1>3, <1>6 DEF Failed, Table, Changes
<1> QED
  BY <1>4, <1>5, <1>6

\* Subcommands that make one descriptor.
LEMMA MakeKeeps ==
  ASSUME DInv, NEW p \in Procs, NEW d \in Descs, NEW b \in BOOLEAN, NEW c \in BOOLEAN, NEW u,
         Make(p, d, b, c, u)
  PROVE  DInv'
<1> DEFINE born == LowestFree(tab[p], 0)
           e == EnsureHigh(Opened(tab[p], born, d, b), born, c)
           k == [fd |-> e.fd, d |-> d, by |-> "made", c |-> c, high |-> born >= FdMin]
<1>1. Op(p) /\ p \in alive \ programs /\ tab[p] \in Tables
  BY DEF Make, Op, DInv, TypeOK, Tables
<1>2. born \in Fds /\ tab[p][born].d = NoDesc
  <2>1. born # NoFd
    BY DEF Make
  <2> QED
    BY <1>1, <2>1, LowestIsFree
<1>3. \/ /\ e.fd = NoFd /\ Failed(p, e.tab)
      \/ /\ e.fd # NoFd
         /\ \/ Bound(p, e.tab, e.fd, d, "made", c, born >= FdMin)
            \/ Leaked(p, e.tab, {e.fd})
            \/ Failed(p, Shut(e.tab, e.fd))
  BY DEF Make
<1> HIDE DEF born
<1>4. /\ e.tab \in Tables
      /\ \A x \in Fds : tab[p][x].d # NoDesc => e.tab[x] = tab[p][x]
      /\ \/ e.fd = NoFd /\ \A x \in Fds : e.tab[x].d # NoDesc => tab[p][x].d # NoDesc
         \/ /\ e.fd \in Fds /\ e.fd >= FdMin /\ tab[p][e.fd].d = NoDesc /\ e.tab[e.fd].d = d
            /\ born < FdMin => e.tab[e.fd].c = c
            /\ \A x \in Fds : e.tab[x].d # NoDesc => x = e.fd \/ tab[p][x].d # NoDesc
  BY <1>1, <1>2, Raised
<1> HIDE DEF e
<1>5. NoFd \notin Fds
  BY DEF NoFd, Fds
<1>6. CASE e.fd = NoFd /\ Failed(p, e.tab)
  <2>1. Adds(p, e.tab, {}, {})
    BY <1>4, <1>5, <1>6 DEF Adds
  <2> QED
    BY <1>1, <1>6, <2>1, Outcomes, AddsKeeps
<1>7. CASE e.fd # NoFd /\ Bound(p, e.tab, e.fd, d, "made", c, born >= FdMin)
  <2>1. k \in Known /\ k.fd = e.fd /\ k.d = d /\ k.c = c /\ k.high = (born >= FdMin)
    BY <1>4, <1>7 DEF Known
  <2>2. Held(e.tab, k) /\ k.fd >= FdMin
    BY <1>2, <1>4, <1>7, <2>1 DEF Held, Fds
  <2> HIDE DEF k
  <2>3. Adds(p, e.tab, {k}, {})
    BY <1>4, <1>7, <2>1, <2>2 DEF Adds
  <2>4. Changes(p, e.tab, {k}, {})
    BY <1>1, <1>7, Outcomes DEF k
  <2> QED
    BY <1>1, <2>3, <2>4, AddsKeeps
<1>8. CASE e.fd # NoFd /\ Leaked(p, e.tab, {e.fd})
  <2>1. Adds(p, e.tab, {}, {e.fd})
    BY <1>4, <1>8 DEF Adds
  <2> QED
    BY <1>1, <1>8, <2>1, Outcomes, AddsKeeps
<1>9. CASE e.fd # NoFd /\ Failed(p, Shut(e.tab, e.fd))
  <2>1. /\ Shut(e.tab, e.fd) \in Tables /\ Shut(e.tab, e.fd)[e.fd].d = NoDesc
        /\ \A x \in Fds \ {e.fd} : Shut(e.tab, e.fd)[x] = e.tab[x]
    BY <1>4, <1>9, ShutTable DEF Closed
  <2>2. Adds(p, Shut(e.tab, e.fd), {}, {})
    BY <1>4, <1>9, <2>1 DEF Adds
  <2> QED
    BY <1>1, <1>9, <2>2, Outcomes, AddsKeeps
<1> QED
  BY <1>3, <1>6, <1>7, <1>8, <1>9

\* connect keeps the number of the kernel.
LEMMA ConnectKeeps ==
  ASSUME DInv, NEW p \in Procs, NEW d \in Descs, Connect(p, d)
  PROVE  DInv'
<1> DEFINE born == LowestFree(tab[p], 0)
           t == Opened(tab[p], born, d, TRUE)
           k == [fd |-> born, d |-> d, by |-> "connect", c |-> TRUE, high |-> FALSE]
<1>1. Op(p) /\ p \in alive \ programs /\ tab[p] \in Tables /\ born # NoFd
  BY DEF Connect, Op, DInv, TypeOK, Tables
<1>2. born \in Fds /\ tab[p][born].d = NoDesc
  BY <1>1, LowestIsFree
<1>3. \/ Bound(p, t, born, d, "connect", TRUE, FALSE)
      \/ Failed(p, tab[p])
  BY DEF Connect
<1> HIDE DEF born
<1>4. t \in Tables /\ t[born] = [d |-> d, c |-> TRUE] /\ \A x \in Fds \ {born} : t[x] = tab[p][x]
  <2>1. TRUE \in BOOLEAN /\ d \in Descs \cup {Std, Null, Lib}
    OBVIOUS
  <2> QED
    BY <1>1, <1>2, <2>1, OpenedTable
<1> HIDE DEF t
<1>5. CASE Bound(p, t, born, d, "connect", TRUE, FALSE)
  <2>1. k \in Known /\ Held(t, k) /\ k.fd = born /\ k.by # "made"
    BY <1>2, <1>4 DEF Known, Held
  <2> HIDE DEF k
  <2>2. Adds(p, t, {k}, {})
    BY <1>2, <1>4, <2>1 DEF Adds
  <2>3. Changes(p, t, {k}, {})
    BY <1>1, <1>5, Outcomes DEF k
  <2> QED
    BY <1>1, <2>2, <2>3, AddsKeeps
<1>6. CASE Failed(p, tab[p])
  <2>1. Adds(p, tab[p], {}, {})
    BY <1>1 DEF Adds
  <2> QED
    BY <1>1, <1>6, <2>1, Outcomes, AddsKeeps
<1> QED
  BY <1>3, <1>5, <1>6

\* fcntl dup refers to the same description.
LEMMA DupKeeps ==
  ASSUME DInv, NEW p \in Procs, NEW fd \in Fds, NEW start \in {0, FdMin}, NEW c \in BOOLEAN,
         Dup(p, fd, start, c)
  PROVE  DInv'
<1> DEFINE new == LowestFree(tab[p], start)
           d == tab[p][fd].d
           t == Opened(tab[p], new, d, c)
           k == [fd |-> new, d |-> d, by |-> "dup", c |-> c, high |-> FALSE]
<1>1. /\ Op(p) /\ p \in alive \ programs /\ tab[p] \in Tables /\ new # NoFd
      /\ d \in Descs \cup {Std, Lib}
  <2>1. tab[p][fd] \in Entry /\ d # NoDesc /\ d # Null
    BY DEF Dup, IsOpen, DInv, TypeOK
  <2> QED
    BY <2>1 DEF Dup, Op, DInv, TypeOK, Tables, Entry
<1>2. new \in Fds /\ tab[p][new].d = NoDesc
  BY <1>1, LowestIsFree
<1>3. \/ Bound(p, t, new, d, "dup", c, FALSE)
      \/ Leaked(p, t, {new})
  BY DEF Dup
<1> HIDE DEF new, d
<1>4. t \in Tables /\ t[new] = [d |-> d, c |-> c] /\ \A x \in Fds \ {new} : t[x] = tab[p][x]
  BY <1>1, <1>2, OpenedTable
<1> HIDE DEF t
<1>5. CASE Bound(p, t, new, d, "dup", c, FALSE)
  <2>1. k \in Known /\ Held(t, k) /\ k.fd = new /\ k.by # "made"
    BY <1>1, <1>2, <1>4 DEF Known, Held
  <2> HIDE DEF k
  <2>2. Adds(p, t, {k}, {})
    BY <1>2, <1>4, <2>1 DEF Adds
  <2>3. Changes(p, t, {k}, {})
    BY <1>1, <1>5, Outcomes DEF k
  <2> QED
    BY <1>1, <2>2, <2>3, AddsKeeps
<1>6. CASE Leaked(p, t, {new})
  <2>1. Adds(p, t, {}, {new})
    BY <1>2, <1>4 DEF Adds
  <2> QED
    BY <1>1, <1>6, <2>1, Outcomes, AddsKeeps
<1> QED
  BY <1>3, <1>5, <1>6

\* The memfd of the dispatcher is open, and the script does not know.
LEMMA LoadKeeps ==
  ASSUME DInv, NEW p \in Procs, Load(p)
  PROVE  DInv'
<1> DEFINE born == LowestFree(tab[p], 0)
           t == Opened(tab[p], born, Lib, TRUE)
<1>1. /\ p \in alive \ programs /\ tab[p] \in Tables /\ born # NoFd
      /\ loaded' \subseteq Procs /\ ops' \in Nat /\ UNCHANGED <<alive, async, programs>>
  BY DEF Load, DInv, TypeOK, Tables
<1>2. born \in Fds /\ tab[p][born].d = NoDesc
  BY <1>1, LowestIsFree
<1>3. Leaked(p, t, {born})
  BY DEF Load
<1> HIDE DEF born
<1>4. t \in Tables /\ t[born] = [d |-> Lib, c |-> TRUE] /\ \A x \in Fds \ {born} : t[x] = tab[p][x]
  <2>1. TRUE \in BOOLEAN /\ Lib \in Descs \cup {Std, Null, Lib}
    OBVIOUS
  <2> QED
    BY <1>1, <1>2, <2>1, OpenedTable
<1> HIDE DEF t
<1>5. Adds(p, t, {}, {born})
  BY <1>2, <1>4 DEF Adds
<1>6. told' = [told EXCEPT ![p] = @ \cup {}]
  BY <1>3 DEF Leaked, DInv, TypeOK
<1>7. Changes(p, t, {}, {born})
  BY <1>1, <1>3, <1>6 DEF Leaked, Table, Changes
<1> QED
  BY <1>1, <1>5, <1>7, AddsKeeps

------------------------------------------------------------------------------
(* Pipes. *)

\* Both ends, wherever they went: each is high or gone, what else was open stays.
LEMMA PipeEnds ==
  ASSUME NEW t \in Tables, NEW fd0 \in Fds, t[fd0].d = NoDesc, NEW fd1 \in Fds, fd1 # fd0,
         t[fd1].d = NoDesc, NEW r \in Descs, NEW w \in Descs, NEW c \in BOOLEAN
  PROVE  LET t2 == Opened(Opened(t, fd0, r, FALSE), fd1, w, FALSE)
             e0 == EnsureHigh(t2, fd0, c)
             e1 == EnsureHigh(e0.tab, fd1, c)
         IN /\ e0.tab \in Tables /\ e1.tab \in Tables
            /\ \A x \in Fds : t[x].d # NoDesc => e0.tab[x] = t[x] /\ e1.tab[x] = t[x]
            /\ \A x \in Fds : e0.tab[x].d # NoDesc => t[x].d # NoDesc \/ x \in {fd0, fd1, e0.fd}
            /\ \A x \in Fds : e1.tab[x].d # NoDesc => t[x].d # NoDesc \/ x \in {fd0, fd1, e0.fd, e1.fd}
            /\ e0.fd # NoFd =>
                 /\ e0.fd \in Fds /\ e0.fd >= FdMin /\ e0.fd # fd1 /\ t[e0.fd].d = NoDesc
                 /\ e0.fd # fd0 => e0.tab[fd0].d = NoDesc
                 /\ fd0 >= FdMin => e0.fd = fd0
            /\ e0.fd # NoFd /\ e1.fd # NoFd =>
                 /\ e1.fd \in Fds /\ e1.fd >= FdMin
                 /\ e1.tab[e0.fd].d = r /\ (fd0 < FdMin => e1.tab[e0.fd].c = c)
                 /\ e1.tab[e1.fd].d = w /\ (fd1 < FdMin => e1.tab[e1.fd].c = c)
                 /\ \A x \in Fds : e1.tab[x].d # NoDesc => t[x].d # NoDesc \/ x \in {e0.fd, e1.fd}
<1> DEFINE t1 == Opened(t, fd0, r, FALSE)
           t2 == Opened(t1, fd1, w, FALSE)
           e0 == EnsureHigh(t2, fd0, c)
           e1 == EnsureHigh(e0.tab, fd1, c)
<1>0. /\ fd0 \in Int /\ fd1 \in Int /\ FdMin \in Int /\ NoFd \notin Fds
      /\ r # NoDesc /\ w # NoDesc /\ Closed.d = NoDesc /\ \A x \in Fds : x \in Int
      /\ FALSE \in BOOLEAN
      /\ r \in Descs \cup {Std, Null, Lib} /\ w \in Descs \cup {Std, Null, Lib}
  BY DEF Fds, NoFd, Closed
<1>1. t1 \in Tables /\ t1[fd0] = [d |-> r, c |-> FALSE] /\ \A x \in Fds \ {fd0} : t1[x] = t[x]
  BY <1>0, OpenedTable
<1> HIDE DEF t1
<1>2. t2 \in Tables /\ t2[fd1] = [d |-> w, c |-> FALSE] /\ \A x \in Fds \ {fd1} : t2[x] = t1[x]
  BY <1>0, <1>1, OpenedTable
<1> HIDE DEF t2
<1>3. /\ t2[fd0] = [d |-> r, c |-> FALSE] /\ t2[fd1] = [d |-> w, c |-> FALSE]
      /\ \A x \in Fds \ {fd0, fd1} : t2[x] = t[x]
  BY <1>1, <1>2
<1>4. /\ e0.tab \in Tables
      /\ \/ /\ e0.fd = NoFd /\ fd0 < FdMin /\ e0.tab[fd0] = Closed
            /\ \A x \in Fds \ {fd0} : e0.tab[x] = t2[x]
         \/ e0.fd = fd0 /\ fd0 >= FdMin /\ e0.tab = t2
         \/ /\ fd0 < FdMin /\ e0.fd \in Fds /\ e0.fd >= FdMin /\ t2[e0.fd].d = NoDesc
            /\ e0.tab[e0.fd] = [d |-> t2[fd0].d, c |-> c] /\ e0.tab[fd0] = Closed
            /\ \A x \in Fds \ {fd0, e0.fd} : e0.tab[x] = t2[x]
  BY <1>0, <1>2, <1>3, HighOrGone
<1> HIDE DEF e0
<1>5. /\ e0.tab[fd1] = [d |-> w, c |-> FALSE]
      /\ \A x \in Fds : t[x].d # NoDesc => e0.tab[x] = t[x]
      /\ \A x \in Fds : e0.tab[x].d # NoDesc => t[x].d # NoDesc \/ x \in {fd0, fd1, e0.fd}
      /\ e0.fd # NoFd =>
           /\ e0.fd \in Fds /\ e0.fd >= FdMin /\ e0.fd # fd1 /\ t[e0.fd].d = NoDesc
           /\ e0.fd # fd0 => e0.tab[fd0].d = NoDesc
           /\ fd0 >= FdMin => e0.fd = fd0
           /\ e0.tab[e0.fd].d = r /\ (fd0 < FdMin => e0.tab[e0.fd].c = c)
           /\ \A x \in Fds : e0.tab[x].d # NoDesc => t[x].d # NoDesc \/ x \in {fd1, e0.fd}
  <2>1. CASE /\ e0.fd = NoFd /\ fd0 < FdMin /\ e0.tab[fd0] = Closed
             /\ \A x \in Fds \ {fd0} : e0.tab[x] = t2[x]
    BY <1>0, <1>3, <2>1
  <2>2. CASE e0.fd = fd0 /\ fd0 >= FdMin /\ e0.tab = t2
    BY <1>0, <1>3, <2>2
  <2>3. CASE /\ fd0 < FdMin /\ e0.fd \in Fds /\ e0.fd >= FdMin /\ t2[e0.fd].d = NoDesc
             /\ e0.tab[e0.fd] = [d |-> t2[fd0].d, c |-> c] /\ e0.tab[fd0] = Closed
             /\ \A x \in Fds \ {fd0, e0.fd} : e0.tab[x] = t2[x]
    <3>1. e0.fd # fd0 /\ e0.fd # fd1
      BY <1>0, <1>3, <2>3
    <3>2. e0.tab[e0.fd].d = r /\ e0.tab[e0.fd].c = c /\ t[e0.fd].d = NoDesc
      BY <1>3, <2>3, <3>1
    <3>3. \A x \in Fds : t[x].d # NoDesc => x # e0.fd /\ x # fd0 /\ e0.tab[x] = t[x]
      BY <1>3, <2>3, <3>2
    <3>4. \A x \in Fds : e0.tab[x].d # NoDesc => t[x].d # NoDesc \/ x \in {fd1, e0.fd}
      BY <1>0, <1>3, <2>3
    <3> QED
      BY <1>0, <1>3, <2>3, <3>1, <3>2, <3>3, <3>4
  <2> QED
    BY <1>4, <2>1, <2>2, <2>3
<1>6. /\ e1.tab \in Tables
      /\ \/ /\ e1.fd = NoFd /\ fd1 < FdMin /\ e1.tab[fd1] = Closed
            /\ \A x \in Fds \ {fd1} : e1.tab[x] = e0.tab[x]
         \/ e1.fd = fd1 /\ fd1 >= FdMin /\ e1.tab = e0.tab
         \/ /\ fd1 < FdMin /\ e1.fd \in Fds /\ e1.fd >= FdMin /\ e0.tab[e1.fd].d = NoDesc
            /\ e1.tab[e1.fd] = [d |-> e0.tab[fd1].d, c |-> c] /\ e1.tab[fd1] = Closed
            /\ \A x \in Fds \ {fd1, e1.fd} : e1.tab[x] = e0.tab[x]
  BY <1>0, <1>4, <1>5, HighOrGone
<1> HIDE DEF e1
<1>7. /\ \A x \in Fds : t[x].d # NoDesc => e1.tab[x] = t[x]
      /\ \A x \in Fds : e1.tab[x].d # NoDesc => t[x].d # NoDesc \/ x \in {fd0, fd1, e0.fd, e1.fd}
      /\ e0.fd # NoFd /\ e1.fd # NoFd =>
           /\ e1.fd \in Fds /\ e1.fd >= FdMin
           /\ e1.tab[e0.fd].d = r /\ (fd0 < FdMin => e1.tab[e0.fd].c = c)
           /\ e1.tab[e1.fd].d = w /\ (fd1 < FdMin => e1.tab[e1.fd].c = c)
           /\ \A x \in Fds : e1.tab[x].d # NoDesc => t[x].d # NoDesc \/ x \in {e0.fd, e1.fd}
  <2>1. CASE /\ e1.fd = NoFd /\ fd1 < FdMin /\ e1.tab[fd1] = Closed
             /\ \A x \in Fds \ {fd1} : e1.tab[x] = e0.tab[x]
    BY <1>0, <1>5, <2>1
  <2>2. CASE e1.fd = fd1 /\ fd1 >= FdMin /\ e1.tab = e0.tab
    BY <1>0, <1>5, <2>2
  <2>3. CASE /\ fd1 < FdMin /\ e1.fd \in Fds /\ e1.fd >= FdMin /\ e0.tab[e1.fd].d = NoDesc
             /\ e1.tab[e1.fd] = [d |-> e0.tab[fd1].d, c |-> c] /\ e1.tab[fd1] = Closed
             /\ \A x \in Fds \ {fd1, e1.fd} : e1.tab[x] = e0.tab[x]
    <3>1. e1.fd # fd1 /\ e1.tab[e1.fd].d = w /\ e1.tab[e1.fd].c = c
      BY <1>0, <1>5, <2>3
    <3>2. e0.fd # NoFd => e1.fd # e0.fd /\ e1.tab[e0.fd] = e0.tab[e0.fd]
      BY <1>0, <1>5, <2>3
    <3>3. \A x \in Fds : t[x].d # NoDesc => x # e1.fd /\ x # fd1 /\ e1.tab[x] = t[x]
      BY <1>5, <2>3
    <3> QED
      BY <1>0, <1>5, <2>3, <3>1, <3>2, <3>3
  <2> QED
    BY <1>6, <2>1, <2>2, <2>3
<1> QED
  BY <1>4, <1>5, <1>6, <1>7 DEF e0, e1, t2, t1

\* A pipe that is made: both ends told or lost, or closed by the guard but for a first
\* end that was moved.
LEMMA PipeMadeKeeps ==
  ASSUME DInv, NEW p \in alive \ programs, NEW r \in Descs, NEW w \in Descs, Pipe(p, r, w),
         LowestFree(tab[p], 0) # NoFd,
         LowestFree(Opened(tab[p], LowestFree(tab[p], 0), r, FALSE), 0) # NoFd
  PROVE  DInv'
<1> DEFINE t   == tab[p]
           fd0 == LowestFree(t, 0)
           t1  == Opened(t, fd0, r, FALSE)
           fd1 == LowestFree(t1, 0)
           t2  == Opened(t1, fd1, w, FALSE)
           e0  == EnsureHigh(t2, fd0, TRUE)
           e1  == EnsureHigh(e0.tab, fd1, TRUE)
           high(fd) == fd >= FdMin
           Unguarded(u) == [fd \in Fds |-> IF fd \in {fd0, fd1} THEN Closed ELSE u[fd]]
           k0 == [fd |-> e0.fd, d |-> r, by |-> "made", c |-> TRUE, high |-> high(fd0)]
           k1 == [fd |-> e1.fd, d |-> w, by |-> "made", c |-> TRUE, high |-> high(fd1)]
<1>1. /\ t \in Tables /\ p \in Procs /\ Op(p) /\ FALSE \in BOOLEAN /\ TRUE \in BOOLEAN
      /\ NoFd \notin Fds /\ r \in Descs \cup {Std, Null, Lib} /\ r # NoDesc
      /\ Closed \in Entry /\ Closed.d = NoDesc /\ \A x \in Fds : x \in Int
  BY DEF DInv, TypeOK, Tables, Pipe, NoFd, Fds, Closed, Entry
<1>2. fd0 \in Fds /\ t[fd0].d = NoDesc
  BY <1>1, LowestIsFree
<1>3. \/ /\ e0.fd = NoFd /\ Failed(p, Unguarded(e0.tab))
      \/ /\ e0.fd # NoFd /\ e1.fd = NoFd
         /\ IF high(fd0) THEN Failed(p, Unguarded(e1.tab))
            ELSE Leaked(p, Unguarded(e1.tab), {e0.fd})
      \/ /\ e0.fd # NoFd /\ e1.fd # NoFd
         /\ \/ /\ Table(p, e1.tab) /\ Tell(p, {k0, k1}) /\ UNCHANGED <<lost, dropped>>
            \/ Leaked(p, e1.tab, {e0.fd, e1.fd})
  BY DEF Pipe
<1>4. fd1 \in Fds /\ fd1 # fd0 /\ t[fd1].d = NoDesc
  <2> HIDE DEF fd0
  <2>1. t1 \in Tables /\ t1[fd0] = [d |-> r, c |-> FALSE] /\ \A x \in Fds \ {fd0} : t1[x] = t[x]
    BY <1>1, <1>2, OpenedTable
  <2>2. fd1 # NoFd
    BY DEF fd0
  <2> HIDE DEF t1
  <2>3. fd1 \in Fds /\ t1[fd1].d = NoDesc
    BY <2>1, <2>2, LowestIsFree
  <2> QED
    BY <1>1, <2>1, <2>3
<1> HIDE DEF fd0, fd1
<1>5. /\ e0.tab \in Tables /\ e1.tab \in Tables
      /\ \A x \in Fds : t[x].d # NoDesc => e0.tab[x] = t[x] /\ e1.tab[x] = t[x]
      /\ \A x \in Fds : e0.tab[x].d # NoDesc => t[x].d # NoDesc \/ x \in {fd0, fd1, e0.fd}
      /\ \A x \in Fds : e1.tab[x].d # NoDesc => t[x].d # NoDesc \/ x \in {fd0, fd1, e0.fd, e1.fd}
      /\ e0.fd # NoFd =>
           /\ e0.fd \in Fds /\ e0.fd >= FdMin /\ e0.fd # fd1 /\ t[e0.fd].d = NoDesc
           /\ e0.fd # fd0 => e0.tab[fd0].d = NoDesc
           /\ fd0 >= FdMin => e0.fd = fd0
      /\ e0.fd # NoFd /\ e1.fd # NoFd =>
           /\ e1.fd \in Fds /\ e1.fd >= FdMin
           /\ e1.tab[e0.fd].d = r /\ (fd0 < FdMin => e1.tab[e0.fd].c = TRUE)
           /\ e1.tab[e1.fd].d = w /\ (fd1 < FdMin => e1.tab[e1.fd].c = TRUE)
           /\ \A x \in Fds : e1.tab[x].d # NoDesc => t[x].d # NoDesc \/ x \in {e0.fd, e1.fd}
  <2>1. PICK c \in BOOLEAN : c = TRUE
    OBVIOUS
  <2> QED
    BY <1>1, <1>2, <1>4, <2>1, PipeEnds
<1> HIDE DEF e0, e1
<1>6. ASSUME NEW u \in Tables, \A x \in Fds : t[x].d # NoDesc => u[x] = t[x]
      PROVE  /\ Unguarded(u) \in Tables
             /\ \A x \in Fds : t[x].d # NoDesc => Unguarded(u)[x] = t[x]
             /\ \A x \in Fds : Unguarded(u)[x].d # NoDesc => x \notin {fd0, fd1} /\ u[x].d # NoDesc
  BY <1>1, <1>2, <1>4, <1>6 DEF Tables
<1>7. CASE e0.fd = NoFd /\ Failed(p, Unguarded(e0.tab))
  <2>1. Adds(p, Unguarded(e0.tab), {}, {})
    BY <1>1, <1>5, <1>6, <1>7 DEF Adds
  <2> QED
    BY <1>1, <1>7, <2>1, Outcomes, AddsKeeps
<1>8. CASE e0.fd # NoFd /\ e1.fd = NoFd /\ high(fd0) /\ Failed(p, Unguarded(e1.tab))
  <2>1. Adds(p, Unguarded(e1.tab), {}, {})
    BY <1>1, <1>5, <1>6, <1>8 DEF Adds
  <2> QED
    BY <1>1, <1>8, <2>1, Outcomes, AddsKeeps
<1>9. CASE e0.fd # NoFd /\ e1.fd = NoFd /\ Leaked(p, Unguarded(e1.tab), {e0.fd})
  <2>1. Adds(p, Unguarded(e1.tab), {}, {e0.fd})
    BY <1>1, <1>5, <1>6, <1>9 DEF Adds
  <2> QED
    BY <1>1, <1>9, <2>1, Outcomes, AddsKeeps
<1>10. CASE e0.fd # NoFd /\ e1.fd # NoFd /\ Leaked(p, e1.tab, {e0.fd, e1.fd})
  <2>1. Adds(p, e1.tab, {}, {e0.fd, e1.fd})
    BY <1>1, <1>5, <1>10 DEF Adds
  <2> QED
    BY <1>1, <1>10, <2>1, Outcomes, AddsKeeps
<1>11. CASE /\ e0.fd # NoFd /\ e1.fd # NoFd
            /\ Table(p, e1.tab) /\ Tell(p, {k0, k1}) /\ UNCHANGED <<lost, dropped>>
  <2>1. /\ k0 \in Known /\ k0.fd = e0.fd /\ k0.d = r /\ (~k0.high => fd0 < FdMin)
        /\ k1 \in Known /\ k1.fd = e1.fd /\ k1.d = w /\ (~k1.high => fd1 < FdMin)
    <3>1. high(fd0) \in BOOLEAN /\ high(fd1) \in BOOLEAN
      OBVIOUS
    <3>2. e0.fd \in Fds /\ e1.fd \in Fds /\ fd0 \in Int /\ fd1 \in Int
      BY <1>1, <1>2, <1>4, <1>5, <1>11
    <3>3. k0 \in Known /\ k1 \in Known
      BY <1>1, <3>1, <3>2 DEF Known
    <3>4. k0.fd = e0.fd /\ k0.d = r /\ k0.high = high(fd0) /\ k1.fd = e1.fd /\ k1.d = w /\ k1.high = high(fd1)
      OBVIOUS
    <3>5. (~high(fd0) => fd0 < FdMin) /\ (~high(fd1) => fd1 < FdMin)
      BY <3>2
    <3> HIDE DEF k0, k1, high
    <3> QED
      BY <3>3, <3>4, <3>5, Zenon
  <2>2. Held(e1.tab, k0) /\ k0.fd >= FdMin /\ Held(e1.tab, k1) /\ k1.fd >= FdMin
    BY <1>5, <1>11, <2>1 DEF Held
  <2> HIDE DEF k0, k1
  <2>3. Adds(p, e1.tab, {k0, k1}, {})
    BY <1>5, <1>11, <2>1, <2>2 DEF Adds
  <2>4. lost' = [lost EXCEPT ![p] = @ \cup {}]
    BY <1>11 DEF DInv, TypeOK
  <2>5. Changes(p, e1.tab, {k0, k1}, {})
    <3>1. loaded' \subseteq Procs /\ ops' \in Nat /\ UNCHANGED <<alive, async, programs>>
      BY <1>1 DEF Op, DInv, TypeOK
    <3> QED
      BY <1>11, <2>4, <3>1 DEF Changes, Table, Tell
  <2> QED
    BY <2>3, <2>5, AddsKeeps
<1> QED
  BY <1>3, <1>7, <1>8, <1>9, <1>10, <1>11

\* A pipe that fails closes 0, which is the script's own.
LEMMA PipeFailedKeeps ==
  ASSUME DInv, NEW p \in alive \ programs, Op(p),
         Table(p, Shut(tab[p], 0)), dropped' = dropped \cup {p}, UNCHANGED <<told, lost>>
  PROVE  DInv'
<1>1. p \in Procs /\ tab[p] \in Tables /\ 0 \in Fds /\ tab \in [Procs -> Tables]
  BY DEF DInv, TypeOK, Tables, Fds
<1>2. /\ Shut(tab[p], 0) \in Tables /\ Shut(tab[p], 0)[0].d = NoDesc
      /\ \A x \in Fds \ {0} : Shut(tab[p], 0)[x] = tab[p][x]
  BY <1>1, ShutTable DEF Closed
<1>3. /\ tab' \in [Procs -> Tables] /\ \A q \in Procs \ {p} : tab'[q] = tab[q]
      /\ tab'[p] = Shut(tab[p], 0)
  BY <1>1, <1>2 DEF Table
<1>4. UNCHANGED <<alive, async, programs, told, lost>> /\ loaded' \subseteq Procs /\ ops' \in Nat
  BY DEF Op, DInv, TypeOK
<1>5. TypeOK'
  BY <1>1, <1>3, <1>4 DEF DInv, TypeOK, Tables
<1>6. Holding'
  <2> SUFFICES ASSUME NEW q \in alive \ programs, NEW k \in told[q]
               PROVE  Held(tab'[q], k) \/ TakenAway(q, k)'
    BY <1>4 DEF Holding
  <2>1. q \in Procs /\ k \in Known /\ k.fd \in Fds
    BY DEF DInv, TypeOK, Known
  <2>2. Held(tab[q], k) \/ TakenAway(q, k)
    BY DEF DInv, Holding
  <2>3. CASE q # p \/ k.fd # 0
    BY <1>2, <1>3, <1>4, <2>1, <2>2, <2>3 DEF Held, TakenAway
  <2>4. CASE q = p /\ k.fd = 0
    BY <2>1, <2>4 DEF DInv, MadeHigh, TakenAway
  <2> QED
    BY <2>3, <2>4
<1>7. OpenIsTold'
  <2> SUFFICES ASSUME NEW q \in alive \ programs, NEW fd \in Fds, IsOpen(tab'[q], fd)
               PROVE  \/ fd \in lost[q]
                      \/ fd = 0 /\ q \in async
                      \/ \E k \in told[q] : k.fd = fd
    BY <1>4 DEF OpenIsTold
  <2>1. q \in Procs /\ IsOpen(tab[q], fd)
    BY <1>2, <1>3 DEF DInv, TypeOK, IsOpen
  <2> QED
    BY <2>1 DEF DInv, OpenIsTold
<1>8. ProgramsGetNoMore'
  BY <1>3, <1>4 DEF DInv, ProgramsGetNoMore, TakenAway, TypeOK
<1> QED
  BY <1>4, <1>5, <1>6, <1>7, <1>8 DEF DInv, MadeHigh

LEMMA PipeKeeps ==
  ASSUME DInv, NEW p \in Procs, NEW r \in Descs, NEW w \in Descs, Pipe(p, r, w)
  PROVE  DInv'
<1> DEFINE fd0 == LowestFree(tab[p], 0)
           fd1 == LowestFree(Opened(tab[p], fd0, r, FALSE), 0)
<1>1. p \in alive \ programs /\ Op(p)
  BY DEF Pipe, Op
<1>2. CASE fd0 = NoFd \/ fd1 = NoFd
  <2>1. Table(p, Shut(tab[p], 0)) /\ dropped' = dropped \cup {p} /\ UNCHANGED <<told, lost>>
    BY <1>2 DEF Pipe
  <2> QED
    BY <1>1, <2>1, PipeFailedKeeps
<1>3. CASE fd0 # NoFd /\ fd1 # NoFd
  BY <1>1, <1>3, PipeMadeKeeps
<1> QED
  BY <1>2, <1>3

------------------------------------------------------------------------------
(* Flags, closing, processes. *)

LEMMA SetfdKeeps ==
  ASSUME DInv, NEW p \in Procs, NEW fd \in Fds, NEW c \in BOOLEAN, Setfd(p, fd, c)
  PROVE  DInv'
<1> DEFINE Re(k) == [k EXCEPT !.c = IF k.fd = fd THEN c ELSE @,
                              !.high = IF k.fd = fd THEN FALSE ELSE @]
<1>1. p \in alive \ programs /\ tab[p] \in Tables /\ tab \in [Procs -> Tables]
  BY DEF Setfd, Op, DInv, TypeOK, Tables
<1>2. UNCHANGED <<alive, async, programs, lost, dropped>> /\ loaded' \subseteq Procs /\ ops' \in Nat
  <2>1. Op(p) /\ UNCHANGED <<lost, dropped>>
    BY DEF Setfd
  <2> QED
    BY <2>1 DEF Op, DInv, TypeOK
<1>3. told[p] \in SUBSET Known /\ told'[p] = {Re(k) : k \in told[p]}
      /\ \A q \in Procs \ {p} : told'[q] = told[q]
  BY DEF Setfd, DInv, TypeOK
<1>4. ASSUME NEW k \in Known
      PROVE  /\ Re(k) \in Known /\ Re(k).fd = k.fd /\ Re(k).d = k.d /\ Re(k).by = k.by
             /\ k.fd = fd => Re(k).c = c
             /\ k.fd # fd => Re(k).c = k.c /\ Re(k).high = k.high
  BY <1>4 DEF Known
<1> HIDE DEF Re
<1>5. /\ tab' \in [Procs -> Tables] /\ \A q \in Procs \ {p} : tab'[q] = tab[q]
      /\ \A x \in Fds : tab'[p][x].d = tab[p][x].d
      /\ \A x \in Fds \ {fd} : tab'[p][x] = tab[p][x]
      /\ tab'[p][fd].c = c
  <2>1. tab[p][fd] \in Entry
    BY <1>1 DEF Tables
  <2> DEFINE e == [tab[p][fd] EXCEPT !.c = c]
  <2>2. e \in Entry /\ e.d = tab[p][fd].d /\ e.c = c
    BY <2>1 DEF Entry
  <2>3. tab' = [tab EXCEPT ![p] = [tab[p] EXCEPT ![fd] = e]]
    BY DEF Setfd, Table
  <2> HIDE DEF e
  <2> QED
    BY <1>1, <2>2, <2>3 DEF Tables
<1>6. TypeOK'
  <2>1. told' \in [Procs -> SUBSET Known]
    <3>1. told'[p] \in SUBSET Known
      BY <1>3, <1>4
    <3> QED
      BY <3>1 DEF Setfd, DInv, TypeOK
  <2> QED
    BY <1>2, <1>5, <2>1 DEF DInv, TypeOK, Tables
<1>7. Holding'
  <2> SUFFICES ASSUME NEW q \in alive \ programs, NEW k \in told'[q]
               PROVE  Held(tab'[q], k) \/ TakenAway(q, k)
    BY <1>2 DEF Holding, TakenAway
  <2>1. q \in Procs
    BY DEF DInv, TypeOK
  <2>2. CASE q # p
    BY <1>3, <1>5, <2>1, <2>2 DEF DInv, Holding
  <2>3. CASE q = p
    <3>1. PICK old \in told[p] : k = Re(old)
      BY <1>3, <2>3
    <3>2. old \in Known /\ old.fd \in Fds /\ (Held(tab[p], old) \/ TakenAway(p, old))
      BY <1>1, <1>3, <3>1 DEF DInv, Holding, Known
    <3>3. CASE old.fd = fd
      BY <1>4, <1>5, <2>3, <3>1, <3>2, <3>3 DEF Held, TakenAway
    <3>4. CASE old.fd # fd
      BY <1>4, <1>5, <2>3, <3>1, <3>2, <3>4 DEF Held, TakenAway
    <3> QED
      BY <3>3, <3>4
  <2> QED
    BY <2>2, <2>3
<1>8. MadeHigh'
  <2> SUFFICES ASSUME NEW q \in Procs, NEW k \in told'[q], k.by = "made" PROVE k.fd >= FdMin
    BY DEF MadeHigh
  <2>1. CASE q # p
    BY <1>3, <2>1 DEF DInv, MadeHigh
  <2>2. CASE q = p
    <3>1. PICK old \in told[p] : k = Re(old)
      BY <1>3, <2>2
    <3> QED
      BY <1>3, <1>4, <3>1 DEF DInv, MadeHigh
  <2> QED
    BY <2>1, <2>2
<1>9. OpenIsTold'
  <2> SUFFICES ASSUME NEW q \in alive \ programs, NEW x \in Fds, IsOpen(tab'[q], x)
               PROVE  \/ x \in lost[q]
                      \/ x = 0 /\ q \in async
                      \/ \E k \in told'[q] : k.fd = x
    BY <1>2 DEF OpenIsTold
  <2>1. q \in Procs /\ IsOpen(tab[q], x)
    BY <1>5 DEF DInv, TypeOK, IsOpen
  <2>2. \/ x \in lost[q]
        \/ x = 0 /\ q \in async
        \/ \E k \in told[q] : k.fd = x
    BY <2>1 DEF DInv, OpenIsTold
  <2>3. ASSUME NEW k \in told[q], k.fd = x PROVE \E k2 \in told'[q] : k2.fd = x
    <3>1. CASE q # p
      BY <1>3, <2>1, <2>3, <3>1
    <3>2. CASE q = p
      BY <1>3, <1>4, <2>3, <3>2
    <3> QED
      BY <3>1, <3>2
  <2> QED
    BY <2>2, <2>3
<1>10. ProgramsGetNoMore'
  <2> SUFFICES ASSUME NEW q \in programs, NEW k \in told'[q], k.c, ~k.high
               PROVE  tab'[q][k.fd].d # k.d \/ TakenAway(q, k)
    BY <1>2 DEF ProgramsGetNoMore, TakenAway
  <2>1. q \in Procs \ {p}
    BY <1>1 DEF DInv, TypeOK
  <2> QED
    BY <1>3, <1>5, <2>1 DEF DInv, ProgramsGetNoMore
<1> QED
  BY <1>2, <1>6, <1>7, <1>8, <1>9, <1>10 DEF DInv

LEMMA CloseAllKeeps ==
  ASSUME DInv, NEW p \in Procs, NEW first \in Fds, NEW second \in Fds, CloseAll(p, first, second)
  PROVE  DInv'
<1>1. p \in alive \ programs /\ tab[p] \in Tables /\ tab \in [Procs -> Tables]
      /\ Closed \in Entry /\ Closed.d = NoDesc
  BY DEF CloseAll, Op, DInv, TypeOK, Tables, Closed, Entry
<1>2. UNCHANGED <<alive, async, programs, dropped>> /\ loaded' \subseteq Procs /\ ops' \in Nat
  BY DEF CloseAll, Op, DInv, TypeOK
<1>3. PICK gone \in SUBSET Fds :
        /\ Table(p, [fd \in Fds |-> IF fd \in gone THEN Closed ELSE tab[p][fd]])
        /\ told' = [told EXCEPT ![p] = {k \in @ : k.fd \notin gone}]
        /\ lost' = [lost EXCEPT ![p] = @ \ gone]
  <2> DEFINE gone == {first} \cup (IF (IsOpen(tab[p], first) /\ second # first) /\ IsOpen(tab[p], second)
                                   THEN {second} ELSE {})
  <2>1. gone \in SUBSET Fds
    OBVIOUS
  <2> QED
    BY <2>1 DEF CloseAll
<1>4. /\ tab' \in [Procs -> Tables] /\ \A q \in Procs \ {p} : tab'[q] = tab[q]
      /\ \A x \in gone : tab'[p][x].d = NoDesc
      /\ \A x \in Fds \ gone : tab'[p][x] = tab[p][x]
  BY <1>1, <1>3 DEF Table, Tables
<1>5. /\ told'[p] = {k \in told[p] : k.fd \notin gone} /\ lost'[p] = lost[p] \ gone
      /\ \A q \in Procs \ {p} : told'[q] = told[q] /\ lost'[q] = lost[q]
      /\ told' \in [Procs -> SUBSET Known] /\ lost' \in [Procs -> SUBSET Fds]
  BY <1>3 DEF DInv, TypeOK
<1>6. TypeOK'
  BY <1>2, <1>4, <1>5 DEF DInv, TypeOK, Tables
<1>7. Holding'
  <2> SUFFICES ASSUME NEW q \in alive \ programs, NEW k \in told'[q]
               PROVE  Held(tab'[q], k) \/ TakenAway(q, k)
    BY <1>2 DEF Holding, TakenAway
  <2>1. q \in Procs /\ k \in told[q] /\ k.fd \in Fds /\ (q = p => k.fd \notin gone)
    BY <1>5 DEF DInv, TypeOK, Known
  <2> QED
    BY <1>4, <2>1 DEF DInv, Holding, Held
<1>8. MadeHigh'
  <2> SUFFICES ASSUME NEW q \in Procs, NEW k \in told'[q], k.by = "made" PROVE k.fd >= FdMin
    BY DEF MadeHigh
  <2>1. k \in told[q]
    BY <1>5
  <2> QED
    BY <2>1 DEF DInv, MadeHigh
<1>9. OpenIsTold'
  <2> SUFFICES ASSUME NEW q \in alive \ programs, NEW x \in Fds, IsOpen(tab'[q], x)
               PROVE  \/ x \in lost'[q]
                      \/ x = 0 /\ q \in async
                      \/ \E k \in told'[q] : k.fd = x
    BY <1>2 DEF OpenIsTold
  <2>1. q \in Procs /\ IsOpen(tab[q], x) /\ (q = p => x \notin gone)
    BY <1>4 DEF DInv, TypeOK, IsOpen
  <2> QED
    BY <1>5, <2>1 DEF DInv, OpenIsTold
<1>10. ProgramsGetNoMore'
  <2> SUFFICES ASSUME NEW q \in programs, NEW k \in told'[q], k.c, ~k.high
               PROVE  tab'[q][k.fd].d # k.d \/ TakenAway(q, k)
    BY <1>2 DEF ProgramsGetNoMore, TakenAway
  <2>1. q \in Procs \ {p}
    BY <1>1 DEF DInv, TypeOK
  <2> QED
    BY <1>4, <1>5, <2>1 DEF DInv, ProgramsGetNoMore
<1> QED
  BY <1>2, <1>6, <1>7, <1>8, <1>9, <1>10 DEF DInv

\* A child knows what its parent knew; an asynchronous one has lost 0, which is never a
\* made descriptor.
LEMMA ForkKeeps ==
  ASSUME DInv, NEW p \in Procs, NEW q \in Procs, NEW bg \in BOOLEAN, Fork(p, q, bg)
  PROVE  DInv'
<1> DEFINE t == IF bg THEN Opened(tab[p], 0, Null, FALSE) ELSE tab[p]
<1>1. /\ p \in alive \ programs /\ q \notin alive /\ q # p /\ q \notin programs
      /\ tab[p] \in Tables /\ tab \in [Procs -> Tables] /\ 0 \in Fds
  BY DEF Fork, DInv, TypeOK, Tables, Fds
<1>2. /\ t \in Tables /\ \A x \in Fds \ {0} : t[x] = tab[p][x]
      /\ ~bg => t = tab[p]
  <2>1. FALSE \in BOOLEAN /\ Null \in Descs \cup {Std, Null, Lib}
    OBVIOUS
  <2>2. CASE bg
    <3> DEFINE o == Opened(tab[p], 0, Null, FALSE)
    <3>1. o \in Tables /\ \A x \in Fds \ {0} : o[x] = tab[p][x]
      BY <1>1, <2>1, OpenedTable
    <3> HIDE DEF o
    <3>2. t = o
      BY <2>2, Zenon DEF o
    <3> HIDE DEF t
    <3> QED
      BY <2>2, <3>1, <3>2
  <2>3. CASE ~bg
    BY <1>1, <2>3
  <2> QED
    BY <2>2, <2>3
<1>3. /\ tab' = [tab EXCEPT ![q] = t] /\ told' = [told EXCEPT ![q] = told[p]]
      /\ lost' = [lost EXCEPT ![q] = lost[p]] /\ alive' = alive \cup {q} /\ programs' = programs
      /\ async \subseteq async' /\ dropped \subseteq dropped'
      /\ async' \subseteq Procs /\ dropped' \subseteq Procs
      /\ bg => q \in async'
      /\ p \in async => q \in async'
      /\ p \in dropped => q \in dropped'
      /\ loaded' \subseteq Procs /\ ops' \in Nat
  BY DEF Fork, DInv, TypeOK
<1> HIDE DEF t
<1>4. /\ tab' \in [Procs -> Tables] /\ told' \in [Procs -> SUBSET Known]
      /\ lost' \in [Procs -> SUBSET Fds]
      /\ tab'[q] = t /\ told'[q] = told[p] /\ lost'[q] = lost[p]
      /\ \A o \in Procs \ {q} : tab'[o] = tab[o] /\ told'[o] = told[o] /\ lost'[o] = lost[o]
  BY <1>1, <1>2, <1>3 DEF DInv, TypeOK
<1>5. TypeOK'
  BY <1>3, <1>4 DEF DInv, TypeOK, Tables
<1>6. Holding'
  <2> SUFFICES ASSUME NEW o \in alive' \ programs, NEW k \in told'[o]
               PROVE  Held(tab'[o], k) \/ TakenAway(o, k)'
    BY <1>3 DEF Holding
  <2>1. CASE o # q
    BY <1>3, <1>4, <2>1 DEF DInv, TypeOK, Holding, TakenAway
  <2>2. CASE o = q
    <3>1. k \in told[p] /\ k \in Known /\ k.fd \in Fds
      BY <1>4, <2>2 DEF DInv, TypeOK, Known
    <3>2. Held(tab[p], k) \/ TakenAway(p, k)
      BY <1>1, <3>1 DEF DInv, Holding
    <3>3. CASE TakenAway(p, k)
      BY <1>3, <2>2, <3>3 DEF TakenAway
    <3>4. CASE Held(tab[p], k) /\ (k.fd # 0 \/ ~bg)
      BY <1>2, <1>4, <2>2, <3>1, <3>4 DEF Held
    <3>5. CASE k.fd = 0 /\ bg
      BY <1>3, <2>2, <3>1, <3>5 DEF TakenAway, DInv, MadeHigh
    <3> QED
      BY <3>2, <3>3, <3>4, <3>5
  <2> QED
    BY <2>1, <2>2
<1>7. MadeHigh'
  BY <1>4 DEF DInv, MadeHigh
<1>8. OpenIsTold'
  <2> SUFFICES ASSUME NEW o \in alive' \ programs, NEW x \in Fds, IsOpen(tab'[o], x)
               PROVE  \/ x \in lost'[o]
                      \/ x = 0 /\ o \in async'
                      \/ \E k \in told'[o] : k.fd = x
    BY <1>3 DEF OpenIsTold
  <2>1. CASE o # q
    BY <1>3, <1>4, <2>1 DEF DInv, TypeOK, OpenIsTold
  <2>2. CASE o = q /\ x = 0 /\ bg
    BY <1>3, <2>2
  <2>3. CASE o = q /\ (x # 0 \/ ~bg)
    <3>1. IsOpen(tab[p], x)
      BY <1>2, <1>4, <2>3 DEF IsOpen
    <3> QED
      BY <1>1, <1>3, <1>4, <2>3, <3>1 DEF DInv, OpenIsTold
  <2> QED
    BY <2>1, <2>2, <2>3
<1>9. ProgramsGetNoMore'
  <2> SUFFICES ASSUME NEW o \in programs, NEW k \in told'[o], k.c, ~k.high
               PROVE  tab'[o][k.fd].d # k.d \/ TakenAway(o, k)'
    BY <1>3 DEF ProgramsGetNoMore
  <2>1. o \in Procs \ {q}
    BY <1>1 DEF DInv, TypeOK
  <2> QED
    BY <1>3, <1>4, <2>1 DEF DInv, ProgramsGetNoMore, TakenAway
<1> QED
  BY <1>3, <1>5, <1>6, <1>7, <1>8, <1>9 DEF DInv

\* The kernel closes what is marked, and what was asked to be marked is.
LEMMA ExecKeeps ==
  ASSUME DInv, NEW p \in Procs, Exec(p)
  PROVE  DInv'
<1>1. /\ p \in alive \ programs /\ tab \in [Procs -> Tables] /\ tab[p] \in Tables
      /\ Closed \in Entry /\ Closed.d = NoDesc
  BY DEF Exec, DInv, TypeOK, Tables, Closed, Entry
<1>2. UNCHANGED <<told, lost, alive, async, loaded, dropped, ops>> /\ programs' = programs \cup {p}
  BY DEF Exec
<1>3. /\ tab' \in [Procs -> Tables] /\ \A q \in Procs \ {p} : tab'[q] = tab[q]
      /\ \A x \in Fds : tab[p][x].c => tab'[p][x] = Closed
  BY <1>1 DEF Exec, Table, Tables
<1>4. TypeOK'
  BY <1>1, <1>2, <1>3 DEF DInv, TypeOK, Tables
<1>5. Holding' /\ OpenIsTold'
  <2>1. \A q \in alive \ programs' : q \in alive \ programs /\ q \in Procs /\ tab'[q] = tab[q]
    BY <1>2, <1>3 DEF DInv, TypeOK
  <2> QED
    BY <1>2, <2>1 DEF DInv, Holding, OpenIsTold, TakenAway
<1>6. ProgramsGetNoMore'
  <2> SUFFICES ASSUME NEW q \in programs', NEW k \in told[q], k.c, ~k.high
               PROVE  tab'[q][k.fd].d # k.d \/ TakenAway(q, k)
    BY <1>2 DEF ProgramsGetNoMore, TakenAway
  <2>1. CASE q # p
    BY <1>2, <1>3, <2>1 DEF DInv, TypeOK, ProgramsGetNoMore
  <2>2. CASE q = p
    <3>1. k \in Known /\ k.fd \in Fds /\ k.d # NoDesc
      BY <1>1, <2>2 DEF DInv, TypeOK, Known
    <3>2. Held(tab[p], k) \/ TakenAway(p, k)
      BY <1>1, <2>2 DEF DInv, Holding
    <3> QED
      BY <1>1, <1>3, <2>2, <3>1, <3>2 DEF Held
  <2> QED
    BY <2>1, <2>2
<1> QED
  BY <1>1, <1>2, <1>4, <1>5, <1>6 DEF DInv, MadeHigh

------------------------------------------------------------------------------
(* The invariant. *)

LEMMA DInit ==
  ASSUME Init
  PROVE  DInv
<1>1. Closed \in Entry /\ Closed.d = NoDesc /\ [d |-> Std, c |-> FALSE] \in Entry
  BY DEF Closed, Entry
<1>2. 0..2 \subseteq Fds
  BY DEF Fds
<1> DEFINE Own == {[fd |-> fd, d |-> Std, by |-> "std", c |-> FALSE, high |-> FALSE] : fd \in 0..2}
<1>3. Own \in SUBSET Known
  <2> SUFFICES ASSUME NEW fd \in 0..2
               PROVE  [fd |-> fd, d |-> Std, by |-> "std", c |-> FALSE, high |-> FALSE] \in Known
    OBVIOUS
  <2>1. fd \in Fds /\ FALSE \in BOOLEAN
    BY <1>2
  <2> QED
    BY <2>1 DEF Known
<1>4. /\ tab \in [Procs -> Tables] /\ \A p \in Procs \ {Shell} : told[p] = {}
      /\ told[Shell] = Own /\ told \in [Procs -> SUBSET Known]
      /\ \A x \in Fds : tab[Shell][x] = IF x <= 2 THEN [d |-> Std, c |-> FALSE] ELSE Closed
  BY <1>1, <1>3 DEF Init, Tables
<1>5. TypeOK
  BY <1>4 DEF Init, TypeOK, Tables
<1>6. Holding
  BY <1>2, <1>4 DEF Init, Holding, Held
<1>7. MadeHigh
  BY <1>4 DEF MadeHigh
<1>8. OpenIsTold
  <2> SUFFICES ASSUME NEW fd \in Fds, IsOpen(tab[Shell], fd) PROVE \E k \in Own : k.fd = fd
    BY <1>4 DEF Init, OpenIsTold
  <2>1. fd \in 0..2
    BY <1>1, <1>4 DEF IsOpen, Fds
  <2>2. [fd |-> fd, d |-> Std, by |-> "std", c |-> FALSE, high |-> FALSE] \in Own
    BY <2>1
  <2> QED
    BY <2>2
<1> QED
  BY <1>5, <1>6, <1>7, <1>8 DEF Init, DInv, ProgramsGetNoMore

LEMMA DStep ==
  ASSUME DInv, [Next]_vars
  PROVE  DInv'
<1>1. CASE UNCHANGED vars
  BY <1>1 DEF vars, DInv, TypeOK, Holding, MadeHigh, OpenIsTold, ProgramsGetNoMore, TakenAway
<1>2. ASSUME NEW p \in Procs, NEW d \in Descs, NEW C \in BOOLEAN,
             \/ EventfdCreate(p, d, C) \/ Memfd(p, d, C) \/ EpollCreate(p, d, C)
             \/ Accept(p, d, C) \/ Signalfd(p, d, C) \/ Listen(p, d, C)
      PROVE  DInv'
  <2>1. PICK b \in BOOLEAN, c \in BOOLEAN, u \in {"leaks", "closes", "closes raw"} : Make(p, d, b, c, u)
    BY <1>2 DEF EventfdCreate, Memfd, EpollCreate, Accept, Signalfd, Listen
  <2> QED
    BY <2>1, MakeKeeps
<1>3. ASSUME NEW p \in Procs, NEW d \in Descs, TimerfdCreate(p, d) \/ Connect(p, d)
      PROVE  DInv'
  <2>1. CASE TimerfdCreate(p, d)
    <3>1. PICK b \in BOOLEAN, c \in BOOLEAN, u \in {"leaks", "closes"} : Make(p, d, b, c, u)
      BY <2>1 DEF TimerfdCreate
    <3> QED
      BY <3>1, MakeKeeps
  <2>2. CASE Connect(p, d)
    BY <2>2, ConnectKeeps
  <2> QED
    BY <1>3, <2>1, <2>2
<1>4. ASSUME NEW p \in Procs, NEW r \in Descs, NEW w \in Descs, Pipe(p, r, w) PROVE DInv'
  BY <1>4, PipeKeeps
<1>5. ASSUME NEW p \in Procs, NEW fd \in Fds, NEW other \in Fds, CloseAll(p, fd, other) PROVE DInv'
  BY <1>5, CloseAllKeeps
<1>6. ASSUME NEW p \in Procs, NEW fd \in Fds, NEW c \in BOOLEAN, Setfd(p, fd, c) PROVE DInv'
  BY <1>6, SetfdKeeps
<1>7. ASSUME NEW p \in Procs, NEW fd \in Fds, NEW c \in BOOLEAN, NEW start \in {0, FdMin},
             Dup(p, fd, start, c)
      PROVE  DInv'
  BY <1>7, DupKeeps
<1>8. ASSUME NEW p \in Procs, NEW q \in Procs, NEW bg \in BOOLEAN, Fork(p, q, bg) PROVE DInv'
  BY <1>8, ForkKeeps
<1>9. ASSUME NEW p \in Procs, Load(p) \/ Exec(p) PROVE DInv'
  BY <1>9, LoadKeeps, ExecKeeps
<1> QED
  BY <1>1, <1>2, <1>3, <1>4, <1>5, <1>6, <1>7, <1>8, <1>9 DEF Next

LEMMA DInvHolds == Spec => []DInv
<1>1. Init => DInv
  BY DInit
<1>2. DInv /\ [Next]_vars => DInv'
  BY DStep
<1> QED
  BY <1>1, <1>2, PTL DEF Spec

\* The state has its type: every table maps every number of every process, and what the
\* scripts know is of the kinds the subcommands tell.
THEOREM TypeCorrect == Spec => []TypeOK
<1>1. DInv => TypeOK
  BY DEF DInv
<1> QED
  BY <1>1, DInvHolds, PTL

\* A number a script was told (by a subcommand's variable) refers to what it was told
\* about, in its shell and all its subshells, asynchronous ones too: moving made
\* descriptors to FdMin or above keeps them out of what bash and a failed pipe close.
THEOREM ToldKeepsHolding == Spec => []ToldHolds
<1>1. DInv => ToldHolds
  BY DEF DInv, Holding, Held, ToldHolds
<1> QED
  BY <1>1, DInvHolds, PTL

\* Nothing is left open that no script knows of (the guards of pipe, listen and
\* signalfd, ensure_high_fd's close), but where the variable could not be set and where
\* the dispatcher keeps the library.
THEOREM NothingOpenUntold == Spec => []OpenIsTold
<1>1. DInv => OpenIsTold
  BY DEF DInv
<1> QED
  BY <1>1, DInvHolds, PTL

\* A program a child becomes has none of the descriptors that were to be closed on exec,
\* as long as ensure_high_fd duplicated them.
THEOREM InheritNoMore == Spec => []ProgramsGetNoMore
<1>1. DInv => ProgramsGetNoMore
  BY DEF DInv
<1> QED
  BY <1>1, DInvHolds, PTL


-----------------------------------------------------------------------------
(* What goes through a descriptor (DescriptorIO). *)

HIDE DescriptorsAssumption DEF DescriptorsAssumption


\* While guards, setfl and kills have not met: one guard at most, which holds the flag
\* the script set and has set O_NONBLOCK; without a guard the flag is the script's.
GuardsAlone ==
  ~mixed =>
    /\ \A p, q \in Forks : Guarded(p) /\ Guarded(q) => p = q
    /\ (\A p \in Forks : ~Guarded(p)) => nonblock = asked
    /\ \A p \in Forks : Guarded(p) =>
         /\ op[p].saved = asked
         /\ At(p, "setfl") => nonblock = asked
         /\ ~At(p, "setfl") => nonblock = TRUE

\* What a write or send in progress has put out, and that it has told nothing yet.
InTransfer ==
  \A p \in Forks : op[p].do \in Writes /\ op[p].at \in {"call", "blocked"} =>
    op[p].total + op[p].part = sent[p] /\ op[p].res = ""

\* Only read -n gets to the steps of the guard.
GuardSteps ==
  \A p \in Forks : op[p].at \in {"getfl", "setfl", "restore"} => op[p].do = "read" /\ op[p].n

IInv == IOTypeOK /\ GuardsAlone /\ GuardSteps /\ NoWaitWaitsNot /\ InTransfer /\ WriteCounts

------------------------------------------------------------------------------
(* Types of an operation, and what its updates change. *)

Steps == {"idle", "getfl", "setfl", "call", "blocked", "restore", "dead"}
Results == {"", "ok", "empty", "eof", "short", "EAGAIN", "EINTR", "EPIPE"}

\* A process goes on to another step of its operation.
LEMMA GotoOp ==
  ASSUME IOTypeOK, NEW p \in Forks, NEW step \in Steps, Goto(p, step)
  PROVE  /\ op' \in [Forks -> Operation]
         /\ \A q \in Forks \ {p} : op'[q] = op[q]
         /\ op'[p].at = step
         /\ op'[p].do = op[p].do /\ op'[p].n = op[p].n /\ op'[p].i = op[p].i
         /\ op'[p].saved = op[p].saved /\ op'[p].part = op[p].part
         /\ op'[p].total = op[p].total /\ op'[p].res = op[p].res
  BY DEF IOTypeOK, Goto, Operation, Steps

\* The handler of a process returns.
LEMMA EndsOp ==
  ASSUME IOTypeOK, NEW p \in Forks, NEW res \in Results, NEW total \in Nat, Ends(p, res, total)
  PROVE  /\ op' \in [Forks -> Operation]
         /\ \A q \in Forks \ {p} : op'[q] = op[q]
         /\ op'[p].at = IF Guarded(p) THEN "restore" ELSE "idle"
         /\ op'[p].do = op[p].do /\ op'[p].n = op[p].n /\ op'[p].i = op[p].i
         /\ op'[p].saved = op[p].saved /\ op'[p].part = 0
         /\ op'[p].total = total /\ op'[p].res = res
<1>1. DEFINE new == [op[p] EXCEPT !.res = res, !.total = total, !.part = 0,
                       !.at = IF Guarded(p) THEN "restore" ELSE "idle"]
<1>2. op' = [op EXCEPT ![p] = new]
  BY DEF Ends
<1>3. op[p] \in Operation
  BY DEF IOTypeOK
<1>4. new \in Operation /\ new.at = (IF Guarded(p) THEN "restore" ELSE "idle")
      /\ new.do = op[p].do /\ new.n = op[p].n /\ new.i = op[p].i
      /\ new.saved = op[p].saved /\ new.part = 0 /\ new.total = total /\ new.res = res
  BY <1>3 DEF Operation, Results
<1>5. QED
  BY <1>2, <1>4 DEF IOTypeOK

\* A system call of write or send returns `part`: the handler returns, or calls again.
LEMMA WrittenOp ==
  ASSUME IOTypeOK, NEW p \in Forks, NEW part \in Nat, Written(p, part)
  PROVE  LET total == op[p].total + part IN
         /\ op' \in [Forks -> Operation]
         /\ \A q \in Forks \ {p} : op'[q] = op[q]
         /\ op'[p].do = op[p].do /\ op'[p].n = op[p].n /\ op'[p].i = op[p].i
         /\ op'[p].saved = op[p].saved /\ op'[p].part = 0 /\ op'[p].total = total
         /\ IF op[p].n \/ total = Amount
            THEN /\ op'[p].at = (IF Guarded(p) THEN "restore" ELSE "idle")
                 /\ op'[p].res = IF total = Amount THEN "ok" ELSE "short"
            ELSE op'[p].at = "call" /\ op'[p].res = op[p].res
<1> DEFINE total == op[p].total + part
<1>1. total \in Nat /\ Advance(op[p].total, part) = total /\ op[p] \in Operation
  <2>1. op[p] \in Operation
    BY DEF IOTypeOK
  <2>2. op[p].total \in Nat
    BY <2>1 DEF Operation
  <2>3. QED
    BY <2>1, <2>2 DEF Advance
<1>2. CASE op[p].n \/ total = Amount
  <2>1. Ends(p, IF total = Amount THEN "ok" ELSE "short", total)
    BY <1>1, <1>2 DEF Written
  <2>2. QED
    BY <1>1, <1>2, <2>1, EndsOp DEF Results
<1>3. CASE ~(op[p].n \/ total = Amount)
  <2>1. op' = [op EXCEPT ![p].at = "call", ![p].part = 0, ![p].total = total]
    BY <1>1, <1>3 DEF Written
  <2>2. QED
    BY <1>1, <1>3, <2>1 DEF IOTypeOK, Operation
<1>4. QED
  BY <1>2, <1>3
------------------------------------------------------------------------------
(* The invariant. *)

\* The initial states satisfy it.
LEMMA InvInit == IOInit => IInv
<1> SUFFICES ASSUME IOInit PROVE IInv
  OBVIOUS
<1>1. Idle \in Operation
  BY DEF Idle, Operation
<1>2. IOTypeOK
  BY <1>1 DEF IOInit, IOTypeOK
<1>3. \A p \in Forks : op[p] = Idle
  BY DEF IOInit
<1>4. QED
  BY <1>2, <1>3 DEF IOInit, IInv, Idle, GuardsAlone, GuardSteps, NoWaitWaitsNot, InTransfer, WriteCounts,
                   Guarded, At, Reads, Writes

\* A step that leaves the flag, what is asked and the guards alone keeps GuardsAlone.
LEMMA GuardsFrame ==
  ASSUME IInv, nonblock' = nonblock, asked' = asked, mixed' = mixed,
         \A p \in Forks : Guarded(p)' <=> Guarded(p),
         \A p \in Forks : Guarded(p) => /\ op'[p].saved = op[p].saved
                                        /\ At(p, "setfl")' <=> At(p, "setfl")
  PROVE  GuardsAlone'
<1> SUFFICES ASSUME ~mixed PROVE GuardsAlone'
  BY DEF GuardsAlone
<1>1. \A p, q \in Forks : Guarded(p)' /\ Guarded(q)' => p = q
  BY DEF IInv, GuardsAlone
<1>2. (\A p \in Forks : ~Guarded(p)') => nonblock = asked
  BY DEF IInv, GuardsAlone
<1>3. \A p \in Forks : Guarded(p)' => /\ op'[p].saved = asked
                                      /\ At(p, "setfl")' => nonblock = asked
                                      /\ ~At(p, "setfl")' => nonblock = TRUE
  BY DEF IInv, GuardsAlone
<1>4. QED
  BY <1>1, <1>2, <1>3 DEF GuardsAlone

\* A step of p keeps what is said of each process if it does so for p.
LEMMA OneProcess ==
  ASSUME IInv, NEW p \in Forks, mixed => mixed',
         \A q \in Forks \ {p} : op'[q] = op[q] /\ sent'[q] = sent[q],
         op'[p].at \in {"getfl", "setfl", "restore"} => op'[p].do = "read" /\ op'[p].n,
         op'[p].n /\ op'[p].do \in Reads /\ op'[p].at = "blocked" => op'[p].do = "read" /\ mixed',
         op'[p].do \in Writes /\ op'[p].at \in {"call", "blocked"} =>
           op'[p].total + op'[p].part = sent'[p] /\ op'[p].res = "",
         op'[p].do \in Writes /\ op'[p].res \in {"ok", "short"} =>
           op'[p].total = sent'[p] /\ (~op'[p].n => sent'[p] = Amount)
  PROVE  GuardSteps' /\ NoWaitWaitsNot' /\ InTransfer' /\ WriteCounts'
<1>1. GuardSteps'
  BY DEF IInv, GuardSteps
<1>2. NoWaitWaitsNot'
  BY DEF IInv, NoWaitWaitsNot, At
<1>3. InTransfer'
  BY DEF IInv, InTransfer
<1>4. WriteCounts'
  BY DEF IInv, WriteCounts
<1>5. QED
  BY <1>1, <1>2, <1>3, <1>4

\* What is told of a process whose operation and sent units do not change.
LEMMA Same ==
  ASSUME IInv, op' = op, sent' = sent, mixed' = mixed
  PROVE  GuardSteps' /\ NoWaitWaitsNot' /\ InTransfer' /\ WriteCounts'
  BY DEF IInv, GuardSteps, NoWaitWaitsNot, InTransfer, WriteCounts, At

\* The fields of an operation.
LEMMA Fields ==
  ASSUME IOTypeOK, NEW p \in Forks
  PROVE  /\ op[p] \in Operation /\ op[p].at \in Steps /\ op[p].res \in Results
         /\ op[p].n \in BOOLEAN /\ op[p].i \in BOOLEAN /\ op[p].saved \in BOOLEAN
         /\ op[p].part \in Nat /\ op[p].total \in Nat
         /\ op[p].do \in Reads \cup Writes \cup {"none"}
<1>1. op[p] \in Operation
  BY DEF IOTypeOK
<1>2. QED
  BY <1>1 DEF Operation, Steps, Results

\* Operations start without a guard.
LEMMA StartInv ==
  ASSUME IInv, NEW p \in Forks, NEW do \in Reads \cup Writes, NEW n \in BOOLEAN, NEW i \in BOOLEAN,
         Start(p, do, n, i)
  PROVE  IInv'
<1> DEFINE at == IF do = "read" /\ n THEN "getfl" ELSE "call"
           new == [Idle EXCEPT !.do = do, !.n = n, !.i = i, !.at = at]
<1>0. \/ at = "getfl" /\ do = "read" /\ n = TRUE
      \/ at = "call" /\ (do # "read" \/ n = FALSE)
  BY Zenon
<1> HIDE DEF at
<1>1. new.do = do /\ new.n = n /\ new.at = at /\ new.part = 0 /\ new.total = 0 /\ new.res = ""
  BY DEF Idle
<1>2. new \in Operation
  <2>1. Idle \in Operation
    BY DEF Idle, Operation
  <2>2. at \in {"getfl", "call"}
    BY <1>0
  <2>3. QED
    BY <2>1, <2>2 DEF Operation
<1>3. op' = [op EXCEPT ![p] = new] /\ sent' = [sent EXCEPT ![p] = 0] /\ mixed' = mixed
  BY DEF Start, at
<1> HIDE DEF new
<1>4. IOTypeOK'
  BY <1>2, <1>3 DEF IInv, IOTypeOK, Start
<1>5. op'[p] = new /\ sent'[p] = 0 /\ \A q \in Forks \ {p} : op'[q] = op[q] /\ sent'[q] = sent[q]
  BY <1>3 DEF IInv, IOTypeOK
<1>6. GuardsAlone'
  <2>1. ~Guarded(p) /\ ~Guarded(p)'
    BY <1>0, <1>1, <1>5 DEF Guarded, Start, At
  <2>2. \A q \in Forks \ {p} : (Guarded(q)' <=> Guarded(q)) /\ (At(q, "setfl")' <=> At(q, "setfl"))
    BY <1>5 DEF Guarded, At
  <2>3. QED
    BY <1>5, <2>1, <2>2, GuardsFrame DEF Start
<1>7. GuardSteps' /\ NoWaitWaitsNot' /\ InTransfer' /\ WriteCounts'
  <2>1. op'[p].at \in {"getfl", "call"} /\ op'[p].res = ""
    BY <1>0, <1>1, <1>5
  <2>2. op'[p].at = "getfl" => op'[p].do = "read" /\ op'[p].n = TRUE
    BY <1>0, <1>1, <1>5
  <2>3. op'[p].total + op'[p].part = sent'[p]
    <3>1. op'[p].total = 0 /\ op'[p].part = 0 /\ sent'[p] = 0
      BY <1>1, <1>5
    <3>2. QED
      BY <3>1
  <2>4. op'[p].at \in {"getfl", "setfl", "restore"} => op'[p].do = "read" /\ op'[p].n
    BY <2>1, <2>2, Zenon
  <2>5. op'[p].n /\ op'[p].do \in Reads /\ op'[p].at = "blocked" => op'[p].do = "read" /\ mixed'
    BY <2>1, Zenon
  <2>6. op'[p].do \in Writes /\ op'[p].res \in {"ok", "short"} =>
           op'[p].total = sent'[p] /\ (~op'[p].n => sent'[p] = Amount)
    BY <2>1, Zenon
  <2>7. mixed => mixed'
    BY <1>3
  <2>8. op'[p].do \in Writes /\ op'[p].at \in {"call", "blocked"} =>
           op'[p].total + op'[p].part = sent'[p] /\ op'[p].res = ""
    BY <2>1, <2>3
  <2>9. QED
    BY <1>5, <2>4, <2>5, <2>6, <2>7, <2>8, OneProcess, Zenon
<1>8. QED
  BY <1>4, <1>6, <1>7 DEF IInv

\* A step to `step` that sends nothing keeps what is said of the operations.
LEMMA GotoKeeps ==
  ASSUME IInv, NEW p \in Forks, NEW step \in Steps, Goto(p, step), sent' = sent, mixed => mixed',
         step \in {"getfl", "setfl", "restore"} => op[p].do = "read" /\ op[p].n,
         op[p].n /\ op[p].do \in Reads /\ step = "blocked" => op[p].do = "read" /\ mixed',
         step \in {"call", "blocked"} /\ op[p].do \in Writes => op[p].at \in {"call", "blocked"}
  PROVE  /\ op' \in [Forks -> Operation]
         /\ GuardSteps' /\ NoWaitWaitsNot' /\ InTransfer' /\ WriteCounts'
<1>1. IOTypeOK
  BY DEF IInv
<1>2. op' \in [Forks -> Operation]
  BY <1>1, GotoOp
<1>3. /\ \A q \in Forks \ {p} : op'[q] = op[q] /\ sent'[q] = sent[q]
      /\ op'[p].at = step /\ op'[p].do = op[p].do /\ op'[p].n = op[p].n
      /\ op'[p].part = op[p].part /\ op'[p].total = op[p].total /\ op'[p].res = op[p].res
      /\ sent'[p] = sent[p]
  BY <1>1, GotoOp
<1>4. op'[p].do \in Writes /\ op'[p].at \in {"call", "blocked"} =>
        op'[p].total + op'[p].part = sent'[p] /\ op'[p].res = ""
  BY <1>3 DEF IInv, InTransfer
<1>5. op'[p].do \in Writes /\ op'[p].res \in {"ok", "short"} =>
        op'[p].total = sent'[p] /\ (~op'[p].n => sent'[p] = Amount)
  BY <1>3 DEF IInv, WriteCounts
<1>6. op'[p].at \in {"getfl", "setfl", "restore"} => op'[p].do = "read" /\ op'[p].n
  BY <1>3, Zenon
<1>7. op'[p].n /\ op'[p].do \in Reads /\ op'[p].at = "blocked" => op'[p].do = "read" /\ mixed'
  BY <1>3, Zenon
<1>8. QED
  BY <1>2, <1>3, <1>4, <1>5, <1>6, <1>7, OneProcess, Zenon

\* So does a handler that returns, if what it tells is what it sent.
LEMMA EndsKeeps ==
  ASSUME IInv, NEW p \in Forks, NEW res \in Results, NEW total \in Nat, Ends(p, res, total),
         \A q \in Forks \ {p} : sent'[q] = sent[q], mixed' = mixed,
         op[p].do \in Writes /\ res \in {"ok", "short"} =>
           total = sent'[p] /\ (~op[p].n => sent'[p] = Amount)
  PROVE  /\ op' \in [Forks -> Operation]
         /\ GuardSteps' /\ NoWaitWaitsNot' /\ InTransfer' /\ WriteCounts'
<1>1. IOTypeOK
  BY DEF IInv
<1>2. op' \in [Forks -> Operation]
  BY <1>1, EndsOp
<1>3. /\ \A q \in Forks \ {p} : op'[q] = op[q] /\ sent'[q] = sent[q]
      /\ op'[p].at = IF Guarded(p) THEN "restore" ELSE "idle"
      /\ op'[p].do = op[p].do /\ op'[p].n = op[p].n
      /\ op'[p].total = total /\ op'[p].res = res
  BY <1>1, EndsOp
<1>4. /\ op'[p].at \in {"restore", "idle"}
      /\ op'[p].at = "restore" => Guarded(p)
  BY <1>3
<1>5. Guarded(p) => op[p].do = "read" /\ op[p].n
  BY DEF Guarded
<1>6. op'[p].at \in {"getfl", "setfl", "restore"} => op'[p].do = "read" /\ op'[p].n
  <2>1. op'[p].at \in {"getfl", "setfl", "restore"} => Guarded(p)
    BY <1>4
  <2>2. QED
    BY <1>3, <1>5, <2>1, Zenon
<1>7. op'[p].at # "blocked" /\ op'[p].at # "call"
  BY <1>4
<1>8. op'[p].do \in Writes /\ op'[p].res \in {"ok", "short"} =>
        op'[p].total = sent'[p] /\ (~op'[p].n => sent'[p] = Amount)
  BY <1>3, Zenon
<1>9. op'[p].do \in Writes /\ op'[p].at \in {"call", "blocked"} =>
        op'[p].total + op'[p].part = sent'[p] /\ op'[p].res = ""
  BY <1>7
<1>10. op'[p].n /\ op'[p].do \in Reads /\ op'[p].at = "blocked" => op'[p].do = "read" /\ mixed'
  BY <1>7
<1>11. QED
  BY <1>2, <1>3, <1>6, <1>8, <1>9, <1>10, OneProcess, Zenon

\* A process that enters or leaves no guard leaves the guards alone.
LEMMA GuardsStay ==
  ASSUME IInv, NEW p \in Forks, nonblock' = nonblock, asked' = asked, mixed' = mixed,
         \A q \in Forks \ {p} : op'[q] = op[q],
         op'[p].do = op[p].do, op'[p].n = op[p].n, op'[p].saved = op[p].saved,
         op[p].at \in {"call", "blocked"}, 
         op'[p].at \in {"call", "blocked"} \/ op'[p].at = IF Guarded(p) THEN "restore" ELSE "idle"
  PROVE  GuardsAlone'
<1>1. \A q \in Forks : Guarded(q)' <=> Guarded(q)
  <2>1. Guarded(p) <=> op[p].do = "read" /\ op[p].n
    BY DEF Guarded
  <2>2. CASE Guarded(p)
    <3>1. op'[p].at \in {"setfl", "call", "blocked", "restore"}
      BY <2>2
    <3>2. QED
      BY <2>1, <2>2, <3>1 DEF Guarded
  <2>3. CASE ~Guarded(p)
    BY <2>1, <2>3 DEF Guarded
  <2>4. QED
    BY <2>2, <2>3 DEF Guarded
<1>2. \A q \in Forks : op'[q].saved = op[q].saved /\ (At(q, "setfl")' <=> At(q, "setfl"))
  BY DEF At
<1>3. QED
  BY <1>1, <1>2, GuardsFrame

\* A system call that ends after `part` units keeps the invariant.
LEMMA WrittenInv ==
  ASSUME IInv, NEW p \in Forks, NEW part \in Nat, Written(p, part),
         op[p].at \in {"call", "blocked"},
         op[p].do \in Writes => sent'[p] = op[p].total + part,
         \A q \in Forks \ {p} : sent'[q] = sent[q],
         nonblock' = nonblock, asked' = asked, mixed' = mixed
  PROVE  /\ op' \in [Forks -> Operation]
         /\ GuardsAlone' /\ GuardSteps' /\ NoWaitWaitsNot' /\ InTransfer' /\ WriteCounts'
<1> DEFINE total == op[p].total + part
<1>1. IOTypeOK /\ op[p].total \in Nat
  BY Fields DEF IInv
<1>2. /\ op' \in [Forks -> Operation]
      /\ \A q \in Forks \ {p} : op'[q] = op[q]
      /\ op'[p].do = op[p].do /\ op'[p].n = op[p].n
      /\ op'[p].saved = op[p].saved /\ op'[p].part = 0 /\ op'[p].total = total
      /\ IF op[p].n \/ total = Amount
         THEN /\ op'[p].at = (IF Guarded(p) THEN "restore" ELSE "idle")
              /\ op'[p].res = IF total = Amount THEN "ok" ELSE "short"
         ELSE op'[p].at = "call" /\ op'[p].res = op[p].res
  BY <1>1, WrittenOp
<1>3. op'[p].at = "call" \/ op'[p].at = IF Guarded(p) THEN "restore" ELSE "idle"
  BY <1>2, Zenon
<1>4. GuardsAlone'
  BY <1>2, <1>3, GuardsStay
<1>5. op[p].do \in Writes => op[p].res = ""
  BY Zenon DEF IInv, InTransfer
<1>6. op'[p].at \in {"getfl", "setfl", "restore"} => op'[p].do = "read" /\ op'[p].n
  <2>1. Guarded(p) => op[p].do = "read" /\ op[p].n
    BY DEF Guarded
  <2>2. op'[p].at \in {"getfl", "setfl", "restore"} => Guarded(p)
    BY <1>3
  <2>3. QED
    BY <1>2, <2>1, <2>2, Zenon
<1>7. op'[p].at # "blocked" /\ (op'[p].at = "call" => op'[p].res = op[p].res)
  BY <1>2, <1>3
<1>8. op'[p].do \in Writes /\ op'[p].res \in {"ok", "short"} =>
        op'[p].total = sent'[p] /\ (~op'[p].n => sent'[p] = Amount)
  <2> SUFFICES ASSUME op'[p].do \in Writes, op'[p].res \in {"ok", "short"}
               PROVE  op'[p].total = sent'[p] /\ (~op'[p].n => sent'[p] = Amount)
    OBVIOUS
  <2>1. op'[p].total = sent'[p] /\ op'[p].n = op[p].n /\ sent'[p] = total
    BY <1>2
  <2>2. op[p].n \/ total = Amount
    BY <1>2, <1>5
  <2>3. QED
    BY <2>1, <2>2, Zenon
<1>9. op'[p].do \in Writes /\ op'[p].at \in {"call", "blocked"} =>
        op'[p].total + op'[p].part = sent'[p] /\ op'[p].res = ""
  <2> SUFFICES ASSUME op'[p].do \in Writes, op'[p].at \in {"call", "blocked"}
               PROVE  op'[p].total + op'[p].part = sent'[p] /\ op'[p].res = ""
    OBVIOUS
  <2>1. op'[p].total = total /\ op'[p].part = 0 /\ sent'[p] = total
    BY <1>2
  <2>2. \A k \in Nat : (k + part) + 0 = k + part
    OBVIOUS
  <2>3. op'[p].total + op'[p].part = sent'[p]
    BY <1>1, <2>1, <2>2, Zenon
  <2>4. op'[p].res = ""
    BY <1>2, <1>5, <1>7
  <2>5. QED
    BY <2>3, <2>4
<1>10. op'[p].n /\ op'[p].do \in Reads /\ op'[p].at = "blocked" => op'[p].do = "read" /\ mixed'
  BY <1>7
<1>11. mixed => mixed'
  OBVIOUS
<1>12. QED
  BY <1>2, <1>4, <1>6, <1>8, <1>9, <1>10, <1>11, OneProcess, Zenon

------------------------------------------------------------------------------
(* Every step keeps the invariant. *)

\* NonblockGuard::set reads the flags: a lone guard finds those the script set.
LEMMA GuardGetsInv == ASSUME IInv, NEW p \in Forks, GuardGets(p) PROVE IInv'
<1> DEFINE found == [op EXCEPT ![p].saved = nonblock]
<1>1. IOTypeOK /\ op[p].at = "getfl" /\ op[p].do = "read" /\ op[p].n
  BY DEF IInv, GuardSteps, GuardGets, At
<1>2. /\ op' \in [Forks -> Operation]
      /\ \A q \in Forks \ {p} : op'[q] = op[q] /\ sent'[q] = sent[q]
      /\ op'[p].at = "setfl" /\ op'[p].do = op[p].do /\ op'[p].n = op[p].n
      /\ op'[p].saved = nonblock /\ op'[p].res = op[p].res
  BY <1>1 DEF IOTypeOK, Operation, GuardGets
<1>3. IOTypeOK'
  BY <1>1, <1>2 DEF IOTypeOK, GuardGets, bounds
<1>4. GuardSteps' /\ NoWaitWaitsNot' /\ InTransfer' /\ WriteCounts'
  <2>1. op'[p].at = "setfl" /\ op'[p].do = "read" /\ op'[p].n
    BY <1>1, <1>2
  <2>2. op'[p].do \notin Writes /\ op'[p].at # "blocked"
    BY <2>1 DEF Writes
  <2>3. mixed => mixed'
    BY DEF GuardGets
  <2>4. QED
    BY <1>2, <2>1, <2>2, <2>3, OneProcess, Zenon
<1>5. GuardsAlone'
  <2> SUFFICES ASSUME ~mixed' PROVE GuardsAlone'
    BY DEF GuardsAlone
  <2>1. ~mixed /\ \A q \in Forks \ {p} : ~Guarded(q)
    BY DEF GuardGets, OtherGuards
  <2>2. ~Guarded(p) /\ Guarded(p)'
    BY <1>1, <1>2 DEF Guarded
  <2>3. \A q \in Forks \ {p} : ~Guarded(q)'
    BY <1>2, <2>1 DEF Guarded
  <2>4. nonblock = asked
    BY <2>1, <2>2 DEF IInv, GuardsAlone
  <2>5. nonblock' = nonblock /\ asked' = asked /\ op'[p].saved = asked /\ At(p, "setfl")'
    BY <1>2, <2>4 DEF GuardGets, At
  <2>6. \A q \in Forks : Guarded(q)' => q = p
    BY <2>3
  <2>7. QED
    BY <2>2, <2>4, <2>5, <2>6 DEF GuardsAlone
<1>6. QED
  BY <1>3, <1>4, <1>5 DEF IInv

\* NonblockGuard::set sets O_NONBLOCK.
LEMMA GuardSetsInv == ASSUME IInv, NEW p \in Forks, GuardSets(p) PROVE IInv'
<1>1. IOTypeOK /\ op[p].at = "setfl" /\ op[p].do = "read" /\ op[p].n /\ Goto(p, "call")
  BY DEF IInv, GuardSteps, GuardSets, At
<1>2. /\ op' \in [Forks -> Operation] /\ \A q \in Forks \ {p} : op'[q] = op[q]
      /\ op'[p].at = "call" /\ op'[p].do = op[p].do /\ op'[p].n = op[p].n
      /\ op'[p].saved = op[p].saved
  BY <1>1, GotoOp DEF Steps
<1>3. IOTypeOK'
  BY <1>2 DEF IInv, IOTypeOK, GuardSets, bounds
<1>4. GuardSteps' /\ NoWaitWaitsNot' /\ InTransfer' /\ WriteCounts'
  <2>1. op[p].do \notin Writes /\ sent' = sent /\ (mixed => mixed')
    BY <1>1 DEF Writes, GuardSets
  <2>2. QED
    BY <1>1, <2>1, GotoKeeps DEF Steps
<1>5. GuardsAlone'
  <2>1. Guarded(p) /\ Guarded(p)' /\ ~At(p, "setfl")'
    BY <1>1, <1>2 DEF Guarded, At
  <2>2. \A q \in Forks \ {p} : Guarded(q)' <=> Guarded(q)
    BY <1>2 DEF Guarded
  <2>3. \A q \in Forks : Guarded(q)' <=> Guarded(q)
    BY <2>1, <2>2
  <2>4. nonblock' = TRUE /\ asked' = asked /\ mixed' = mixed
    BY DEF GuardSets
  <2>5. ~mixed => /\ \A q, r \in Forks : Guarded(q) /\ Guarded(r) => q = r
                  /\ op[p].saved = asked
    BY <2>1 DEF IInv, GuardsAlone
  <2>6. QED
    BY <1>2, <2>1, <2>3, <2>4, <2>5 DEF GuardsAlone
<1>6. QED
  BY <1>3, <1>4, <1>5 DEF IInv

\* NonblockGuard::drop puts back what the script set.
LEMMA GuardDropsInv == ASSUME IInv, NEW p \in Forks, GuardDrops(p) PROVE IInv'
<1>1. IOTypeOK /\ op[p].at = "restore" /\ op[p].do = "read" /\ op[p].n /\ Goto(p, "idle")
  BY DEF IInv, GuardSteps, GuardDrops, At
<1>2. /\ op' \in [Forks -> Operation] /\ \A q \in Forks \ {p} : op'[q] = op[q]
      /\ op'[p].at = "idle"
  BY <1>1, GotoOp DEF Steps
<1>3. IOTypeOK'
  <2>1. op[p].saved \in BOOLEAN
    BY <1>1, Fields
  <2>2. QED
    BY <1>2, <2>1 DEF IInv, IOTypeOK, GuardDrops, bounds
<1>4. GuardSteps' /\ NoWaitWaitsNot' /\ InTransfer' /\ WriteCounts'
  <2>1. sent' = sent /\ (mixed => mixed')
    BY DEF GuardDrops
  <2>2. QED
    BY <1>1, <2>1, GotoKeeps DEF Steps
<1>5. GuardsAlone'
  <2>1. Guarded(p) /\ ~At(p, "setfl") /\ ~Guarded(p)'
    BY <1>1, <1>2 DEF Guarded, At
  <2>2. \A q \in Forks \ {p} : Guarded(q)' <=> Guarded(q)
    BY <1>2 DEF Guarded
  <2>3. nonblock' = op[p].saved /\ asked' = asked /\ mixed' = mixed
    BY DEF GuardDrops
  <2>4. ~mixed => /\ \A q \in Forks : Guarded(q) => q = p
                  /\ op[p].saved = asked
    BY <2>1 DEF IInv, GuardsAlone
  <2>5. ~mixed => \A q \in Forks : ~Guarded(q)'
    BY <2>1, <2>2, <2>4
  <2>6. QED
    BY <2>3, <2>4, <2>5 DEF GuardsAlone
<1>6. QED
  BY <1>3, <1>4, <1>5 DEF IInv

\* A handler that returns from its system call keeps the invariant.
LEMMA EndsInv ==
  ASSUME IInv, NEW p \in Forks, NEW res \in Results, NEW total \in Nat, Ends(p, res, total),
         op[p].at \in {"call", "blocked"}, sent' = sent,
         nonblock' = nonblock, asked' = asked, mixed' = mixed,
         op[p].do \in Writes => res \notin {"ok", "short"}
  PROVE  /\ op' \in [Forks -> Operation]
         /\ GuardsAlone' /\ GuardSteps' /\ NoWaitWaitsNot' /\ InTransfer' /\ WriteCounts'
<1>1. /\ \A q \in Forks \ {p} : op'[q] = op[q]
      /\ op'[p].do = op[p].do /\ op'[p].n = op[p].n /\ op'[p].saved = op[p].saved
      /\ op'[p].at = IF Guarded(p) THEN "restore" ELSE "idle"
  BY EndsOp DEF IInv
<1>2. GuardsAlone'
  BY <1>1, GuardsStay
<1>3. op' \in [Forks -> Operation] /\ GuardSteps' /\ NoWaitWaitsNot' /\ InTransfer' /\ WriteCounts'
  BY EndsKeeps
<1>4. QED
  BY <1>2, <1>3

\* So does one that goes on to wait, or to call again.
LEMMA TurnInv ==
  ASSUME IInv, NEW p \in Forks, NEW step \in {"call", "blocked"}, Goto(p, step),
         op[p].at \in {"call", "blocked"}, sent' = sent,
         nonblock' = nonblock, asked' = asked, mixed' = mixed,
         op[p].n /\ op[p].do \in Reads /\ step = "blocked" => op[p].do = "read" /\ mixed
  PROVE  /\ op' \in [Forks -> Operation]
         /\ GuardsAlone' /\ GuardSteps' /\ NoWaitWaitsNot' /\ InTransfer' /\ WriteCounts'
<1>1. step \in Steps /\ step \notin {"getfl", "setfl", "restore"}
  BY DEF Steps
<1>2. /\ \A q \in Forks \ {p} : op'[q] = op[q]
      /\ op'[p].do = op[p].do /\ op'[p].n = op[p].n /\ op'[p].saved = op[p].saved
      /\ op'[p].at = step
  BY <1>1, GotoOp DEF IInv
<1>3. GuardsAlone'
  BY <1>2, GuardsStay
<1>4. op' \in [Forks -> Operation] /\ GuardSteps' /\ NoWaitWaitsNot' /\ InTransfer' /\ WriteCounts'
  BY <1>1, GotoKeeps, Zenon
<1>5. QED
  BY <1>3, <1>4

\* The system call of read, recv and splice: it waits with -n only if O_NONBLOCK is lost.
LEMMA CallReadInv == ASSUME IInv, NEW p \in Forks, CallRead(p) PROVE IInv'
<1>1. /\ IOTypeOK /\ op[p].at = "call" /\ op[p].do \in Reads /\ op[p].do \notin Writes
      /\ nonblock' = nonblock /\ asked' = asked /\ mixed' = mixed /\ sent' = sent
  BY DEF IInv, CallRead, At, Reads, Writes
<1>2. /\ op' \in [Forks -> Operation]
      /\ GuardsAlone' /\ GuardSteps' /\ NoWaitWaitsNot' /\ InTransfer' /\ WriteCounts'
  <2>1. CASE Ends(p, "ok", 1)
    BY <1>1, <2>1, EndsInv DEF Results
  <2>2. CASE Ends(p, "eof", 0)
    BY <1>1, <2>2, EndsInv DEF Results
  <2>3. CASE Ends(p, IF op[p].n /\ op[p].do # "splice" THEN "empty" ELSE "EAGAIN", 0)
    BY <1>1, <2>3, EndsInv DEF Results
  <2>4. CASE ~NoWait(p) /\ Goto(p, "blocked")
    <3>1. ~nonblock /\ (op[p].n => op[p].do = "read")
      BY <1>1, <2>4 DEF NoWait, Reads
    <3>2. ASSUME op[p].n PROVE op[p].do = "read" /\ mixed
      <4>1. Guarded(p) /\ ~At(p, "setfl")
        BY <1>1, <3>1, <3>2 DEF Guarded, At
      <4>2. QED
        BY <3>1, <3>2, <4>1 DEF IInv, GuardsAlone
    <3>3. QED
      BY <1>1, <2>4, <3>2, TurnInv
  <2>5. QED
    BY <2>1, <2>2, <2>3, <2>4 DEF CallRead
<1>3. in' \in Nat
  BY <1>1 DEF IOTypeOK, CallRead
<1>4. IOTypeOK'
  BY <1>1, <1>2, <1>3 DEF IOTypeOK, CallRead, bounds
<1>5. QED
  BY <1>2, <1>4 DEF IInv

\* A wake.
LEMMA WakesInv == ASSUME IInv, NEW p \in Forks, Wakes(p) PROVE IInv'
<1>1. /\ op' \in [Forks -> Operation]
      /\ GuardsAlone' /\ GuardSteps' /\ NoWaitWaitsNot' /\ InTransfer' /\ WriteCounts'
  BY TurnInv DEF Wakes, At
<1>2. IOTypeOK'
  BY <1>1 DEF IInv, IOTypeOK, Wakes, bounds
<1>3. QED
  BY <1>1, <1>2 DEF IInv

\* A signal that interrupts the wait.
LEMMA InterruptedInv == ASSUME IInv, NEW p \in Forks, Interrupted(p) PROVE IInv'
<1>1. /\ IOTypeOK /\ op[p].at = "blocked"
      /\ nonblock' = nonblock /\ asked' = asked /\ mixed' = mixed /\ sent' = sent
  BY DEF IInv, Interrupted, At
<1>2. op[p].total \in Nat /\ op[p].part \in Nat /\ op[p].do \in Reads \cup Writes \cup {"none"}
  BY <1>1, Fields
<1>3. /\ op' \in [Forks -> Operation]
      /\ GuardsAlone' /\ GuardSteps' /\ NoWaitWaitsNot' /\ InTransfer' /\ WriteCounts'
  <2>1. CASE Written(p, op[p].part)
    <3>1. op[p].do \in Writes => sent[p] = op[p].total + op[p].part
      BY <1>1 DEF IInv, InTransfer
    <3>2. QED
      BY <1>1, <1>2, <2>1, <3>1, WrittenInv
  <2>2. CASE Ends(p, "EINTR", op[p].total)
    BY <1>1, <1>2, <2>2, EndsInv DEF Results
  <2>3. CASE Goto(p, "call")
    BY <1>1, <2>3, TurnInv
  <2>4. QED
    BY <2>1, <2>2, <2>3 DEF Interrupted
<1>4. IOTypeOK'
  BY <1>1, <1>3 DEF IOTypeOK, Interrupted
<1>5. QED
  BY <1>3, <1>4 DEF IInv

\* The system call of write and send moves units, waits, or ends.
LEMMA CallWriteInv == ASSUME IInv, NEW p \in Forks, CallWrite(p) PROVE IInv'
<1>1. /\ IOTypeOK /\ op[p].at = "call" /\ op[p].do \in Writes /\ op[p].do \notin Reads
      /\ nonblock' = nonblock /\ asked' = asked /\ mixed' = mixed
  BY DEF IInv, CallWrite, At, Reads, Writes
<1>2. op[p].total \in Nat /\ op[p].part \in Nat /\ sent[p] \in Nat /\ op[p] \in Operation
  BY <1>1, Fields DEF IOTypeOK
<1>3. sent[p] = op[p].total + op[p].part /\ op[p].res = ""
  BY <1>1 DEF IInv, InTransfer
<1> DEFINE Keeps == /\ op' \in [Forks -> Operation] /\ sent' \in [Forks -> Nat] /\ out' \in Nat
                    /\ GuardsAlone' /\ GuardSteps' /\ NoWaitWaitsNot' /\ InTransfer' /\ WriteCounts'
<1>4. ASSUME UNCHANGED <<out, sent>> PROVE Keeps
  <2>1. sent' = sent /\ sent' \in [Forks -> Nat] /\ out' \in Nat
    BY <1>1, <1>4 DEF IOTypeOK
  <2>2. ASSUME Ends(p, "EPIPE", op[p].total) \/ Ends(p, "EAGAIN", op[p].total)
        PROVE  Keeps
    <3>1. "EPIPE" \in Results /\ "EAGAIN" \in Results
          /\ "EPIPE" \notin {"ok", "short"} /\ "EAGAIN" \notin {"ok", "short"}
      BY DEF Results
    <3>2. /\ op' \in [Forks -> Operation]
          /\ GuardsAlone' /\ GuardSteps' /\ NoWaitWaitsNot' /\ InTransfer' /\ WriteCounts'
      BY <1>1, <1>2, <2>1, <2>2, <3>1, EndsInv
    <3>3. QED
      BY <2>1, <3>2
  <2>4. ASSUME Written(p, op[p].part) PROVE Keeps
    <3>1. sent'[p] = op[p].total + op[p].part /\ \A q \in Forks \ {p} : sent'[q] = sent[q]
      BY <1>3, <2>1
    <3>2. /\ op' \in [Forks -> Operation]
          /\ GuardsAlone' /\ GuardSteps' /\ NoWaitWaitsNot' /\ InTransfer' /\ WriteCounts'
      BY <1>1, <1>2, <2>4, <3>1, WrittenInv
    <3>3. QED
      BY <2>1, <3>2
  <2>5. ASSUME Goto(p, "blocked") PROVE Keeps
    <3>1. /\ op' \in [Forks -> Operation]
          /\ GuardsAlone' /\ GuardSteps' /\ NoWaitWaitsNot' /\ InTransfer' /\ WriteCounts'
      BY <1>1, <2>1, <2>5, TurnInv
    <3>2. QED
      BY <2>1, <3>1
  <2>6. CASE \E k \in 1..(Amount - op[p].total - op[p].part) : out' = out + k
    <3>1. PICK k \in 1..(Amount - op[p].total - op[p].part) : out' = out + k
      BY <2>6
    <3>2. \A m, l \in Nat : l # 0 => m + l # m
      OBVIOUS
    <3>3. k \in Nat /\ k # 0 /\ out \in Nat
      BY <1>1, <1>2, DescriptorIOAssumption DEF IOTypeOK
    <3>4. QED
      BY <1>4, <3>1, <3>2, <3>3
  <2> HIDE DEF Keeps
  <2>7. QED
    BY <2>2, <2>4, <2>5, <2>6 DEF CallWrite
<1>5. ASSUME ~UNCHANGED <<out, sent>> PROVE Keeps
  <2>1. PICK k \in 1..(Amount - op[p].total - op[p].part) :
          /\ out' = out + k /\ sent' = [sent EXCEPT ![p] = @ + k]
          /\ IF k = Amount - op[p].total - op[p].part \/ nonblock THEN Written(p, op[p].part + k)
             ELSE op' = [op EXCEPT ![p].part = @ + k]
    BY <1>5 DEF CallWrite
  <2>2. k \in Nat /\ Amount \in Nat
    BY <1>2, DescriptorIOAssumption
  <2>3. op[p].part + k \in Nat /\ out' \in Nat /\ sent' \in [Forks -> Nat]
    BY <1>1, <1>2, <2>1, <2>2 DEF IOTypeOK
  <2>4. sent'[p] = sent[p] + k /\ \A q \in Forks \ {p} : sent'[q] = sent[q]
    BY <1>1, <2>1 DEF IOTypeOK
  <2>5. sent'[p] = op[p].total + (op[p].part + k)
    <3>1. \A a, b, c \in Nat : (a + b) + c = a + (b + c)
      OBVIOUS
    <3>2. (op[p].total + op[p].part) + k = op[p].total + (op[p].part + k)
      BY <1>2, <2>2, <3>1, Zenon
    <3>3. QED
      BY <1>3, <2>4, <3>2, Zenon
  <2>6. ASSUME Written(p, op[p].part + k) PROVE Keeps
    <3>1. /\ op' \in [Forks -> Operation]
          /\ GuardsAlone' /\ GuardSteps' /\ NoWaitWaitsNot' /\ InTransfer' /\ WriteCounts'
      BY <1>1, <2>3, <2>4, <2>5, <2>6, WrittenInv
    <3>2. QED
      BY <2>3, <3>1
  <2>7. ASSUME op' = [op EXCEPT ![p].part = @ + k] PROVE Keeps
    <3>1. /\ op' \in [Forks -> Operation]
          /\ \A q \in Forks \ {p} : op'[q] = op[q]
          /\ op'[p].at = op[p].at /\ op'[p].do = op[p].do /\ op'[p].n = op[p].n
          /\ op'[p].saved = op[p].saved /\ op'[p].res = op[p].res
          /\ op'[p].part = op[p].part + k /\ op'[p].total = op[p].total
      BY <1>1, <1>2, <2>3, <2>7 DEF IOTypeOK, Operation
    <3>2. GuardsAlone'
      <4>1. op'[p].at \in {"call", "blocked"}
        BY <1>1, <3>1
      <4>2. QED
        BY <1>1, <3>1, <4>1, GuardsStay
    <3>3. op'[p].at = "call" /\ op'[p].res = "" /\ op'[p].total + op'[p].part = sent'[p]
      BY <1>1, <1>3, <2>5, <3>1
    <3>4. op'[p].at \notin {"getfl", "setfl", "restore"} /\ op'[p].at # "blocked"
          /\ op'[p].res \notin {"ok", "short"} /\ (mixed => mixed')
      BY <1>1, <3>3
    <3>5. GuardSteps' /\ NoWaitWaitsNot' /\ InTransfer' /\ WriteCounts'
      BY <2>4, <3>1, <3>3, <3>4, OneProcess, Zenon
    <3>6. QED
      BY <2>3, <3>1, <3>2, <3>5
  <2> HIDE DEF Keeps
  <2>8. QED
    BY <2>1, <2>6, <2>7
<1>6. Keeps
  BY <1>4, <1>5
<1>7. IOTypeOK'
  BY <1>1, <1>6 DEF IOTypeOK, CallWrite, bounds
<1>8. QED
  BY <1>6, <1>7 DEF IInv

\* fcntl setfl: among no guards the flag is what the script asks.
LEMMA SetflInv == ASSUME IInv, NEW p \in Forks, NEW b \in BOOLEAN, Setfl(p, b) PROVE IInv'
<1>1. IOTypeOK /\ op' = op /\ sent' = sent /\ nonblock' = b /\ asked' = b /\ mixed' = OtherGuards(p)
  BY DEF IInv, Setfl
<1>2. IOTypeOK'
  BY <1>1 DEF IOTypeOK, Setfl, OtherGuards
<1>3. ~Guarded(p)
  BY DEF Setfl, Guarded, At
<1>4. ~mixed' => \A q \in Forks : ~Guarded(q)'
  BY <1>1, <1>3 DEF OtherGuards, Guarded
<1>5. GuardsAlone'
  BY <1>1, <1>4 DEF GuardsAlone
<1>6. GuardSteps' /\ InTransfer' /\ WriteCounts'
  BY <1>1 DEF IInv, GuardSteps, InTransfer, WriteCounts
<1>7. NoWaitWaitsNot'
  <2> SUFFICES ASSUME NEW q \in Forks, op[q].n, op[q].do \in Reads, op[q].at = "blocked"
               PROVE  op[q].do = "read" /\ mixed'
    BY <1>1 DEF NoWaitWaitsNot, At
  <2>1. op[q].do = "read"
    BY DEF IInv, NoWaitWaitsNot, At
  <2>2. Guarded(q) /\ q # p
    BY <1>3, <2>1 DEF Guarded
  <2>3. QED
    BY <1>1, <2>1, <2>2 DEF OtherGuards
<1>8. QED
  BY <1>2, <1>5, <1>6, <1>7 DEF IInv

\* A process killed with a guard leaves O_NONBLOCK as it is.
LEMMA KilledInv == ASSUME IInv, NEW p \in Forks, Killed(p) PROVE IInv'
<1>1. /\ IOTypeOK /\ Goto(p, "dead") /\ sent' = sent /\ nonblock' = nonblock /\ asked' = asked
      /\ mixed' = (mixed \/ Guarded(p))
  BY DEF IInv, Killed
<1>2. /\ op' \in [Forks -> Operation] /\ \A q \in Forks \ {p} : op'[q] = op[q]
      /\ op'[p].at = "dead"
  BY <1>1, GotoOp DEF Steps
<1>3. IOTypeOK'
  BY <1>1, <1>2 DEF IOTypeOK, Killed
<1>4. GuardSteps' /\ NoWaitWaitsNot' /\ InTransfer' /\ WriteCounts'
  <2>1. mixed => mixed'
    BY <1>1
  <2>2. QED
    BY <1>1, <2>1, GotoKeeps DEF Steps
<1>5. GuardsAlone'
  <2> SUFFICES ASSUME ~mixed' PROVE GuardsAlone'
    BY DEF GuardsAlone
  <2>1. ~mixed /\ ~Guarded(p)
    BY <1>1
  <2>2. ~Guarded(p)'
    BY <1>2 DEF Guarded
  <2>3. \A q \in Forks : Guarded(q)' <=> Guarded(q)
    BY <1>2, <2>1, <2>2 DEF Guarded
  <2>4. \A q \in Forks : Guarded(q) => /\ op'[q].saved = op[q].saved
                                       /\ At(q, "setfl")' <=> At(q, "setfl")
    BY <1>2, <2>1 DEF At
  <2>5. mixed' = mixed
    BY <1>1, <2>1 DEF IOTypeOK
  <2>6. QED
    BY <1>1, <2>3, <2>4, <2>5, GuardsFrame
<1>6. QED
  BY <1>3, <1>4, <1>5 DEF IInv

\* The far end touches neither the flag nor the operations.
LEMMA PeerInv == ASSUME IInv, PeerSends \/ PeerTakes \/ PeerCloses PROVE IInv'
<1>1. op' = op /\ sent' = sent /\ nonblock' = nonblock /\ asked' = asked /\ mixed' = mixed
  BY DEF PeerSends, PeerTakes, PeerCloses
<1>2. IOTypeOK'
  <2>1. in' \in Nat /\ out' \in Nat
    BY DEF IInv, IOTypeOK, PeerSends, PeerTakes, PeerCloses
  <2>2. moves \in Nat /\ moves' = moves + 1
    BY DEF IInv, IOTypeOK, PeerSends, PeerTakes, PeerCloses, PeerMoves
  <2>4. peer' \in BOOLEAN
    BY Zenon DEF IInv, IOTypeOK, PeerSends, PeerTakes, PeerCloses
  <2>3. calls' = calls /\ signals' = signals /\ kills' = kills
    BY DEF PeerSends, PeerTakes, PeerCloses
  <2>5. QED
    BY <1>1, <2>1, <2>2, <2>3, <2>4 DEF IInv, IOTypeOK
<1>3. GuardSteps' /\ NoWaitWaitsNot' /\ InTransfer' /\ WriteCounts'
  BY <1>1, Same
<1>4. GuardsAlone'
  BY <1>1, GuardsFrame DEF Guarded, At
<1>5. QED
  BY <1>2, <1>3, <1>4 DEF IInv

\* Every step keeps the invariant.
LEMMA InvStep == IInv /\ [IONext]_ioVars => IInv'
<1> SUFFICES ASSUME IInv, [IONext]_ioVars PROVE IInv'
  OBVIOUS
<1>1. CASE UNCHANGED ioVars
  <2>1. IOTypeOK' /\ op' = op /\ sent' = sent /\ nonblock' = nonblock /\ asked' = asked
        /\ mixed' = mixed
    BY <1>1 DEF IInv, IOTypeOK, ioVars
  <2>2. QED
    BY <2>1, Same, GuardsFrame DEF IInv, Guarded, At
<1>2. CASE IONext
  <2>1. CASE PeerSends \/ PeerTakes \/ PeerCloses
    BY <2>1, PeerInv
  <2>2. ASSUME NEW p \in Forks,
               \/ \E do \in Reads \cup Writes, n, i \in BOOLEAN : Start(p, do, n, i)
               \/ GuardGets(p) \/ GuardSets(p) \/ GuardDrops(p)
               \/ CallRead(p) \/ CallWrite(p) \/ Wakes(p) \/ Interrupted(p) \/ Killed(p)
               \/ \E b \in BOOLEAN : Setfl(p, b)
        PROVE  IInv'
    BY <2>2, StartInv, GuardGetsInv, GuardSetsInv, GuardDropsInv, CallReadInv, CallWriteInv,
       WakesInv, InterruptedInv, KilledInv, SetflInv
  <2>3. QED
    BY <1>2, <2>1, <2>2 DEF IONext
<1>3. QED
  BY <1>1, <1>2

\* The invariant holds in every state.
LEMMA InvHolds == IOSpec => []IInv
  BY InvInit, InvStep, PTL DEF IOSpec

------------------------------------------------------------------------------
(* The theorems. *)

\* The flags of the description are what the script set when no guard is held and none
\* has met another one, a setfl or a kill: `read -n` puts back what it found.
THEOREM FlagRestoredHolds == IOSpec => []FlagRestored
<1>1. IInv => FlagRestored
  BY DEF IInv, GuardsAlone, FlagRestored
<1>2. QED
  BY <1>1, InvHolds, PTL

\* `recv -n` never waits; `read -n` only when its O_NONBLOCK was taken back.
THEOREM NoWaitHolds == IOSpec => []NoWaitWaitsNot
<1>1. IInv => NoWaitWaitsNot
  BY DEF IInv
<1>2. QED
  BY <1>1, InvHolds, PTL

\* What write and send tell is what went out.
THEOREM WriteCountsHolds == IOSpec => []WriteCounts
<1>1. IInv => WriteCounts
  BY DEF IInv
<1>2. QED
  BY <1>1, InvHolds, PTL

\* A system call without -n fails with EAGAIN only if O_NONBLOCK is set.
LEMMA AgainIsNonblock ==
  ASSUME IOTypeOK, IONext, NEW p \in Forks,
         ~op[p].n, op[p].res # "EAGAIN", op'[p].res = "EAGAIN"
  PROVE  nonblock
<1>1. ASSUME NEW q \in Forks, NEW step \in Steps, Goto(q, step) PROVE FALSE
  BY <1>1, GotoOp
<1>2. ASSUME NEW q \in Forks, NEW res \in Results, NEW total \in Nat, Ends(q, res, total)
      PROVE  q = p /\ res = "EAGAIN"
  BY <1>2, EndsOp
<1>3. ASSUME NEW q \in Forks, NEW part \in Nat, Written(q, part) PROVE FALSE
  BY <1>3, WrittenOp
<1>4. op' # op
  OBVIOUS
<1>5. \A q \in Forks : op[q].total \in Nat /\ op[q].part \in Nat
  BY Fields
<1>6. PICK q \in Forks :
        \/ \E do \in Reads \cup Writes, n, i \in BOOLEAN : Start(q, do, n, i)
        \/ GuardGets(q) \/ GuardSets(q) \/ GuardDrops(q)
        \/ CallRead(q) \/ CallWrite(q) \/ Wakes(q) \/ Interrupted(q) \/ Killed(q)
        \/ \E b \in BOOLEAN : Setfl(q, b)
  BY <1>4 DEF IONext, PeerSends, PeerTakes, PeerCloses
<1>7. CASE \E do \in Reads \cup Writes, n, i \in BOOLEAN : Start(q, do, n, i)
  BY <1>7 DEF Start, IOTypeOK, Idle
<1>8. CASE GuardGets(q)
  BY <1>8 DEF GuardGets, IOTypeOK, Operation
<1>9. CASE GuardSets(q) \/ GuardDrops(q) \/ Wakes(q) \/ Killed(q)
  BY <1>1, <1>9 DEF GuardSets, GuardDrops, Wakes, Killed, Steps
<1>10. CASE CallRead(q)
  <2>1. ~Goto(q, "blocked") /\ ~Ends(q, "ok", 1) /\ ~Ends(q, "eof", 0)
    BY <1>1, <1>2 DEF Steps, Results
  <2>2. NoWait(q) /\ Ends(q, IF op[q].n /\ op[q].do # "splice" THEN "empty" ELSE "EAGAIN", 0)
    BY <1>10, <2>1 DEF CallRead
  <2>3. q = p
    BY <1>2, <2>2 DEF Results
  <2>4. QED
    BY <2>2, <2>3 DEF NoWait
<1>11. CASE CallWrite(q)
  <2>1. ~Goto(q, "blocked") /\ ~Ends(q, "EPIPE", op[q].total) /\ \A k \in Nat : ~Written(q, k)
    BY <1>1, <1>2, <1>3, <1>5 DEF Steps, Results
  <2>2. \A k \in 1..(Amount - op[q].total - op[q].part) :
          /\ op[q].part + k \in Nat
          /\ op' # [op EXCEPT ![q].part = @ + k]
    <3> SUFFICES ASSUME NEW k \in 1..(Amount - op[q].total - op[q].part)
                 PROVE  op[q].part + k \in Nat /\ op' # [op EXCEPT ![q].part = @ + k]
      OBVIOUS
    <3>1. op[q].part + k \in Nat
      BY <1>5, DescriptorIOAssumption
    <3>2. [op EXCEPT ![q].part = @ + k][p].res = op[p].res
      BY DEF IOTypeOK, Operation
    <3>3. QED
      BY <3>1, <3>2
  <2>3. Ends(q, "EAGAIN", op[q].total) => nonblock
    BY <1>11, <2>1, <2>2, <1>5 DEF CallWrite
  <2>4. QED
    BY <1>11, <2>1, <2>2, <2>3, <1>5 DEF CallWrite
<1>12. CASE Interrupted(q)
  <2>1. ~Goto(q, "call") /\ ~Written(q, op[q].part) /\ ~Ends(q, "EINTR", op[q].total)
    BY <1>1, <1>2, <1>3, <1>5 DEF Steps, Results
  <2>2. QED
    BY <1>12, <2>1 DEF Interrupted
<1>13. CASE \E b \in BOOLEAN : Setfl(q, b)
  BY <1>4, <1>13 DEF Setfl
<1>14. QED
  BY <1>6, <1>7, <1>8, <1>9, <1>10, <1>11, <1>12, <1>13

\* A call without -n fails with EAGAIN only if the script made the description
\* non-blocking, or `read -n` of another process did.
THEOREM PlainAgainHolds == IOSpec => PlainAgain
<1> DEFINE Again == \A p \in Forks : ~op[p].n /\ op[p].res # "EAGAIN" /\ op'[p].res = "EAGAIN"
                      => asked \/ mixed \/ OtherGuards(p)
<1>1. IInv /\ [IONext]_ioVars => [Again]_ioVars
  <2> SUFFICES ASSUME IInv, IONext, NEW p \in Forks,
                      ~op[p].n, op[p].res # "EAGAIN", op'[p].res = "EAGAIN"
               PROVE  asked \/ mixed \/ OtherGuards(p)
    BY DEF ioVars
  <2>1. nonblock /\ ~Guarded(p)
    BY AgainIsNonblock DEF IInv, Guarded
  <2>2. QED
    BY <2>1 DEF IInv, GuardsAlone, OtherGuards
<1>2. QED
  BY <1>1, InvHolds, PTL DEF IOSpec, PlainAgain

==============================================================================
