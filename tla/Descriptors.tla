---------------------------- MODULE Descriptors ----------------------------
(***************************************************************************)
(* The descriptor tables of a script's processes.  Every subcommand that   *)
(* makes a descriptor takes the number the kernel gives, moves it to       *)
(* L_FD_MIN or above (ensure_high_fd) because bash takes 0 away from       *)
(* asynchronous children, and tells the script the number in a variable.   *)
(* Readonly names are refused before, so setting it fails only for such as *)
(* a nameref that leads nowhere.  The script closes, duplicates, marks and *)
(* forks; a child may become a program.  The dispatcher unpacks the        *)
(* library into a memfd of its own at the first call.                      *)
(***************************************************************************)
EXTENDS Integers, FiniteSets

CONSTANTS Procs, Shell, \* processes, and the one that starts
          Descs,        \* open file descriptions the subcommands make
          Std, Null,    \* the terminal; /dev/null
          Lib,          \* memfds of the dispatcher
          NoDesc,       \* a free number
          FdMin, MaxFd, \* L_FD_MIN and the limit of the process
          MaxOps        \* bound on operations

ASSUME DescriptorsAssumption ==
  /\ Shell \in Procs
  /\ NoDesc \notin Descs \cup {Std, Null, Lib}
  /\ Std # Null /\ Lib \notin {Std, Null} /\ {Std, Null, Lib} \cap Descs = {}
  /\ FdMin \in Nat /\ MaxFd \in Nat /\ 2 < FdMin /\ FdMin <= MaxFd /\ MaxOps \in Nat

VARIABLES
  tab,    \* of each process: what a number refers to, and its FD_CLOEXEC
  told,   \* history: the descriptors the script of each process knows
  lost,   \* history: open, but the variable could not be set
  alive, async, programs, \* processes; started with &; replaced by exec
  loaded, \* processes where FUNC of the dispatcher is set
  dropped,\* history: processes where a pipe that failed closed 0
  ops

vars == <<tab, told, lost, alive, async, programs, loaded, dropped, ops>>

Fds == 0..MaxFd
NoFd == -1
Closed == [d |-> NoDesc, c |-> FALSE]
Entry == [d : Descs \cup {Std, Null, Lib, NoDesc}, c : BOOLEAN]

IsOpen(t, fd) == fd \in Fds /\ t[fd].d # NoDesc

\* What the script knows: number, description, where from, whether FD_CLOEXEC was
\* asked for, and whether the kernel's own number was high already.
Known == [fd : Fds, d : Descs \cup {Std, Lib}, by : {"std", "connect", "dup", "made"},
          c : BOOLEAN, high : BOOLEAN]

\* The kernel's choice: the lowest free number that is at least `from`.
LowestFree(t, from) ==
  LET free == {fd \in Fds : fd >= from /\ t[fd].d = NoDesc}
  IN IF free = {} THEN NoFd ELSE CHOOSE fd \in free : \A other \in free : fd <= other

Opened(t, fd, d, c) == [t EXCEPT ![fd] = [d |-> d, c |-> c]]
Shut(t, fd) == [t EXCEPT ![fd] = Closed]

\* Mutant of EnsureHigh: the old number is returned.
EnsureOld(t, fd, c) ==
  IF fd >= FdMin THEN [tab |-> t, fd |-> fd]
  ELSE LET new == LowestFree(t, FdMin)
       IN [tab |-> IF new = NoFd THEN Shut(t, fd)
                   ELSE Shut(Opened(t, new, t[fd].d, c), fd),
           fd |-> IF new = NoFd THEN NoFd ELSE fd]

\* Mutant of EnsureHigh: the original stays open.
EnsureBoth(t, fd, c) ==
  IF fd >= FdMin THEN [tab |-> t, fd |-> fd]
  ELSE LET new == LowestFree(t, FdMin)
       IN [tab |-> IF new = NoFd THEN t ELSE Opened(t, new, t[fd].d, c), fd |-> new]

\* Mutant of EnsureHigh: F_DUPFD whatever the caller asked for.
EnsurePlain(t, fd, c) ==
  IF fd >= FdMin THEN [tab |-> t, fd |-> fd]
  ELSE LET new == LowestFree(t, FdMin)
       IN [tab |-> IF new = NoFd THEN Shut(t, fd)
                   ELSE Shut(Opened(t, new, t[fd].d, FALSE), fd),
           fd |-> new]

\* ensure_high_fd: a high number is returned as it is, FD_CLOEXEC included; a low
\* one is duplicated and closed, and closed too when there is no high number left.
EnsureHigh(t, fd, c) ==
  IF fd >= FdMin THEN [tab |-> t, fd |-> fd]
  ELSE LET new == LowestFree(t, FdMin)
       IN [tab |-> IF new = NoFd THEN Shut(t, fd)
                   ELSE Shut(Opened(t, new, t[fd].d, c), fd),
           fd |-> new]

Init ==
  /\ alive = {Shell} /\ async = {} /\ programs = {} /\ loaded = {} /\ dropped = {}
  /\ tab = [p \in Procs |-> [fd \in Fds |-> IF p = Shell /\ fd <= 2 THEN [d |-> Std, c |-> FALSE]
                                           ELSE Closed]]
  /\ told = [p \in Procs |-> IF p = Shell
               THEN {[fd |-> fd, d |-> Std, by |-> "std", c |-> FALSE, high |-> FALSE] : fd \in 0..2}
               ELSE {}]
  /\ lost = [p \in Procs |-> {}]
  /\ ops = 0

\* A shell of p runs one more subcommand.
Op(p) == /\ p \in alive \ programs /\ ops < MaxOps
         /\ ops' = ops + 1
         /\ UNCHANGED <<alive, async, programs, loaded>>

Fresh(d) == d \in Descs /\ \A p \in Procs, fd \in Fds : tab[p][fd].d # d

Table(p, t) == tab' = [tab EXCEPT ![p] = t]
Tell(p, k) == told' = [told EXCEPT ![p] = @ \cup k]

Bound(p, t, fd, d, by, c, high) ==
  /\ Table(p, t)
  /\ Tell(p, {[fd |-> fd, d |-> d, by |-> by, c |-> c, high |-> high]})
  /\ UNCHANGED <<lost, dropped>>
Leaked(p, t, fds) ==
  /\ Table(p, t) /\ lost' = [lost EXCEPT ![p] = @ \cup fds]
  /\ UNCHANGED <<told, dropped>>
Failed(p, t) == /\ Table(p, t) /\ UNCHANGED <<told, lost, dropped>>

\* The common course: the kernel's call makes a description with FD_CLOEXEC = bornC,
\* the number is made high, the variable is set or the fate of `unbound` is met.
Make(p, d, bornC, c, unbound) ==
  LET born == LowestFree(tab[p], 0)
      e == EnsureHigh(Opened(tab[p], born, d, bornC), born, c)
  IN /\ Op(p) /\ Fresh(d) /\ born # NoFd
     /\ IF e.fd = NoFd THEN Failed(p, e.tab)
        ELSE \/ Bound(p, e.tab, e.fd, d, "made", c, born >= FdMin)
             \/ unbound = "leaks"  /\ Leaked(p, e.tab, {e.fd})
             \/ unbound = "closes" /\ Failed(p, Shut(e.tab, e.fd))
             \* the guard closes the number the kernel gave, not the one in use
             \/ unbound = "closes raw" /\ IF born >= FdMin THEN Failed(p, Shut(e.tab, e.fd))
                                          ELSE Leaked(p, e.tab, {e.fd})

EventfdCreate(p, d, C) == Make(p, d, FALSE, ~C, "leaks")
Memfd(p, d, C)         == Make(p, d, FALSE, ~C, "leaks")
EpollCreate(p, d, C)   == Make(p, d, FALSE, ~C, "leaks")
Accept(p, d, C)        == Make(p, d, FALSE, ~C, "leaks")
Signalfd(p, d, C)      == Make(p, d, FALSE, ~C, "closes")
\* The port variable is set before the number is made high; failing there closes all.
Listen(p, d, C)        == Make(p, d, TRUE, ~C, "closes raw")
\* No -C; the descriptor is closed again when timerfd_settime fails.
TimerfdCreate(p, d) ==
  \/ Make(p, d, TRUE, TRUE, "leaks")
  \/ Make(p, d, TRUE, TRUE, "closes")

\* The TcpStream keeps its number, low or not, and closes it unless the variable is set.
Connect(p, d) ==
  LET born == LowestFree(tab[p], 0)
  IN /\ Op(p) /\ Fresh(d) /\ born # NoFd
     /\ \/ Bound(p, Opened(tab[p], born, d, TRUE), born, d, "connect", TRUE, FALSE)
        \/ Failed(p, tab[p])

\* PipeGuard starts as {0, 0}: when pipe(2) fails its drop closes 0.  When the second
\* end cannot be made high the guard closes the low numbers and the first end leaks.
\* The guard is disarmed before the array is prepared.
Pipe(p, r, w) ==
  LET t    == tab[p]
      fd0  == LowestFree(t, 0)
      t1   == Opened(t, fd0, r, FALSE)
      fd1  == LowestFree(t1, 0)
      e0   == EnsureHigh(Opened(t1, fd1, w, FALSE), fd0, TRUE)
      e1   == EnsureHigh(e0.tab, fd1, TRUE)
      high(fd) == fd >= FdMin
      Unguarded(u) == [fd \in Fds |-> IF fd \in {fd0, fd1} THEN Closed ELSE u[fd]]
  IN /\ Op(p) /\ Fresh(r) /\ Fresh(w) /\ r # w
     /\ IF fd0 = NoFd \/ fd1 = NoFd
        THEN /\ Table(p, Shut(t, 0)) /\ dropped' = dropped \cup {p}
             /\ UNCHANGED <<told, lost>>
        ELSE IF e0.fd = NoFd THEN Failed(p, Unguarded(e0.tab))
        ELSE IF e1.fd = NoFd
        THEN IF high(fd0) THEN Failed(p, Unguarded(e1.tab))
             ELSE Leaked(p, Unguarded(e1.tab), {e0.fd})
        ELSE \/ /\ Table(p, e1.tab)
                /\ Tell(p, {[fd |-> e0.fd, d |-> r, by |-> "made", c |-> TRUE, high |-> high(fd0)],
                            [fd |-> e1.fd, d |-> w, by |-> "made", c |-> TRUE, high |-> high(fd1)]})
                /\ UNCHANGED <<lost, dropped>>
             \/ Leaked(p, e1.tab, {e0.fd, e1.fd})

\* fcntl dup FD [start]
Dup(p, fd, start, c) ==
  LET new == LowestFree(tab[p], start)
      t == Opened(tab[p], new, tab[p][fd].d, c)
  IN /\ Op(p) /\ IsOpen(tab[p], fd) /\ new # NoFd /\ tab[p][fd].d # Null
     /\ \/ Bound(p, t, new, tab[p][fd].d, "dup", c, FALSE)
        \/ Leaked(p, t, {new})

\* fcntl setfd FD flags
Setfd(p, fd, c) ==
  /\ Op(p) /\ IsOpen(tab[p], fd)
  /\ Table(p, [tab[p] EXCEPT ![fd].c = c])
  /\ told' = [told EXCEPT ![p] = {[k EXCEPT !.c = IF k.fd = fd THEN c ELSE @,
                                           !.high = IF k.fd = fd THEN FALSE ELSE @] : k \in @}]
  /\ UNCHANGED <<lost, dropped>>

\* close FD...: in the order given, up to the first number that is not open.
CloseAll(p, first, second) ==
  LET both == IsOpen(tab[p], first) /\ second # first
      gone == {first} \cup (IF both /\ IsOpen(tab[p], second) THEN {second} ELSE {})
  IN /\ Op(p) /\ IsOpen(tab[p], first)
     /\ Table(p, [fd \in Fds |-> IF fd \in gone THEN Closed ELSE tab[p][fd]])
     /\ told' = [told EXCEPT ![p] = {k \in @ : k.fd \notin gone}]
     /\ lost' = [lost EXCEPT ![p] = @ \ gone]
     /\ UNCHANGED dropped

\* The first call of L_builtin: the library goes into a memfd, at the number the kernel
\* gives, that is never closed.  While writing, dlopen or dlsym fails FUNC stays unset
\* and the next call starts again with another one.
Load(p) ==
  LET born == LowestFree(tab[p], 0)
  IN /\ p \in alive \ (programs \cup loaded) /\ born # NoFd /\ ops < MaxOps
     /\ ops' = ops + 1
     /\ \E done \in BOOLEAN : loaded' = IF done THEN loaded \cup {p} ELSE loaded
     /\ Leaked(p, Opened(tab[p], born, Lib, TRUE), {born})
     /\ UNCHANGED <<alive, async, programs>>

\* bash forks a subshell; an asynchronous one reads /dev/null as stdin.
Fork(p, q, bg) ==
  /\ p \in alive \ programs /\ q \notin alive /\ ops < MaxOps
  /\ ops' = ops + 1 /\ alive' = alive \cup {q}
  /\ async' = IF bg \/ p \in async THEN async \cup {q} ELSE async
  /\ dropped' = IF p \in dropped THEN dropped \cup {q} ELSE dropped
  /\ tab' = [tab EXCEPT ![q] = IF bg THEN Opened(tab[p], 0, Null, FALSE) ELSE tab[p]]
  /\ told' = [told EXCEPT ![q] = told[p]]
  /\ lost' = [lost EXCEPT ![q] = lost[p]]
  /\ loaded' = IF p \in loaded THEN loaded \cup {q} ELSE loaded
  /\ UNCHANGED programs

\* execve in a child: the kernel closes what has FD_CLOEXEC.
Exec(p) ==
  /\ p \in alive \ (programs \cup {Shell})
  /\ programs' = programs \cup {p}
  /\ Table(p, [fd \in Fds |-> IF tab[p][fd].c THEN Closed ELSE tab[p][fd]])
  /\ UNCHANGED <<told, lost, alive, async, loaded, dropped, ops>>

Next ==
  \/ \E p \in Procs, d \in Descs, C \in BOOLEAN :
       \/ EventfdCreate(p, d, C) \/ Memfd(p, d, C) \/ EpollCreate(p, d, C)
       \/ Accept(p, d, C) \/ Signalfd(p, d, C) \/ Listen(p, d, C)
  \/ \E p \in Procs, d \in Descs : TimerfdCreate(p, d) \/ Connect(p, d)
  \/ \E p \in Procs, r, w \in Descs : Pipe(p, r, w)
  \/ \E p \in Procs, fd, other \in Fds : CloseAll(p, fd, other)
  \/ \E p \in Procs, fd \in Fds, c \in BOOLEAN :
       Setfd(p, fd, c) \/ \E start \in {0, FdMin} : Dup(p, fd, start, c)
  \/ \E p, q \in Procs, bg \in BOOLEAN : Fork(p, q, bg)
  \/ \E p \in Procs : Load(p) \/ Exec(p)

Spec == Init /\ [][Next]_vars

-----------------------------------------------------------------------------
(* What must hold. *)

\* The state has its type.
TypeOK ==
  /\ tab \in [Procs -> [Fds -> Entry]]
  /\ told \in [Procs -> SUBSET Known]
  /\ lost \in [Procs -> SUBSET Fds]
  /\ alive \subseteq Procs /\ async \subseteq Procs /\ programs \subseteq Procs
  /\ loaded \subseteq Procs /\ dropped \subseteq Procs
  /\ ops \in Nat

\* Bash and a failed pipe take 0 away; only what the script itself has there is hit.
TakenAway(p, k) == k.fd = 0 /\ k.by # "made" /\ p \in async \cup dropped

\* A number a script was told refers to the description it was told about, in its shell
\* and in all children, asynchronous ones too, until the script closes it: no later
\* call reuses it, and no made descriptor is in the range bash takes from.
ToldHolds ==
  \A p \in alive \ programs : \A k \in told[p] :
    \/ tab[p][k.fd].d = k.d
    \/ TakenAway(p, k)

\* Nothing stays open that no script knows of, except where the variable could not be
\* set, and the memfds of the dispatcher.
OpenIsTold ==
  \A p \in alive \ programs, fd \in Fds :
    IsOpen(tab[p], fd) => \/ fd \in lost[p]
                          \/ fd = 0 /\ p \in async
                          \/ \E k \in told[p] : k.fd = fd

\* A program started by a child gets none of the descriptors made without -C, unless the
\* kernel's own number was high: then ensure_high_fd leaves FD_CLOEXEC as it was.
ProgramsGetNoMore ==
  \A p \in programs : \A k \in told[p] :
    k.c /\ ~k.high => tab[p][k.fd].d # k.d \/ TakenAway(p, k)
=============================================================================
