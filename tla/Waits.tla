------------------------------- MODULE Waits -------------------------------
(***************************************************************************)
(* A shell that waits: poll, epoll wait, accept -t and sleep, interrupted  *)
(* by signals, on eventfds, a timerfd and listening sockets that children  *)
(* share.  What a wait finds ready may be taken by a child before the      *)
(* shell acts on it.  epoll knows a description, the script a number: when *)
(* the script closes the number, a child or another number of the shell    *)
(* may keep the description.                                               *)
(***************************************************************************)
EXTENDS Integers, FiniteSets, Sequences, SequencesExt

CONSTANTS Descs, Timer, \* open file descriptions; one of them is a timerfd
          Fds, NoDesc,  \* numbers of the shell; a free number
          Watched,      \* the sets of numbers given to poll and accept
          First,        \* the description each number has at first
          MaxEv,        \* EPOLL_MAX_EVENTS
          MaxCount,     \* the largest value of an eventfd
          Times, Values, \* timeouts of waits; times a timerfd is set to
          MaxOps, MaxKid, MaxSignals, MaxTicks \* bounds

ASSUME WaitsAssumption ==
  /\ Timer \in Descs /\ NoDesc \notin Descs
  /\ First \in [Fds -> Descs]
  /\ Watched \subseteq SUBSET Fds
  /\ MaxEv \in Nat \ {0} /\ MaxCount \in Nat \ {0} /\ Times \subseteq Nat /\ Values \subseteq Nat
  /\ MaxOps \in Nat /\ MaxKid \in Nat /\ MaxSignals \in Nat /\ MaxTicks \in Nat

VARIABLES
  tab,      \* what the numbers of the shell refer to
  held,     \* descriptions children keep open
  counter,  \* counter of an eventfd, expirations of a timerfd, connections of a socket
  timer,    \* time to the next expiry, and the interval
  interest, \* the interest set of the epoll instance
  rlist,    \* its ready list
  wanted,   \* history: what the script has added, and neither deleted nor closed
  shut,     \* history: what it has closed, not deleted, and epoll has not forgotten
  op,       \* the subcommand the shell is inside of
  ops, kid, signals, ticks \* counters of the bounds

kernel == <<tab, held, counter, timer, interest, rlist, wanted, shut>>
bounds == <<ops, kid, signals, ticks>>
waitsVars == <<kernel, op, bounds>>

Forever == -1
\* An item of epoll: the number used to add it and its description, the number that add
\* or mod left to be told, edge-triggered or not.
Item == [fd : Fds, d : Descs, data : Fds, et : BOOLEAN]
None == [do |-> "none", at |-> "idle", fds |-> {}, i |-> FALSE, time |-> 0, left |-> 0,
         waited |-> 0, again |-> 0, found |-> {}, due |-> {}, stolen |-> FALSE, res |-> ""]

\* Children may exist already; eventfds start with what create gave them, and a timerfd
\* may have expired.
WaitsInit ==
  /\ tab = First
  /\ held \in {{}, {First[fd] : fd \in Fds}}
  /\ \E set \in SUBSET {First[fd] : fd \in Fds} :
       counter = [d \in Descs |-> IF d \in set THEN 1 ELSE 0]
  /\ timer = [value |-> 0, interval |-> 0]
  /\ interest = {} /\ rlist = <<>> /\ wanted = {} /\ shut = {} /\ op = None
  /\ ops = 0 /\ kid = 0 /\ signals = 0 /\ ticks = 0

Readable(d) == counter[d] > 0
Open == {fd \in Fds : tab[fd] # NoDesc}
IsIdle == op.at = "idle"

\* The shell calls a subcommand; most do not wait.
Called == IsIdle /\ ops < MaxOps /\ ops' = ops + 1 /\ UNCHANGED <<kid, signals, ticks>>
Op == Called /\ op' = None

\* ep_poll_callback: items whose description became ready enter the list.
Notified(list, items) ==
  list \o SetToSeq({it \in items : \A k \in 1..Len(list) : list[k] # it})
ItemsOf(d) == {it \in interest : it.d = d}
\* The k-th of some places in a list, and what is at those places, in the order of the list.
Nth(places, k) == CHOOSE i \in places : Cardinality({j \in places : j <= i}) = k
Chosen(list, places) == [k \in 1..Cardinality(places) |-> list[Nth(places, k)]]
Without(list, gone) == Chosen(list, {k \in 1..Len(list) : list[k] \notin gone})

-----------------------------------------------------------------------------
(* epoll add, mod and del; the events are r, with t for edge-triggered. *)

Added(it) == /\ interest' = interest \cup {it}
             /\ rlist' = IF Readable(it.d) THEN Notified(rlist, {it}) ELSE rlist

\* EPOLL_CTL_ADD; EEXIST when this number and description are there.
EpollAdd(fd, et) ==
  /\ Op /\ fd \in Open
  /\ \A it \in interest : ~(it.fd = fd /\ it.d = tab[fd])
  /\ Added([fd |-> fd, d |-> tab[fd], data |-> fd, et |-> et])
  /\ wanted' = wanted \cup {<<fd, tab[fd]>>}
  /\ UNCHANGED <<tab, held, counter, timer, shut>>

\* EPOLL_CTL_MOD: the item changes and, when ready, is listed anew.
Modified(fd, it, new) ==
  /\ it.fd = fd /\ it.d = tab[fd]
  /\ interest' = (interest \ {it}) \cup {new}
  /\ LET list == [k \in 1..Len(rlist) |-> IF rlist[k] = it THEN new ELSE rlist[k]]
     IN rlist' = IF Readable(it.d) THEN Notified(list, {new}) ELSE list
  /\ UNCHANGED <<tab, held, counter, timer, wanted, shut>>

\* Mutant of EpollMod: the number to be told is not filled in.
EpollModZero(fd, et) ==
  /\ Op /\ fd \in Open
  /\ \E it \in interest : Modified(fd, it, [it EXCEPT !.et = et, !.data = 0])

\* The number to be told is filled in again.
EpollMod(fd, et) ==
  /\ Op /\ fd \in Open
  /\ \E it \in interest : Modified(fd, it, [it EXCEPT !.et = et, !.data = fd])

\* EPOLL_CTL_DEL, by the number and what it refers to now.
EpollDel(fd) ==
  /\ Op /\ fd \in Open
  /\ LET gone == {it \in interest : it.fd = fd /\ it.d = tab[fd]}
     IN /\ gone # {}
        /\ interest' = interest \ gone /\ rlist' = Without(rlist, gone)
  /\ wanted' = wanted \ {<<fd, tab[fd]>>} /\ shut' = shut \ {<<fd, tab[fd]>>}
  /\ UNCHANGED <<tab, held, counter, timer>>

\* The last descriptor of some descriptions is closed: epoll forgets them.
Forget(ds) == LET gone == {it \in interest : it.d \in ds}
              IN /\ interest' = interest \ gone /\ rlist' = Without(rlist, gone)
                 /\ shut' = {pair \in shut : pair[2] \notin ds}

\* A child, or another number of the shell, has the description of a number.
Kept(fd) == tab[fd] \in held \/ \E other \in Fds \ {fd} : tab[other] = tab[fd]

\* close FD
Close(fd) ==
  /\ Op /\ fd \in Open
  /\ tab' = [tab EXCEPT ![fd] = NoDesc] /\ wanted' = wanted \ {<<fd, tab[fd]>>}
  /\ IF Kept(fd)
     THEN shut' = shut \cup ({<<fd, tab[fd]>>} \cap wanted) /\ UNCHANGED <<interest, rlist>>
     ELSE Forget({tab[fd]})
  /\ UNCHANGED <<held, counter, timer>>

\* A free number is used for another description.
Reuse(fd, d) ==
  /\ Op /\ fd \notin Open
  /\ d \notin held \cup {Timer} /\ \A other \in Fds : tab[other] # d
  /\ tab' = [tab EXCEPT ![fd] = d] /\ counter' = [counter EXCEPT ![d] = 0]
  /\ UNCHANGED <<held, timer, interest, rlist, wanted, shut>>

\* fcntl dup, or a redirection: a free number for a description that has one.
Dup(from, fd) ==
  /\ Op /\ from \in Open /\ fd \notin Open
  /\ tab' = [tab EXCEPT ![fd] = tab[from]]
  /\ UNCHANGED <<held, counter, timer, interest, rlist, wanted, shut>>

\* The shell forks a child that keeps its descriptors; the children end.
Fork ==
  /\ Op /\ held' = held \cup {tab[fd] : fd \in Open}
  /\ UNCHANGED <<tab, counter, timer, interest, rlist, wanted, shut>>
ChildrenEnd ==
  /\ held # {} /\ held' = {}
  /\ Forget(held \ {tab[fd] : fd \in Open})
  /\ op' = [op EXCEPT !.due = @ \cap interest']
  /\ UNCHANGED <<tab, counter, timer, wanted, bounds>>

-----------------------------------------------------------------------------
(* The counters. *)

\* timerfd create -s -i, or timerfd set: both values replace what was there, and a
\* value of 0 disarms the timer, whatever the interval.
TimerfdSet(s, i) ==
  /\ Op /\ s + i > 0
  /\ timer' = [value |-> s, interval |-> i]
  /\ counter' = [counter EXCEPT ![Timer] = 0]
  /\ UNCHANGED <<tab, held, interest, rlist, wanted, shut>>

\* A child's eventfd write, or a client that connects.
KidWrites(d) ==
  /\ d \in held \ {Timer} /\ counter[d] < MaxCount /\ kid < MaxKid
  /\ counter' = [counter EXCEPT ![d] = @ + 1] /\ kid' = kid + 1
  /\ rlist' = Notified(rlist, ItemsOf(d))
  /\ UNCHANGED <<tab, held, timer, interest, wanted, shut, op, ops, signals, ticks>>

\* A child's eventfd read (all of it, or 1 with -s), timerfd read or accept.
KidTakes(d, k) ==
  /\ d \in held /\ k \in {1, counter[d]} /\ Readable(d) /\ kid < MaxKid
  /\ counter' = [counter EXCEPT ![d] = @ - k] /\ kid' = kid + 1
  /\ op' = [op EXCEPT !.stolen = @ \/ (op.at = "accept" /\ \E fd \in op.fds : tab[fd] = d),
                      !.due = IF counter[d] = k THEN {it \in @ : it.d # d} ELSE @]
  /\ UNCHANGED <<tab, held, timer, interest, rlist, wanted, shut, ops, signals, ticks>>

\* The shell's own eventfd read; only when it need not wait.
EventfdRead(fd, k) ==
  /\ Op /\ fd \in Open /\ Readable(tab[fd]) /\ k \in {1, counter[tab[fd]]}
  /\ counter' = [counter EXCEPT ![tab[fd]] = @ - k]
  /\ UNCHANGED <<tab, held, timer, interest, rlist, wanted, shut>>

\* The shell's own eventfd write.
EventfdWrite(fd) ==
  /\ Op /\ fd \in Open /\ tab[fd] # Timer /\ counter[tab[fd]] < MaxCount
  /\ counter' = [counter EXCEPT ![tab[fd]] = @ + 1]
  /\ rlist' = Notified(rlist, ItemsOf(tab[fd]))
  /\ UNCHANGED <<tab, held, timer, interest, wanted, shut>>

-----------------------------------------------------------------------------
(* The waits. *)

\* poll, epoll wait, accept and sleep begin; accept without -t goes to accept(2).
Wait(do, fds, i, time) ==
  /\ Called
  /\ do = "epoll" => ~i
  /\ do = "accept" => ~i /\ \E fd \in Fds : fds = {fd} /\ tab[fd] \notin {NoDesc, Timer}
  /\ do \in {"epoll", "sleep"} <=> fds = {}
  /\ do = "sleep" => time # Forever
  /\ op' = [None EXCEPT !.do = do, !.fds = fds, !.i = i, !.time = time, !.left = time,
              !.at = IF do = "accept" /\ time = Forever THEN "accept" ELSE "wait"]
  /\ UNCHANGED kernel

Returns(res, found) == op' = [op EXCEPT !.at = "idle", !.res = res, !.found = found]
\* Numbers of a poll that have something to report; a closed one reports n.
Ready == {fd \in op.fds : tab[fd] = NoDesc \/ Readable(tab[fd])}

PollReady ==
  /\ op.at = "wait" /\ Ready # {}
  /\ \/ op.do = "poll" /\ Returns("ready", Ready)
     \/ /\ op.do = "accept"
        /\ op' = [op EXCEPT !.at = "accept"]
  /\ UNCHANGED <<kernel, bounds>>

\* accept(2), which waits as long as it takes.
Accepted ==
  /\ op.at = "accept" /\ Ready # {}
  /\ counter' = [d \in Descs |->
                   IF \E fd \in op.fds : tab[fd] = d THEN counter[d] - 1 ELSE counter[d]]
  /\ Returns("ready", op.fds)
  /\ UNCHANGED <<tab, held, timer, interest, rlist, wanted, shut, bounds>>

\* epoll_wait looks at the list until it has found MaxEv items that are still ready.  What
\* was not looked at stays in front; level-triggered items go to the end of the list again.
Live(it) == Readable(it.d)
LiveAmong(n) == {k \in 1..n : Live(rlist[k])}
Full == Cardinality(LiveAmong(Len(rlist))) >= MaxEv
Looked == IF Full THEN Nth(LiveAmong(Len(rlist)), MaxEv) ELSE Len(rlist)
Reported == {rlist[k] : k \in LiveAmong(Looked)}
Collected == rlist' = SubSeq(rlist, Looked + 1, Len(rlist))
                        \o Chosen(rlist, {k \in LiveAmong(Looked) : ~rlist[k].et})

\* The first call: with a full buffer there may be more, so it drains.
EpollReady ==
  /\ op.do = "epoll" /\ op.at = "wait" /\ Reported # {}
  /\ Collected
  /\ op' = [op EXCEPT !.found = Reported, !.due = {rlist[k] : k \in LiveAmong(Len(rlist))},
              !.at = IF Full THEN "drain" ELSE "idle", !.res = IF Full THEN "" ELSE "ready"]
  /\ UNCHANGED <<tab, held, counter, timer, interest, wanted, shut, bounds>>

\* Mutant of EpollDrains: there is no second call.
EpollDrainsNot ==
  /\ op.at = "drain" /\ Returns("ready", op.found)
  /\ UNCHANGED <<kernel, bounds>>

\* Mutant of EpollDrains: the count of the first call is tested again.
EpollDrainsOn ==
  /\ op.at = "drain"
  /\ Collected
  /\ op' = [op EXCEPT !.found = @ \cup Reported]
  /\ UNCHANGED <<tab, held, counter, timer, interest, wanted, shut, bounds>>

\* A further call, that does not wait; with another full buffer the loop goes on.
EpollDrains ==
  /\ op.at = "drain"
  /\ Collected
  /\ op' = [op EXCEPT !.found = @ \cup Reported,
              !.at = IF Full THEN "drain" ELSE "idle", !.res = IF Full THEN "" ELSE "ready"]
  /\ UNCHANGED <<tab, held, counter, timer, interest, wanted, shut, bounds>>

\* The time is over; a sleep is done.
TimedOut ==
  /\ op.at = "wait" /\ op.left = 0 /\ Ready = {}
  /\ op.do = "epoll" => Reported = {}
  /\ Returns(IF op.do = "sleep" THEN "ready" ELSE "timeout", {})
  /\ UNCHANGED <<kernel, bounds>>

\* Mutant of Resumed: a sleep starts again too.
ResumedWhole(o) == [o EXCEPT !.left = o.time, !.again = @ + 1]

\* After EINTR: sleep goes on with what remained, poll starts again with all of it.
Resumed(o) == IF o.do = "sleep" THEN o ELSE [o EXCEPT !.left = o.time, !.again = @ + 1]

\* A signal: poll and sleep go on unless -i, the others fail.
Interrupted ==
  /\ op.at \in {"wait", "accept"} /\ signals < MaxSignals /\ signals' = signals + 1
  /\ IF op.do \in {"poll", "sleep"} /\ ~op.i THEN op' = Resumed(op) ELSE Returns("EINTR", {})
  /\ UNCHANGED <<kernel, ops, kid, ticks>>

\* The wait is over: the shell goes on before time passes.
Over == \/ op.at = "wait" /\ op.left = 0
        \/ op.at \in {"wait", "accept"} /\ Ready # {}
        \/ op.at = "wait" /\ op.do = "epoll" /\ Reported # {}
        \/ op.at = "drain"

\* Time passes.
Tick ==
  /\ ticks < MaxTicks /\ ticks' = ticks + 1
  /\ ~Over
  /\ op' = IF op.at \in {"wait", "accept"}
           THEN [op EXCEPT !.waited = @ + 1, !.left = IF @ > 0 /\ op.at = "wait" THEN @ - 1 ELSE @]
           ELSE op
  /\ IF timer.value = 1 /\ (Timer \in held \/ \E fd \in Fds : tab[fd] = Timer)
     THEN /\ timer' = [timer EXCEPT !.value = timer.interval]
          /\ counter' = [counter EXCEPT ![Timer] = IF @ < MaxCount THEN @ + 1 ELSE @]
          /\ rlist' = Notified(rlist, ItemsOf(Timer))
     ELSE /\ timer' = [timer EXCEPT !.value = IF @ > 1 THEN @ - 1 ELSE @]
          /\ UNCHANGED <<counter, rlist>>
  /\ UNCHANGED <<tab, held, interest, wanted, shut, ops, kid, signals>>

Ctl ==
  \/ \E fd \in Fds, et \in BOOLEAN : EpollAdd(fd, et) \/ EpollMod(fd, et)
  \/ \E fd \in Fds : EpollDel(fd) \/ Close(fd) \/ EventfdWrite(fd)
  \/ \E from, fd \in Fds : Dup(from, fd)
  \/ \E fd \in Fds, d \in Descs : Reuse(fd, d)
  \/ \E fd \in Fds, k \in 1..MaxCount : EventfdRead(fd, k)
  \/ \E s, i \in Values : TimerfdSet(s, i)
WaitsNext ==
  \/ Ctl \/ Fork \/ ChildrenEnd
  \/ \E d \in Descs : KidWrites(d) \/ \E k \in 1..MaxCount : KidTakes(d, k)
  \/ \E do \in {"poll", "epoll", "accept", "sleep"}, fds \in Watched \cup {{}}, i \in BOOLEAN,
        time \in {Forever} \cup Times : Wait(do, fds, i, time)
  \/ PollReady \/ Accepted \/ EpollReady \/ EpollDrains \/ TimedOut \/ Interrupted \/ Tick

WaitsSpec == WaitsInit /\ [][WaitsNext]_waitsVars
\* The shell runs: what it can do next inside a subcommand it does.
WaitsFairSpec ==
  /\ WaitsSpec
  /\ WF_waitsVars(PollReady \/ EpollReady \/ TimedOut) /\ WF_waitsVars(EpollDrains)

-----------------------------------------------------------------------------
(* What must hold. *)

\* The state has its type.
WaitsTypeOK ==
  /\ tab \in [Fds -> Descs \cup {NoDesc}] /\ held \subseteq Descs
  /\ counter \in [Descs -> 0..MaxCount]
  /\ timer \in [value : Nat, interval : Nat]
  /\ wanted \subseteq Fds \X Descs /\ shut \subseteq Fds \X Descs
  /\ interest \subseteq Item /\ rlist \in Seq(interest)

\* epoll wait tells of everything that was listed as ready when its first call found
\* something and is open and ready still, however many calls it takes (cmd_epoll.rs:88).
DrainComplete ==
  op.do = "epoll" /\ op.res = "ready" => op.due \subseteq op.found

\* What epoll wait tells is a number the script has registered, for the description it
\* has still, unless the script closed the number without epoll del and the description is
\* open elsewhere: in a child, or as another number or the same one again.
ReportsAreCurrent ==
  [][op.do = "epoll" /\ op'.found # op.found /\ op'.do = "epoll" =>
       \A it \in op'.found \ op.found :
         \/ <<it.data, it.d>> \in wanted /\ tab[it.data] = it.d
         \/ <<it.data, it.d>> \in shut /\ (it.d \in held \/ \E fd \in Fds : tab[fd] = it.d)]_waitsVars

\* A sleep takes its time, no less and no more, however often it is interrupted; a wait
\* that times out has taken its time, and each interruption of a poll may add all of it
\* again; accept -t waits for longer than it was told only when a child took the
\* connection poll saw.
WaitTimes ==
  /\ op.do = "sleep" /\ op.res = "ready" => op.waited = op.time
  /\ op.res = "timeout" => op.waited >= op.time /\ op.waited <= op.time * (1 + op.again)
  /\ op.do = "accept" /\ op.time # Forever /\ op.waited > op.time => op.stolen

\* A drain ends unless as many descriptors stay ready as one call can tell.
DrainEnds ==
  op.at = "drain" ~> \/ op.at # "drain"
                     \/ Cardinality({it \in interest : ~it.et /\ Live(it)}) >= MaxEv
=============================================================================
