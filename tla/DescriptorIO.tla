---------------------------- MODULE DescriptorIO ----------------------------
(***************************************************************************)
(* Processes that read, write, receive, send and splice through one open   *)
(* file description they share, as forked shells do.  O_NONBLOCK belongs   *)
(* to the description, so `read -n`, which sets it for one call and then   *)
(* puts back the flags it found (NonblockGuard), meets the calls and the   *)
(* guards of the others.  The far end sends, takes and closes on its own.  *)
(***************************************************************************)
EXTENDS Naturals

CONSTANTS Forks,     \* the processes that share the description
          Room,      \* units the description holds in each direction
          Amount,    \* units a write or send has to transfer
          MaxCalls, MaxSignals, MaxKills, MaxPeer \* bounds

ASSUME DescriptorIOAssumption ==
  /\ Room \in Nat \ {0} /\ Amount \in Nat \ {0}
  /\ MaxCalls \in Nat /\ MaxSignals \in Nat /\ MaxKills \in Nat /\ MaxPeer \in Nat

VARIABLES
  nonblock,  \* O_NONBLOCK of the description
  in, out,   \* units to be read; units written and not taken
  peer,      \* the far end is open
  op,        \* what each process does
  asked,     \* history: the O_NONBLOCK the script set with fcntl setfl
  mixed,     \* history: a guard met another one, a setfl or a kill
  sent,      \* history: units the operation of each process has put in `out`
  calls, signals, kills, moves \* counters of the bounds

ioVars == <<nonblock, in, out, peer, op, asked, mixed, sent, calls, signals, kills, moves>>

Reads  == {"read", "recv", "splice"}
Writes == {"write", "send"}
\* `part`: units the system call in progress has transferred; `total`: total_written.
Idle == [do |-> "none", n |-> FALSE, i |-> FALSE, at |-> "idle", saved |-> FALSE,
         part |-> 0, total |-> 0, res |-> ""]
Operation == [do : Reads \cup Writes \cup {"none"}, n : BOOLEAN, i : BOOLEAN,
              at : {"idle", "getfl", "setfl", "call", "blocked", "restore", "dead"},
              saved : BOOLEAN, part : Nat, total : Nat,
              res : {"", "ok", "empty", "eof", "short", "EAGAIN", "EINTR", "EPIPE"}]

IOInit ==
  /\ nonblock \in BOOLEAN /\ asked = nonblock
  /\ in = 0 /\ out = 0 /\ peer = TRUE
  /\ op = [p \in Forks |-> Idle] /\ sent = [p \in Forks |-> 0]
  /\ mixed = FALSE /\ calls = 0 /\ signals = 0 /\ kills = 0 /\ moves = 0

bounds == <<calls, signals, kills, moves>>
At(p, step) == op[p].at = step
Goto(p, step) == op' = [op EXCEPT ![p].at = step]
\* p holds flags it found and will put them back.
Guarded(p) == op[p].do = "read" /\ op[p].n /\ op[p].at \in {"setfl", "call", "blocked", "restore"}
OtherGuards(p) == \E q \in Forks \ {p} : Guarded(q)

-----------------------------------------------------------------------------
(* The subcommands. *)

\* read, recv, splice, write or send is called with its -n (nonblock) and -i.
Start(p, do, n, i) ==
  /\ At(p, "idle") /\ calls < MaxCalls /\ calls' = calls + 1
  /\ i => do \in {"read", "recv"}
  /\ op' = [op EXCEPT ![p] = [Idle EXCEPT !.do = do, !.n = n, !.i = i,
                                !.at = IF do = "read" /\ n THEN "getfl" ELSE "call"]]
  /\ sent' = [sent EXCEPT ![p] = 0]
  /\ UNCHANGED <<nonblock, in, out, peer, asked, mixed, signals, kills, moves>>

\* NonblockGuard::set, F_GETFL.
GuardGets(p) ==
  /\ At(p, "getfl")
  /\ op' = [op EXCEPT ![p].at = "setfl", ![p].saved = nonblock]
  /\ mixed' = (mixed \/ OtherGuards(p))
  /\ UNCHANGED <<nonblock, in, out, peer, asked, sent, bounds>>

\* Mutant of GuardSets: the flags found are set again.
GuardSetsFound(p) ==
  /\ At(p, "setfl") /\ nonblock' = op[p].saved
  /\ Goto(p, "call")
  /\ UNCHANGED <<in, out, peer, asked, mixed, sent, bounds>>

\* NonblockGuard::set, F_SETFL.
GuardSets(p) ==
  /\ At(p, "setfl") /\ nonblock' = TRUE
  /\ Goto(p, "call")
  /\ UNCHANGED <<in, out, peer, asked, mixed, sent, bounds>>

\* Mutant of GuardDrops: a call that finds nothing leaves without the drop.
GuardDropsUnlessEmpty(p) ==
  /\ At(p, "restore") /\ nonblock' = (IF op[p].res = "empty" THEN nonblock ELSE op[p].saved)
  /\ Goto(p, "idle")
  /\ UNCHANGED <<in, out, peer, asked, mixed, sent, bounds>>

\* NonblockGuard::drop, however the handler returns.
GuardDrops(p) ==
  /\ At(p, "restore") /\ nonblock' = op[p].saved
  /\ Goto(p, "idle")
  /\ UNCHANGED <<in, out, peer, asked, mixed, sent, bounds>>

\* The handler returns.
Ends(p, res, total) ==
  op' = [op EXCEPT ![p] = [@ EXCEPT !.res = res, !.total = total, !.part = 0,
                             !.at = IF Guarded(p) THEN "restore" ELSE "idle"]]

\* Mutant of NoWait: recv and splice always ask not to wait.
RecvNoWait(p) == nonblock \/ op[p].do \in {"recv", "splice"}

\* The call does not wait: O_NONBLOCK, or MSG_DONTWAIT, or SPLICE_F_NONBLOCK.
NoWait(p) == \/ nonblock
             \/ op[p].do \in {"recv", "splice"} /\ op[p].n

\* The system call of read, recv and splice.
CallRead(p) ==
  /\ At(p, "call") /\ op[p].do \in Reads
  /\ \/ /\ in > 0 /\ in' = in - 1 /\ Ends(p, "ok", 1)
     \/ /\ in = 0 /\ ~peer /\ Ends(p, "eof", 0) /\ UNCHANGED in
     \/ /\ in = 0 /\ peer /\ NoWait(p)
        /\ Ends(p, IF op[p].n /\ op[p].do # "splice" THEN "empty" ELSE "EAGAIN", 0)
        /\ UNCHANGED in
     \/ /\ in = 0 /\ peer /\ ~NoWait(p) /\ Goto(p, "blocked") /\ UNCHANGED in
  /\ UNCHANGED <<nonblock, out, peer, asked, mixed, sent, bounds>>

\* Mutant of Advance: a call is taken to have transferred everything.
AdvanceAll(total, k) == Amount

\* total_written += written
Advance(total, k) == total + k

\* The system call ends after `part` units: the loop of write and send goes on unless
\* all of them are gone or -n was given.
Written(p, part) ==
  LET total == Advance(op[p].total, part)
  IN IF op[p].n \/ total = Amount
     THEN Ends(p, IF total = Amount THEN "ok" ELSE "short", total)
     ELSE op' = [op EXCEPT ![p].at = "call", ![p].part = 0, ![p].total = total]

\* The system call of write and send: it transfers what there is room for and, while
\* O_NONBLOCK is clear, waits with the rest.
CallWrite(p) ==
  LET left == Amount - op[p].total - op[p].part
      Moves(k) == /\ out' = out + k /\ sent' = [sent EXCEPT ![p] = @ + k]
      Stays == UNCHANGED <<out, sent>>
  IN /\ At(p, "call") /\ op[p].do \in Writes
     /\ \/ /\ ~peer /\ Stays
           /\ IF op[p].part = 0 THEN Ends(p, "EPIPE", op[p].total) ELSE Written(p, op[p].part)
        \/ \E k \in 1..left :
             /\ peer /\ out + k <= Room /\ Moves(k)
             /\ IF k = left \/ nonblock THEN Written(p, op[p].part + k)
                ELSE op' = [op EXCEPT ![p].part = @ + k]
        \/ /\ peer /\ out = Room /\ Stays
           /\ IF ~nonblock THEN Goto(p, "blocked")
              ELSE IF op[p].part = 0 THEN Ends(p, "EAGAIN", op[p].total)
              ELSE Written(p, op[p].part)
     /\ UNCHANGED <<nonblock, in, peer, asked, mixed, bounds>>

\* The kernel wakes a process that waits, with a reason or without, and it looks again.
Wakes(p) ==
  /\ At(p, "blocked") /\ Goto(p, "call")
  /\ UNCHANGED <<nonblock, in, out, peer, asked, mixed, sent, bounds>>

\* A signal interrupts the wait: a write that has moved something returns that; -i
\* fails, and so does splice; the others call again.
Interrupted(p) ==
  /\ At(p, "blocked") /\ signals < MaxSignals /\ signals' = signals + 1
  /\ IF op[p].part > 0 THEN Written(p, op[p].part)
     ELSE IF op[p].i \/ op[p].do = "splice" THEN Ends(p, "EINTR", op[p].total)
     ELSE Goto(p, "call")
  /\ UNCHANGED <<nonblock, in, out, peer, asked, mixed, sent, calls, kills, moves>>

\* fcntl setfl FD nonblock, or FD 0
Setfl(p, b) ==
  /\ At(p, "idle") /\ calls < MaxCalls /\ calls' = calls + 1
  /\ nonblock' = b /\ asked' = b
  /\ mixed' = OtherGuards(p)
  /\ UNCHANGED <<in, out, peer, op, sent, signals, kills, moves>>

\* A process is killed: nothing is put back.
Killed(p) ==
  /\ ~At(p, "idle") /\ ~At(p, "dead") /\ kills < MaxKills /\ kills' = kills + 1
  /\ Goto(p, "dead")
  /\ mixed' = (mixed \/ Guarded(p))
  /\ UNCHANGED <<nonblock, in, out, peer, asked, sent, calls, signals, moves>>

-----------------------------------------------------------------------------
(* The far end. *)

PeerMoves == moves < MaxPeer /\ moves' = moves + 1
PeerSends ==
  /\ peer /\ PeerMoves /\ in < Room /\ in' = in + 1
  /\ UNCHANGED <<nonblock, out, peer, op, asked, mixed, sent, calls, signals, kills>>
PeerTakes ==
  /\ peer /\ PeerMoves /\ out > 0 /\ out' = out - 1
  /\ UNCHANGED <<nonblock, in, peer, op, asked, mixed, sent, calls, signals, kills>>
PeerCloses ==
  /\ peer /\ PeerMoves /\ peer' = FALSE
  /\ UNCHANGED <<nonblock, in, out, op, asked, mixed, sent, calls, signals, kills>>

IONext ==
  \/ \E p \in Forks :
       \/ \E do \in Reads \cup Writes, n, i \in BOOLEAN : Start(p, do, n, i)
       \/ GuardGets(p) \/ GuardSets(p) \/ GuardDrops(p)
       \/ CallRead(p) \/ CallWrite(p) \/ Wakes(p) \/ Interrupted(p) \/ Killed(p)
       \/ \E b \in BOOLEAN : Setfl(p, b)
  \/ PeerSends \/ PeerTakes \/ PeerCloses

IOSpec == IOInit /\ [][IONext]_ioVars

-----------------------------------------------------------------------------
(* What must hold. *)

\* The state has its type.
IOTypeOK ==
  /\ nonblock \in BOOLEAN /\ asked \in BOOLEAN /\ mixed \in BOOLEAN /\ peer \in BOOLEAN
  /\ in \in Nat /\ out \in Nat
  /\ op \in [Forks -> Operation] /\ sent \in [Forks -> Nat]
  /\ calls \in Nat /\ signals \in Nat /\ kills \in Nat /\ moves \in Nat

\* `read -n` leaves the description as the script set it, on every way out of the
\* handler, unless its guard met another guard, a setfl or a kill.
FlagRestored == (\A p \in Forks : ~Guarded(p)) /\ ~mixed => nonblock = asked

\* `recv -n` never waits, and `read -n` only when another guard, a setfl or a kill
\* took back the O_NONBLOCK it had set.
NoWaitWaitsNot ==
  \A p \in Forks : op[p].n /\ op[p].do \in Reads /\ At(p, "blocked") =>
    op[p].do = "read" /\ mixed

\* A call without -n fails with EAGAIN only if the script made the description
\* non-blocking, or while or after another process reads with -n.
PlainAgain ==
  [][\A p \in Forks : ~op[p].n /\ op[p].res # "EAGAIN" /\ op'[p].res = "EAGAIN"
       => asked \/ mixed \/ OtherGuards(p)]_ioVars

\* The count write and send tell is what went out, and without -n success means all of
\* it did, whatever came in between: short writes, signals, a full description.
WriteCounts ==
  \A p \in Forks : op[p].do \in Writes /\ op[p].res \in {"ok", "short"} =>
    /\ op[p].total = sent[p]
    /\ ~op[p].n => sent[p] = Amount
=============================================================================
