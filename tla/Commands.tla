------------------------------ MODULE Commands ------------------------------
(***************************************************************************)
(* One shell and the subcommands it is inside of: entrypoint.rs dispatches *)
(* a call, `-v VAR` captures what it prints in a memfd, `run` and `sig     *)
(* run` execute commands of the shell again, so calls nest.  Rust guards   *)
(* (RedirectStdout, SubcommandGuard) and bash's unwind frames each put     *)
(* back their own part of the state when a call ends.  `return` and `exit` *)
(* leave by longjmp: Rust's guards are not run, and bash's frames only by  *)
(* `return`, or by `exit` as far as something bash evaluates catches it.   *)
(* Background children keep the stdout they were started with.             *)
(***************************************************************************)
EXTENDS Naturals, Sequences, FiniteSets, SequencesExt

CONSTANTS Term,     \* the stdout of the script
          Files,    \* memfds of captures
          Kids,     \* background children
          Sigs,     \* signals for which the script has a trap
          NoTrap,   \* no ERR trap is set
          Habits,   \* what the script does: "jump", "readonly"
          MaxPrints, MaxCalls, MaxEvents, MaxDepth \* bounds

ASSUME CommandsAssumption ==
  /\ Term \notin Files /\ NoTrap # "trap"
  /\ MaxPrints \in Nat /\ MaxCalls \in Nat /\ MaxEvents \in Nat /\ MaxDepth \in Nat

VARIABLES
  stack,   \* the functions and calls the shell is inside of
  stdout,  \* what descriptor 1 refers to
  buffer,  \* tokens in the stdio buffers of bash and Rust
  text,    \* the tokens written to each file before its NUL
  ended,   \* files with the NUL that ends a capture
  late,    \* ended files a child wrote to afterwards
  own,     \* history: the tokens each file should get
  got,     \* history: the last capture that ended
  docs,    \* the doc pointers of the struct of L_builtin and of another builtin
  current, \* current_builtin
  sh,      \* signal masks, errexit flags and ERR trap
  wanted,  \* history: masks asked for outside of `sig run`, ERR trap set outside of `run`
  pend,    \* signals the kernel holds back
  traps,   \* pending_traps of bash
  kids,    \* running children
  readonly,\* VAR was made readonly
  jumped,  \* history: guards were skipped by a longjmp
  exited,  \* the shell ended
  calls, prints, events \* counters of the bounds

script  == <<calls, prints, events>>
output  == <<stdout, buffer, text, ended, late, own, got>>
doc     == <<docs, current>>
signals == <<wanted, pend, traps>>
vars == <<stack, output, doc, sh, signals, kids, readonly, jumped, exited, script>>

Builtins == {"L_builtin", "other"}
Outs == Files \cup {Term}
Masks == SUBSET Sigs
NoCapture == [told |-> FALSE, value |-> {}, due |-> {}, trimmed |-> TRUE, late |-> FALSE]

Top == Last(stack)
Pushed(f) == Append(stack, f)
Popped == Front(stack)
At(step) == [stack EXCEPT ![Len(stack)].at = step]
\* The shell can start another command.
Ready == /\ ~exited
         /\ stack # <<>> => Top.kind \in {"fn", "run", "sigrun"} /\ Top.at = "in"
\* The shell is inside a handler that waits for the next thing to happen.
In(kind, step) == /\ ~exited /\ stack # <<>>
                  /\ Top.kind = kind /\ Top.at = step

Inside(kind) == \E i \in 1..Len(stack) : stack[i].kind = kind

\* Something the script does besides calls and prints, or that happens to it.
Event == events < MaxEvents /\ events' = events + 1

\* The file of the innermost capture, where what is printed now should go.
Target == LET open == {i \in 1..Len(stack) : stack[i].file # Term /\ stack[i].at \notin {"restored", "ended"}}
          IN IF open = {} THEN Term
             ELSE stack[CHOOSE i \in open : \A j \in open : j <= i].file

\* fflush and the flush of Rust's stdout: the buffers go to whatever stdout is.
Flushed(t) == [t EXCEPT ![stdout] = @ \cup buffer]

Init ==
  /\ stack = <<>> /\ stdout = Term /\ buffer = {}
  /\ text = [f \in Outs |-> {}] /\ ended = {} /\ late = {}
  /\ own = [f \in Outs |-> {}] /\ got = NoCapture
  /\ docs = [b \in Builtins |-> b] /\ current = "other"
  /\ \E m \in Masks :
       /\ sh = [mask |-> m, top |-> m, errtrap |-> NoTrap, immediate |-> FALSE,
                ignoring |-> FALSE, flag |-> FALSE]
       /\ wanted = [mask |-> m, top |-> m, errtrap |-> NoTrap]
  /\ pend = {} /\ traps = {} /\ kids = << >>
  /\ readonly = FALSE /\ jumped = FALSE /\ exited = FALSE
  /\ calls = 0 /\ prints = 0 /\ events = 0

-----------------------------------------------------------------------------
(* What a capture does to the output. *)

\* capture_into_variable begins: a memfd, a flush, fd 1 saved above 256 and redirected.
Redirect(f) ==
  /\ text' = Flushed(text) /\ buffer' = {}
  /\ stdout' = f

NoRedirect == /\ text' = Flushed(text) /\ buffer' = {}
              /\ UNCHANGED stdout

\* Mutant of RestoreStdout: the guard's drop does not flush first.
RestoreUnflushed(saved) ==
  /\ stdout' = saved
  /\ UNCHANGED <<text, buffer>>

\* Mutant of RestoreStdout: it puts back the stdout of the script.
RestoreTerm(saved) ==
  /\ text' = Flushed(text) /\ buffer' = {}
  /\ stdout' = Term

\* Drop of RedirectStdout: flush into the memfd, then put the saved fd 1 back.
RestoreStdout(saved) ==
  /\ text' = Flushed(text) /\ buffer' = {}
  /\ stdout' = saved

\* Mutant of RestoreDocs: it writes through current_builtin, whatever that is now.
RestoreCurrent == docs' = [docs EXCEPT ![current] = "L_builtin"]

\* Drop of SubcommandGuard: the pointers saved at dispatch go back into the saved struct.
RestoreDocs == docs' = [docs EXCEPT !["L_builtin"] = "L_builtin"]

-----------------------------------------------------------------------------
(* What bash's unwind frames put back, in a return and in a longjmp. *)

\* The end of l_execute_command_string: the frame "L_capture", then errexit anew.
UnwindRun(s, k) ==
  [s EXCEPT !.immediate = IF k.ignoring THEN FALSE ELSE s.flag,
            !.ignoring = k.ignoring,
            !.errtrap = IF k.errtrap = NoTrap THEN @ ELSE k.errtrap]

\* Mutant of UnwindSigs: the process keeps the mask of the command.
UnwindSigsTop(s, k) == [s EXCEPT !.top = k.top]

\* The frame of l_run_with_unblocked: both masks as they were.
UnwindSigs(s, k) == [s EXCEPT !.mask = k.mask, !.top = k.top]

\* What the outermost of a set of frames kept; without one the state as it is.
Kept(frames) == IF frames = {} THEN sh
                ELSE stack[CHOOSE j \in frames : \A k \in frames : j <= k].keep

\* The frames above i are unwound, innermost first: what the outermost put back stays.
Unwound(i) ==
  LET runs == {j \in (i + 1)..Len(stack) : stack[j].kind = "run"}
      trapped == {j \in runs : stack[j].keep.errtrap # NoTrap}
      sigs == {j \in (i + 1)..Len(stack) : stack[j].kind = "sigrun"}
  IN [mask |-> Kept(sigs).mask, top |-> Kept(sigs).top, errtrap |-> Kept(trapped).errtrap,
      immediate |-> Kept(runs).immediate, ignoring |-> Kept(runs).ignoring, flag |-> sh.flag]

\* A signal that is not blocked any more reaches bash's handler.
Deliver(mask) == /\ traps' = traps \cup (pend \ mask)
                 /\ pend' = pend \cap mask

-----------------------------------------------------------------------------
(* The top level: l_entrypoint and the dispatch of a subcommand. *)

Enter(name) == /\ docs' = [docs EXCEPT !["L_builtin"] = name]
               /\ current' = "L_builtin"

Frame(kind, f, set) ==
  [kind |-> kind, file |-> f, saved |-> stdout,
   at |-> IF kind = "sigrun" THEN "unblocked" ELSE "in",
   keep |-> sh, set |-> set, early |-> pend \cap set]

\* Where the output of a call goes: nowhere new, or into a fresh memfd for -v VAR.
Capturing(f) ==
  \/ f = Term /\ NoRedirect
  \/ /\ f \in Files /\ ~readonly
     /\ text[f] = {} /\ own[f] = {} /\ f \notin ended /\ f # stdout
     /\ \A i \in 1..Len(stack) : stack[i].file # f
     /\ Redirect(f)

Starting == /\ Ready /\ calls < MaxCalls
            /\ calls' = calls + 1

Starts(f) == /\ Starting /\ Len(stack) < MaxDepth
             /\ Capturing(f)
             /\ UNCHANGED <<ended, late, own, got, wanted, kids, readonly, jumped, exited, prints, events>>

\* A call that parses badly, names no subcommand, asks for help or gets no memfd.
CallFails ==
  /\ Starting
  /\ Enter("L_builtin")
  /\ NoRedirect
  /\ UNCHANGED <<stack, ended, late, own, got, sh, signals, kids, readonly, jumped, exited, prints, events>>

\* A subcommand that only prints: most of them, `core` and, with its own docs, `ext`.
CallPlain(f, name) ==
  /\ Starts(f)
  /\ Enter(name)
  /\ stack' = Pushed(Frame("plain", f, {}))
  /\ UNCHANGED <<sh, pend, traps>>

\* While `run` executes a command there is no errexit and no ERR trap.
Quiet == [sh EXCEPT !.immediate = FALSE, !.ignoring = TRUE, !.errtrap = NoTrap]

\* `run COMMAND`: l_execute_command_string.
CallRun(f) ==
  /\ Starts(f)
  /\ Enter("run")
  /\ stack' = Pushed(Frame("run", f, {}))
  /\ sh' = Quiet
  /\ UNCHANGED <<pend, traps>>

\* Both the mask of the process and the one bash gives its children.
Unblocked(set) == [sh EXCEPT !.mask = @ \ set, !.top = sh.mask \ set]

\* `sig run SIGS -- COMMAND`: l_run_with_unblocked up to the sigprocmask.
CallSigRun(f, set) ==
  /\ Starts(f)
  /\ Enter("sig run")
  /\ stack' = Pushed(Frame("sigrun", f, set))
  /\ sh' = Unblocked(set)
  /\ Deliver(sh'.mask)

\* Outside of `sig run` the mask is the script's wish.
Wished(mask) == IF Inside("sigrun") THEN wanted ELSE [wanted EXCEPT !.mask = mask]

\* `sig block` and `sig unblock`: one sigprocmask.
CallSigMask(mask) ==
  /\ Ready /\ Event
  /\ docs' = [docs EXCEPT !["L_builtin"] = "L_builtin"] /\ current' = "L_builtin"
  /\ NoRedirect
  /\ sh' = [sh EXCEPT !.mask = mask]
  /\ Deliver(mask)
  /\ wanted' = Wished(mask)
  /\ UNCHANGED <<stack, ended, late, own, got, kids, readonly, jumped, exited, calls, prints>>

-----------------------------------------------------------------------------
(* Inside a call. *)

\* A handler prints through stdio or with write(2); bash's own builtins flush at once.
Prints(direct) ==
  /\ prints < MaxPrints
  /\ \/ In("plain", "in") /\ UNCHANGED current
     \/ (Ready \/ exited) /\ direct /\ current' = "other"
  /\ prints' = prints + 1
  /\ own' = [own EXCEPT ![Target] = @ \cup {prints'}]
  /\ IF direct
     THEN text' = [text EXCEPT ![stdout] = @ \cup {prints'}] /\ UNCHANGED buffer
     ELSE buffer' = buffer \cup {prints'} /\ UNCHANGED text
  /\ UNCHANGED <<stack, stdout, ended, late, got, docs, sh, signals, kids, readonly, jumped, exited, calls, events>>

\* The handler returns: to capture_into_variable, whose guard drops first, or to l_entrypoint.
Leave(s) ==
  /\ sh' = s
  /\ IF Top.file = Term
     THEN /\ NoRedirect
          /\ stack' = Popped
          /\ RestoreDocs
     ELSE /\ RestoreStdout(Top.saved)
          /\ stack' = At("restored")
          /\ UNCHANGED docs
  /\ UNCHANGED <<ended, late, own, got, current, wanted, kids, readonly, jumped, exited, script>>

PlainEnds == In("plain", "in") /\ Leave(sh) /\ UNCHANGED <<pend, traps>>

RunEnds == In("run", "in") /\ Leave(UnwindRun(sh, Top.keep)) /\ UNCHANGED <<pend, traps>>

SigRunEnds == /\ In("sigrun", "in")
              /\ Leave(UnwindSigs(sh, Top.keep))
              /\ Deliver(sh'.mask)

\* Mutant of Caught: the check looks at the signals that still wait in the kernel.
CaughtPending == pend \cap Top.set # {}

Caught == traps \cap Top.set # {}

\* A listed signal has arrived: its trap runs, the command does not.
SigRunCaught ==
  /\ In("sigrun", "unblocked") /\ Caught
  /\ traps' = {} /\ UNCHANGED pend
  /\ Leave(UnwindSigs(sh, Top.keep))

SigRunChecked ==
  /\ In("sigrun", "unblocked") /\ ~Caught
  /\ stack' = At("checked")
  /\ UNCHANGED <<output, doc, sh, signals, kids, readonly, jumped, exited, script>>

\* run_pending_traps once more, then the command.
SigRunExecutes ==
  /\ In("sigrun", "checked")
  /\ traps' = {}
  /\ stack' = At("in")
  /\ UNCHANGED <<output, doc, sh, wanted, pend, kids, readonly, jumped, exited, script>>

\* The NUL behind what was captured.
Terminate ==
  /\ ~exited /\ stack # <<>> /\ Top.at = "restored"
  /\ stack' = At("ended")
  /\ ended' = ended \cup {Top.file}
  /\ UNCHANGED <<stdout, buffer, text, late, own, got, doc, sh, signals, kids, readonly, jumped, exited, script>>

\* Trailing newlines go only if the NUL is the last byte of the file.
Trimmed(f) == f \notin late

\* mmap, trim and var.set, which fails when VAR became readonly; then l_entrypoint returns.
Collect ==
  /\ ~exited /\ stack # <<>> /\ Top.at = "ended"
  /\ got' = [told |-> ~readonly, value |-> text[Top.file], due |-> own[Top.file],
             trimmed |-> Trimmed(Top.file), late |-> Top.file \in late]
  /\ stack' = Popped
  /\ NoRedirect
  /\ RestoreDocs
  /\ UNCHANGED <<ended, late, own, current, sh, signals, kids, readonly, jumped, exited, script>>

-----------------------------------------------------------------------------
(* The shell, its children and its signals. *)

\* A function is called.
Function ==
  /\ Ready /\ Len(stack) < MaxDepth /\ calls < MaxCalls
  /\ calls' = calls + 1
  /\ stack' = Pushed([Frame("fn", Term, {}) EXCEPT !.early = {}])
  /\ UNCHANGED <<output, doc, sh, signals, kids, readonly, jumped, exited, prints, events>>

FunctionEnds ==
  /\ In("fn", "in")
  /\ stack' = Popped
  /\ UNCHANGED <<output, doc, sh, signals, kids, readonly, jumped, exited, script>>

\* The guards above frame i do not run when the shell jumps there.
Skipped(i) == \E j \in (i + 1)..Len(stack) : stack[j].kind # "fn"

JumpTo(i) ==
  /\ sh' = Unwound(i)
  /\ stack' = SubSeq(stack, 1, i - 1)
  /\ jumped' = (jumped \/ Skipped(i))
  /\ UNCHANGED <<output, doc, wanted, kids, readonly, script>>

\* `return` inside `run` leaves the function the call was made in.
Return ==
  /\ Ready /\ "jump" \in Habits
  /\ \E i \in 1..Len(stack) :
       /\ stack[i].kind = "fn"
       /\ \A j \in (i + 1)..Len(stack) : stack[j].kind # "fn"
       /\ i < Len(stack)
       /\ JumpTo(i)
  /\ Deliver(sh'.mask)
  /\ UNCHANGED exited

\* `exit`: whatever bash evaluates as a string (the command of `run`, an eval, a file it
\* sources, all of `bash -c`) unwinds the frames inside it; the first n frames stay on the stack
\* when the top level of a script is reached, and the EXIT trap runs under them.
Exit ==
  /\ Ready
  /\ exited' = TRUE
  /\ \E n \in 0..Len(stack) :
       /\ \A i \in 1..Len(stack) : stack[i].kind = "run" => n <= i
       /\ sh' = Unwound(n)
       /\ stack' = SubSeq(stack, 1, n)
  /\ jumped' = (jumped \/ Skipped(0))
  /\ UNCHANGED <<output, doc, wanted, kids, readonly, script>>
  /\ Deliver(sh'.mask)

\* The script sets -e or +e; bash obeys at once unless a builtin ignores it.
SetErrexit ==
  /\ Event
  /\ Ready
  /\ sh' = [sh EXCEPT !.flag = ~@, !.immediate = IF sh.ignoring THEN FALSE ELSE ~sh.flag]
  /\ current' = "other"
  /\ UNCHANGED <<stack, output, docs, signals, kids, readonly, jumped, exited, calls, prints>>

SetErrTrap ==
  /\ Event
  /\ Ready
  /\ \E t \in {NoTrap, "trap"} \ {sh.errtrap} :
       /\ sh' = [sh EXCEPT !.errtrap = t]
       /\ wanted' = IF Inside("run") THEN wanted ELSE [wanted EXCEPT !.errtrap = t]
  /\ current' = "other"
  /\ UNCHANGED <<stack, output, docs, pend, traps, kids, readonly, jumped, exited, calls, prints>>

MakeReadonly ==
  /\ Event
  /\ Ready /\ "readonly" \in Habits /\ ~readonly
  /\ readonly' = TRUE /\ current' = "other"
  /\ UNCHANGED <<stack, output, docs, sh, signals, kids, jumped, exited, calls, prints>>

\* A child is started with the stdout of the moment and the mask bash keeps for children.
Fork ==
  /\ Event
  /\ Ready /\ Len(kids) < Cardinality(Kids)
  /\ kids' = Append(kids, [out |-> stdout, due |-> Target, mask |-> sh.top,
                           set |-> IF stack # <<>> /\ Top.kind = "sigrun" THEN Top.set ELSE {}])
  /\ UNCHANGED <<stack, output, doc, sh, signals, readonly, jumped, exited, calls, prints>>

\* A child writes: into a capture that is not over, behind its NUL, or elsewhere.
KidWrites ==
  /\ prints < MaxPrints
  /\ prints' = prints + 1
  /\ \E i \in 1..Len(kids) :
       IF kids[i].out \in ended
       THEN /\ late' = late \cup {kids[i].out}
            /\ UNCHANGED <<text, own>>
       ELSE /\ text' = [text EXCEPT ![kids[i].out] = @ \cup {prints'}]
            /\ own' = [own EXCEPT ![kids[i].due] = @ \cup {prints'}]
            /\ UNCHANGED late
  /\ UNCHANGED <<stack, stdout, buffer, ended, got, doc, sh, signals, kids, readonly, jumped, exited, calls, events>>

\* Somebody sends a signal to the shell.
Send(s) ==
  /\ Event
  /\ ~exited /\ s \notin pend \cup traps
  /\ IF s \in sh.mask THEN pend' = pend \cup {s} /\ UNCHANGED traps
     ELSE traps' = traps \cup {s} /\ UNCHANGED pend
  /\ UNCHANGED <<stack, output, doc, sh, wanted, kids, readonly, jumped, exited, calls, prints>>

\* Between two commands bash runs the traps of the signals it got.
RunTraps ==
  /\ Ready /\ traps # {}
  /\ traps' = {}
  /\ UNCHANGED <<stack, output, doc, sh, wanted, pend, kids, readonly, jumped, exited, script>>

Next ==
  \/ CallFails
  \/ \E f \in Outs : \E name \in {"plain", "ext"} : CallPlain(f, name)
  \/ \E f \in Outs : CallRun(f) \/ \E set \in Masks \ {{}} : CallSigRun(f, set)
  \/ \E mask \in Masks : CallSigMask(mask)
  \/ \E direct \in BOOLEAN : Prints(direct)
  \/ PlainEnds \/ RunEnds \/ SigRunEnds
  \/ SigRunCaught \/ SigRunChecked \/ SigRunExecutes
  \/ Terminate \/ Collect
  \/ Function \/ FunctionEnds \/ Return \/ Exit
  \/ SetErrexit \/ SetErrTrap \/ MakeReadonly \/ Fork \/ KidWrites
  \/ \E s \in Sigs : Send(s)
  \/ RunTraps

Spec == Init /\ [][Next]_vars

-----------------------------------------------------------------------------
(* Properties. *)

\* Every token is in the file, or the buffer on its way to the file, that the innermost
\* capture around it redirected stdout to, in nested calls and with children that write
\* meanwhile, as long as no guard was skipped (entrypoint.rs:56-82).
OutputInPlace ==
  ~jumped => \A f \in Outs : own[f] = text[f] \cup (IF f = stdout THEN buffer ELSE {})

\* A call with -v that succeeds set VAR to what was printed inside it, all of it and nothing
\* else;
\* the trailing newline is there only
\* if a child wrote behind the NUL (entrypoint.rs:90-113).
CapturedWhole ==
  got.told /\ ~jumped => got.value = got.due /\ (got.trimmed \/ got.late)

\* When the shell is outside of every call, each builtin has its own documentation again,
\* whatever builtins ran inside of `run` (subcmd.rs:101-108).
DocsRestored ==
  /\ stack = <<>> /\ ~jumped => docs["L_builtin"] = "L_builtin"
  /\ docs["other"] = "other"

\* What bash protects is restored when a call ends, returns or is jumped out of, in whatever
\* order: outside of `sig run` the process blocks what the script asked to block and children
\* get the mask the shell was started with; outside of `run` an ERR trap that was set there is
\* set (l_bash_api.c:164-186, 334-395).  -e is obeyed outside of `run` and only there, whether
\* it was set before, inside or after, unless guards were skipped.  An EXIT trap that runs under
\* the frames of a `sig run` or `run` which an exit did not unwind is inside of it.
BashRestored ==
  /\ ~Inside("sigrun") => sh.mask = wanted.mask /\ sh.top = wanted.top
  /\ ~Inside("run") /\ wanted.errtrap = "trap" => sh.errtrap = "trap"
  /\ ~jumped => (sh.immediate <=> sh.flag /\ \A i \in 1..Len(stack) :
                                     stack[i].kind = "run" => stack[i].at # "in")

\* The command of `sig run` and its children run with the listed signals unblocked, and not at
\* all if one of them waited, blocked, when `sig run` began: a script cannot sleep through a
\* signal it got before (l_bash_api.c:334-395).
SigRunUnblocks ==
  /\ \A i \in 1..Len(kids) : kids[i].mask \cap kids[i].set = {}
  /\ \A i \in 1..Len(stack) :
       stack[i].kind = "sigrun" /\ stack[i].at = "in" => stack[i].early = {}
=============================================================================
