---------------------------- MODULE Commands_proofs ----------------------------
(***************************************************************************)
(* Proofs about Commands: what is printed ends in the capture around it,   *)
(* and calls put back what they found, for any number of files, signals,   *)
(* children and nested calls.                                              *)
(***************************************************************************)
EXTENDS Commands, SequenceTheorems, FiniteSetTheorems, WellFoundedInduction, TLAPS

USE CommandsAssumption DEF CommandsAssumption

Shells == [mask : Masks, top : Masks, errtrap : {NoTrap, "trap"}, immediate : BOOLEAN,
           ignoring : BOOLEAN, flag : BOOLEAN]
Frames == [kind : {"fn", "plain", "run", "sigrun"}, file : Outs, saved : Outs,
           at : {"in", "unblocked", "checked", "restored", "ended"},
           keep : Shells, set : Masks, early : Masks]
Children == [out : Outs, due : Outs, mask : Masks, set : Masks]
Wishes == [mask : Masks, top : Masks, errtrap : {NoTrap, "trap"}]

\* What a builtin can be documented as: itself, or a subcommand.
Names == Builtins \cup {"plain", "ext", "run", "sig run"}

\* The types of what the invariants below speak of.
TypeOK ==
  /\ stack \in Seq(Frames) /\ kids \in Seq(Children)
  /\ stdout \in Outs /\ buffer \subseteq Nat
  /\ text \in [Outs -> SUBSET Nat] /\ own \in [Outs -> SUBSET Nat]
  /\ docs \in [Builtins -> Names]
  /\ sh \in Shells /\ wanted \in Wishes
  /\ pend \in Masks /\ traps \in Masks
  /\ jumped \in BOOLEAN /\ exited \in BOOLEAN /\ readonly \in BOOLEAN
  /\ prints \in Nat

Over == {"restored", "ended"}

\* Only the innermost call can be anywhere but at its command; functions capture nothing,
\* and a capture that is over had a file.
Nested ==
  \A i \in 1..Len(stack) :
    /\ i < Len(stack) => stack[i].at = "in" /\ stack[i].kind # "plain"
    /\ stack[i].kind = "fn" => stack[i].file = Term /\ stack[i].at = "in"
    /\ stack[i].at \in Over => stack[i].file # Term
    /\ stack[i].at \in {"unblocked", "checked"} => stack[i].kind = "sigrun"

\* No two captures share a file.
Apart == \A i, j \in 1..Len(stack) : i # j /\ stack[i].file # Term => stack[i].file # stack[j].file

Open(s, i) == s[i].file # Term /\ s[i].at \notin Over

\* The innermost capture of the first n frames of a stack goes to f.
Points(s, n, f) ==
  \/ f = Term /\ \A j \in 1..n : ~Open(s, j)
  \/ \E i \in 1..n : /\ Open(s, i) /\ f = s[i].file
                     /\ \A j \in (i + 1)..n : ~Open(s, j)

\* stdout, and the stdout each call found, are those of the captures around it.
Pointed ==
  ~jumped => /\ Points(stack, Len(stack), stdout)
             /\ \A i \in 1..Len(stack) : Points(stack, i - 1, stack[i].saved)

\* Children write where they should.
KidsPointed == ~jumped => \A i \in 1..Len(kids) : kids[i].out = kids[i].due

\* Inside of functions alone the documentation is that of L_builtin.
Documented ==
  /\ ~jumped /\ (\A i \in 1..Len(stack) : stack[i].kind = "fn") => docs["L_builtin"] = "L_builtin"
  /\ docs["other"] = "other"

\* Frame i is the outermost of its kind.
First(i, kind) == stack[i].kind = kind /\ \A j \in 1..(i - 1) : stack[j].kind # kind

\* What the script asked for is what the outermost `sig run` found, or what there is.
Masked ==
  /\ ~Inside("sigrun") => sh.mask = wanted.mask /\ sh.top = wanted.top
  /\ \A i \in 1..Len(stack) :
       /\ First(i, "sigrun") => stack[i].keep.mask = wanted.mask /\ stack[i].keep.top = wanted.top
       /\ stack[i].kind = "sigrun" /\ stack[i].at \in Over =>
            sh.mask = stack[i].keep.mask /\ sh.top = stack[i].keep.top

\* The same of the ERR trap and `run`.
Trapped ==
  /\ ~Inside("run") /\ wanted.errtrap = "trap" => sh.errtrap = "trap"
  /\ \A i \in 1..Len(stack) :
       /\ First(i, "run") /\ wanted.errtrap = "trap" => stack[i].keep.errtrap = "trap"
       /\ stack[i].kind = "run" /\ stack[i].at \in Over /\ stack[i].keep.errtrap = "trap" =>
            sh.errtrap = "trap"

\* errexit is ignored inside of `run` and only there, and each `run` found it so.
Ignored ==
  /\ sh.ignoring <=> \E i \in 1..Len(stack) : stack[i].kind = "run" /\ stack[i].at = "in"
  /\ \A i \in 1..Len(stack) : stack[i].kind = "run" =>
       (stack[i].keep.ignoring <=> \E j \in 1..(i - 1) : stack[j].kind = "run")

\* What bash does about errexit.
Immediate ==
  ~jumped => (sh.immediate <=> sh.flag /\ \A i \in 1..Len(stack) :
                                  stack[i].kind = "run" => stack[i].at # "in")

\* What there was before frame i of a stack, or is now.
Before(s, now, i) == IF i <= Len(s) THEN s[i].keep ELSE now

\* Only a `sig run` that is not over has changed the mask of the children.
Unblocking(s, i) == s[i].kind = "sigrun" /\ s[i].at \notin Over
Chained ==
  \A i, j \in 1..(Len(stack) + 1) :
    i <= j /\ (\A k \in i..(j - 1) : ~Unblocking(stack, k)) => Before(stack, sh, j).top = Before(stack, sh, i).top

\* And what it changed is that the listed signals are unblocked.
Listed == \A i \in 1..Len(stack) : Unblocking(stack, i) => Before(stack, sh, i + 1).top \cap stack[i].set = {}

KidsMasked == \A i \in 1..Len(kids) : kids[i].mask \cap kids[i].set = {}

\* A listed signal that waited is found by the check for traps.
Early ==
  \A i \in 1..Len(stack) :
    stack[i].kind = "sigrun" =>
      /\ stack[i].at = "unblocked" => stack[i].early \subseteq traps \cap stack[i].set
      /\ stack[i].at \in {"checked", "in"} => stack[i].early = {}

IInv == /\ TypeOK /\ Nested /\ Apart
        /\ Pointed /\ KidsPointed /\ OutputInPlace /\ CapturedWhole
        /\ Documented
        /\ Masked /\ Trapped /\ Ignored /\ Immediate
        /\ Chained /\ Listed /\ KidsMasked /\ Early

-----------------------------------------------------------------------------
(* Numbers and the stack. *)

\* A set of numbers that is not empty has a least one.
LEMMA LeastNumber ==
  ASSUME NEW S \in SUBSET Nat, S # {}
  PROVE  \E i \in S : \A j \in S : i <= j
<1> DEFINE F == {0..i : i \in S}
           R == StrictSubsetOrdering(Nat)
<1>1. PICK t \in F : \A u \in F : <<u, t>> \notin R
  <2>1. F \subseteq FiniteSubsetsOf(Nat)
    <3> SUFFICES ASSUME NEW i \in S PROVE 0..i \in FiniteSubsetsOf(Nat)
      OBVIOUS
    <3>1. IsFiniteSet(0..i)
      BY FS_Interval
    <3> QED
      BY <3>1 DEF FiniteSubsetsOf
  <2>2. F # {}
    OBVIOUS
  <2>3. IsWellFoundedOn(R, FiniteSubsetsOf(Nat))
    BY FS_StrictSubsetOrderingWellFounded
  <2> HIDE DEF F, R
  <2> QED
    BY <2>1, <2>2, <2>3, WFMin
<1>2. PICK i \in S : t = 0..i
  BY <1>1
<1>3. ASSUME NEW j \in S, j < i PROVE FALSE
  <2>1. 0..j \subseteq 0..i /\ 0..j # 0..i
    <3>1. i \in 0..i /\ i \notin 0..j
      BY <1>3
    <3> QED
      BY <1>3, <3>1
  <2>2. <<0..j, 0..i>> \in (SUBSET Nat) \X (SUBSET Nat)
    OBVIOUS
  <2>3. <<0..j, 0..i>> \in R
    BY <2>1, <2>2 DEF StrictSubsetOrdering
  <2> QED
    BY <1>1, <1>2, <2>3
<1> QED
  BY <1>3

LEMMA ShellType ==
  ASSUME NEW m \in Masks, NEW t \in Masks, NEW e \in {NoTrap, "trap"},
         NEW i \in BOOLEAN, NEW g \in BOOLEAN, NEW f \in BOOLEAN
  PROVE  [mask |-> m, top |-> t, errtrap |-> e, immediate |-> i, ignoring |-> g, flag |-> f] \in Shells
  BY DEF Shells

LEMMA Fields ==
  ASSUME NEW s \in Shells
  PROVE  /\ s.mask \in Masks /\ s.top \in Masks /\ s.errtrap \in {NoTrap, "trap"}
         /\ s.immediate \in BOOLEAN /\ s.ignoring \in BOOLEAN /\ s.flag \in BOOLEAN
         /\ s = [mask |-> s.mask, top |-> s.top, errtrap |-> s.errtrap,
                 immediate |-> s.immediate, ignoring |-> s.ignoring, flag |-> s.flag]
  BY DEF Shells

LEMMA FrameFields ==
  ASSUME TypeOK, NEW i \in 1..Len(stack)
  PROVE  /\ stack[i] \in Frames /\ stack[i].file \in Outs /\ stack[i].saved \in Outs
         /\ stack[i].keep \in Shells /\ stack[i].set \in Masks /\ stack[i].early \in Masks
<1>1. stack[i] \in Frames
  BY DEF TypeOK
<1> QED
  BY <1>1 DEF Frames

LEMMA ChildFields ==
  ASSUME TypeOK, NEW i \in 1..Len(kids)
  PROVE  /\ kids[i] \in Children /\ kids[i].out \in Outs /\ kids[i].due \in Outs
<1>1. kids[i] \in Children
  BY DEF TypeOK
<1> QED
  BY <1>1 DEF Children

\* The frames of the stack one by one, for each way the stack changes.
LEMMA Pushes ==
  ASSUME TypeOK, NEW fr \in Frames
  PROVE  /\ Pushed(fr) \in Seq(Frames) /\ Len(Pushed(fr)) = Len(stack) + 1
         /\ \A i \in 1..Len(stack) : Pushed(fr)[i] = stack[i]
         /\ Pushed(fr)[Len(stack) + 1] = fr
  BY DEF TypeOK, Pushed

LEMMA Cuts ==
  ASSUME TypeOK, NEW n \in 0..Len(stack)
  PROVE  /\ SubSeq(stack, 1, n) \in Seq(Frames) /\ Len(SubSeq(stack, 1, n)) = n
         /\ \A i \in 1..n : SubSeq(stack, 1, n)[i] = stack[i]
<1>1. stack \in Seq(Frames) /\ 1 \in 1..(Len(stack) + 1) /\ n \in 0..Len(stack)
  BY DEF TypeOK
<1> QED
  BY <1>1, SubSeqProperties

LEMMA TopThere ==
  ASSUME TypeOK, stack # <<>>
  PROVE  Len(stack) \in 1..Len(stack) /\ Top = stack[Len(stack)] /\ Top \in Frames
  BY DEF TypeOK, Top, Last

LEMMA Pops ==
  ASSUME TypeOK, stack # <<>>
  PROVE  /\ Popped = SubSeq(stack, 1, Len(stack) - 1) /\ Len(stack) - 1 \in 0..Len(stack)
         /\ Popped \in Seq(Frames) /\ Len(Popped) = Len(stack) - 1
         /\ \A i \in 1..(Len(stack) - 1) : Popped[i] = stack[i]
<1>1. Len(stack) - 1 \in 0..Len(stack) /\ Popped = SubSeq(stack, 1, Len(stack) - 1)
  BY DEF TypeOK, Popped, Front
<1> QED
  BY <1>1, Cuts

LEMMA Ats ==
  ASSUME TypeOK, stack # <<>>, NEW step \in {"in", "unblocked", "checked", "restored", "ended"}
  PROVE  /\ At(step) \in Seq(Frames) /\ Len(At(step)) = Len(stack)
         /\ \A i \in 1..(Len(stack) - 1) : At(step)[i] = stack[i]
         /\ At(step)[Len(stack)] = [Top EXCEPT !.at = step]
<1>1. Top \in Frames /\ Top = stack[Len(stack)] /\ Len(stack) \in 1..Len(stack)
  BY TopThere
<1>2. [Top EXCEPT !.at = step] \in Frames
  BY <1>1 DEF Frames
<1>3. At(step) = [stack EXCEPT ![Len(stack)] = [Top EXCEPT !.at = step]]
  BY <1>1 DEF At
<1>4. stack \in Seq(Frames)
  BY DEF TypeOK
<1>5. \A i \in 1..(Len(stack) - 1) : i \in 1..Len(stack) /\ i # Len(stack)
  BY <1>4
<1> HIDE DEF Frames
<1> QED
  BY <1>1, <1>2, <1>3, <1>4, <1>5, ExceptSeq

\* What the outermost of some frames kept is the state of a shell.
LEMMA KeptOne ==
  ASSUME TypeOK, NEW S \in SUBSET (1..Len(stack))
  PROVE  /\ S = {} => Kept(S) = sh
         /\ S # {} => \E i \in S : Kept(S) = stack[i].keep /\ \A j \in S : i <= j
         /\ Kept(S) \in Shells
<1>1. CASE S = {}
  BY <1>1 DEF Kept, TypeOK
<1>2. CASE S # {}
  <2>1. S \in SUBSET Nat
    BY DEF TypeOK
  <2>2. \E i \in S : \A j \in S : i <= j
    BY <1>2, <2>1, LeastNumber
  <2>3. PICK i \in S : /\ i = (CHOOSE k \in S : \A j \in S : k <= j)
                       /\ \A j \in S : i <= j
    BY <2>2
  <2>4. Kept(S) = stack[i].keep
    BY <1>2, <2>3 DEF Kept
  <2>5. stack[i] \in Frames
    BY DEF TypeOK
  <2> QED
    BY <1>2, <2>3, <2>4, <2>5 DEF Frames
<1> QED
  BY <1>1, <1>2

Above(n, kind) == {j \in (n + 1)..Len(stack) : stack[j].kind = kind}
Found(n) == {j \in Above(n, "run") : stack[j].keep.errtrap # NoTrap}

LEMMA UnwoundType ==
  ASSUME TypeOK, NEW n \in 0..Len(stack)
  PROVE  /\ Unwound(n) \in Shells
         /\ Unwound(n).mask = Kept(Above(n, "sigrun")).mask
         /\ Unwound(n).top = Kept(Above(n, "sigrun")).top
         /\ Unwound(n).errtrap = Kept(Found(n)).errtrap
         /\ Unwound(n).immediate = Kept(Above(n, "run")).immediate
         /\ Unwound(n).ignoring = Kept(Above(n, "run")).ignoring
         /\ Unwound(n).flag = sh.flag
         /\ Above(n, "sigrun") \in SUBSET (1..Len(stack)) /\ Above(n, "run") \in SUBSET (1..Len(stack))
         /\ Found(n) \in SUBSET (1..Len(stack))
<1>1. /\ Above(n, "sigrun") \in SUBSET (1..Len(stack)) /\ Above(n, "run") \in SUBSET (1..Len(stack))
      /\ Found(n) \in SUBSET (1..Len(stack))
  BY DEF TypeOK, Above, Found
<1>2. /\ Kept(Above(n, "sigrun")) \in Shells /\ Kept(Above(n, "run")) \in Shells
      /\ Kept(Found(n)) \in Shells /\ sh \in Shells
  BY <1>1, KeptOne DEF TypeOK
<1>3. Unwound(n) = [mask |-> Kept(Above(n, "sigrun")).mask, top |-> Kept(Above(n, "sigrun")).top,
                    errtrap |-> Kept(Found(n)).errtrap,
                    immediate |-> Kept(Above(n, "run")).immediate,
                    ignoring |-> Kept(Above(n, "run")).ignoring, flag |-> sh.flag]
  BY DEF Unwound, Above, Found
<1> HIDE DEF Above, Found
<1> QED
  BY <1>1, <1>2, <1>3, Fields, ShellType

-----------------------------------------------------------------------------
(* What a step can do to the stack, to stdout, and to what bash protects. *)

Documents == docs' = [docs EXCEPT !["L_builtin"] = "L_builtin"]

\* The stack stays.
Obeys == sh' = [sh EXCEPT !.flag = ~@, !.immediate = IF sh.ignoring THEN FALSE ELSE ~sh.flag]
Masking(m) == sh' = [sh EXCEPT !.mask = m] /\ wanted' = Wished(m)
Trapping(t) == /\ sh' = [sh EXCEPT !.errtrap = t]
               /\ wanted' = IF Inside("run") THEN wanted ELSE [wanted EXCEPT !.errtrap = t]
Quietly == UNCHANGED <<sh, wanted>> /\ (Ready \/ traps \subseteq traps')
Still ==
  /\ UNCHANGED <<stack, stdout, jumped>>
  /\ docs' = docs \/ Documents
  /\ \/ Quietly
     \/ Ready /\ UNCHANGED wanted /\ Obeys
     \/ Ready /\ \E m \in Masks : Masking(m)
     \/ Ready /\ \E t \in {NoTrap, "trap"} : Trapping(t)

\* A call or a function begins.
Entered(fr) == CASE fr.kind = "run"    -> Quiet
                 [] fr.kind = "sigrun" -> Unblocked(fr.set)
                 [] OTHER              -> sh
Push(fr) ==
  /\ Ready /\ stack' = Pushed(fr) /\ fr.keep = sh /\ fr.saved = stdout
  /\ fr.at = IF fr.kind = "sigrun" THEN "unblocked" ELSE "in"
  /\ fr.kind = "fn" => fr.file = Term /\ docs' = docs
  /\ fr.file # Term => \A i \in 1..Len(stack) : stack[i].file # fr.file
  /\ stdout' = IF fr.file = Term THEN stdout ELSE fr.file
  /\ docs'["other"] = docs["other"]
  /\ sh' = Entered(fr)
  /\ fr.kind = "sigrun" => fr.early \subseteq traps' \cap fr.set
  /\ UNCHANGED <<wanted, jumped>>

\* The handler of the innermost call returns.
Left == CASE Top.kind = "run"    -> UnwindRun(sh, Top.keep)
          [] Top.kind = "sigrun" -> UnwindSigs(sh, Top.keep)
          [] OTHER               -> sh

\* The innermost call goes on.
Move(step) ==
  /\ stack # <<>> /\ stack' = At(step) /\ Top.kind # "fn"
  /\ UNCHANGED <<wanted, jumped, docs>>
  /\ \/ /\ step = "restored" /\ Top.at \notin Over /\ Top.file # Term
        /\ stdout' = Top.saved /\ sh' = Left
     \/ step = "ended" /\ Top.at = "restored" /\ UNCHANGED <<stdout, sh>>
     \/ /\ step = "checked" /\ Top.kind = "sigrun" /\ Top.at = "unblocked"
        /\ traps \cap Top.set = {} /\ UNCHANGED <<stdout, sh>>
     \/ step = "in" /\ Top.kind = "sigrun" /\ Top.at = "checked" /\ UNCHANGED <<stdout, sh>>

\* The innermost call or function is over.
Pop ==
  /\ stack # <<>> /\ stack' = Popped
  /\ UNCHANGED <<stdout, wanted, jumped>>
  /\ \/ Top.at \notin Over /\ Top.file = Term /\ Top.kind # "fn" /\ sh' = Left /\ Documents
     \/ Top.at = "ended" /\ UNCHANGED sh /\ Documents
     \/ Top.kind = "fn" /\ UNCHANGED <<sh, docs>>

\* A longjmp leaves the first n frames.
Cut(n) ==
  /\ Ready /\ stack' = SubSeq(stack, 1, n) /\ sh' = Unwound(n)
  /\ UNCHANGED <<stdout, wanted, docs>>
  /\ \/ jumped'
     \/ UNCHANGED jumped /\ \A i \in 1..Len(stack) : stack[i].kind = "fn"

Moves == \/ Still
         \/ \E fr \in Frames : Push(fr)
         \/ \E step \in {"in", "checked", "restored", "ended"} : Move(step)
         \/ Pop
         \/ \E n \in 0..Len(stack) : Cut(n)

LEMMA FrameType ==
  ASSUME TypeOK, NEW kind \in {"fn", "plain", "run", "sigrun"}, NEW f \in Outs, NEW set \in Masks
  PROVE  /\ Frame(kind, f, set) \in Frames
         /\ Frame(kind, f, set).kind = kind /\ Frame(kind, f, set).file = f
         /\ Frame(kind, f, set).saved = stdout /\ Frame(kind, f, set).keep = sh
         /\ Frame(kind, f, set).at = (IF kind = "sigrun" THEN "unblocked" ELSE "in")
         /\ Frame(kind, f, set).set = set /\ Frame(kind, f, set).early = pend \cap set
<1>1. pend \cap set \in Masks
  BY DEF Masks
<1> QED
  BY <1>1 DEF TypeOK, Frame, Frames

\* What Starts says of the stack, the files and stdout.
LEMMA StartFile ==
  ASSUME TypeOK, NEW f \in Outs, Starts(f)
  PROVE  /\ Ready /\ UNCHANGED <<wanted, jumped>>
         /\ f # Term => \A i \in 1..Len(stack) : stack[i].file # f
         /\ stdout' = IF f = Term THEN stdout ELSE f
  BY DEF Starts, Starting, Capturing, NoRedirect, Redirect

LEMMA EnterDocs ==
  ASSUME TypeOK, NEW name, Enter(name)
  PROVE  docs'["other"] = docs["other"]
  BY DEF TypeOK, Enter, Builtins

LEMMA CallMoves ==
  ASSUME TypeOK, NEW f \in Outs,
         \/ \E name \in {"plain", "ext"} : CallPlain(f, name)
         \/ CallRun(f)
         \/ \E set \in Masks \ {{}} : CallSigRun(f, set)
  PROVE  \E fr \in Frames : Push(fr)
<1>1. CASE \E name \in {"plain", "ext"} : CallPlain(f, name)
  <2>1. PICK name \in {"plain", "ext"} : CallPlain(f, name)
    BY <1>1
  <2>2. PICK fr \in Frames : fr = Frame("plain", f, {})
    BY FrameType DEF Masks
  <2>3. /\ fr.kind = "plain" /\ fr.file = f /\ fr.saved = stdout /\ fr.keep = sh /\ fr.at = "in"
    BY <2>2, FrameType DEF Masks
  <2>4. Starts(f) /\ docs'["other"] = docs["other"] /\ stack' = Pushed(fr) /\ sh' = sh
    BY <2>1, <2>2, EnterDocs DEF CallPlain
  <2>5. Push(fr)
    BY <2>3, <2>4, StartFile DEF Push, Entered
  <2> QED
    BY <2>5
<1>2. CASE CallRun(f)
  <2>2. PICK fr \in Frames : fr = Frame("run", f, {})
    BY FrameType DEF Masks
  <2>3. /\ fr.kind = "run" /\ fr.file = f /\ fr.saved = stdout /\ fr.keep = sh /\ fr.at = "in"
    BY <2>2, FrameType DEF Masks
  <2>4. Starts(f) /\ docs'["other"] = docs["other"] /\ stack' = Pushed(fr) /\ sh' = Quiet
    BY <1>2, <2>2, EnterDocs DEF CallRun
  <2>5. Push(fr)
    BY <2>3, <2>4, StartFile DEF Push, Entered
  <2> QED
    BY <2>5
<1>3. CASE \E set \in Masks \ {{}} : CallSigRun(f, set)
  <2>1. PICK set \in Masks : CallSigRun(f, set)
    BY <1>3
  <2>2. PICK fr \in Frames : fr = Frame("sigrun", f, set)
    BY FrameType
  <2>3. /\ fr.kind = "sigrun" /\ fr.file = f /\ fr.saved = stdout /\ fr.keep = sh
        /\ fr.at = "unblocked" /\ fr.set = set /\ fr.early = pend \cap set
    BY <2>2, FrameType
  <2>4. /\ Starts(f) /\ docs'["other"] = docs["other"] /\ stack' = Pushed(fr)
        /\ sh' = Unblocked(set) /\ traps' = traps \cup (pend \ sh'.mask)
    BY <2>1, <2>2, EnterDocs DEF CallSigRun, Deliver
  <2>5. sh'.mask = sh.mask \ set
    BY <2>4 DEF Unblocked, TypeOK, Shells
  <2>6. fr.early \subseteq traps' \cap fr.set
    BY <2>3, <2>4, <2>5
  <2>7. Push(fr)
    BY <2>3, <2>4, <2>6, StartFile DEF Push, Entered
  <2> QED
    BY <2>7
<1> QED
  BY <1>1, <1>2, <1>3

\* The end of a handler, with what its unwind frame put back.
LEMMA LeaveMoves ==
  ASSUME TypeOK, stack # <<>>, Top.at \notin Over, Top.kind # "fn", Leave(Left)
  PROVE  Moves
<1>1. CASE Top.file = Term
  <2>1. Pop
    BY <1>1 DEF Leave, Pop, NoRedirect, RestoreDocs, Documents
  <2> QED
    BY <2>1 DEF Moves
<1>2. CASE Top.file # Term
  <2>1. Move("restored")
    BY <1>2 DEF Leave, Move, RestoreStdout
  <2> QED
    BY <2>1 DEF Moves
<1> QED
  BY <1>1, <1>2

LEMMA EndMoves ==
  ASSUME TypeOK, PlainEnds \/ RunEnds \/ SigRunEnds \/ SigRunCaught
  PROVE  Moves
<1>1. CASE PlainEnds
  <2>1. stack # <<>> /\ Top.at \notin Over /\ Top.kind = "plain" /\ Leave(sh)
    BY <1>1 DEF PlainEnds, In, Over
  <2>2. Left = sh
    BY <2>1 DEF Left
  <2> QED
    BY <2>1, <2>2, LeaveMoves
<1>2. CASE RunEnds
  <2>1. stack # <<>> /\ Top.at \notin Over /\ Top.kind = "run" /\ Leave(UnwindRun(sh, Top.keep))
    BY <1>2 DEF RunEnds, In, Over
  <2>2. Left = UnwindRun(sh, Top.keep)
    BY <2>1 DEF Left
  <2> QED
    BY <2>1, <2>2, LeaveMoves
<1>3. CASE SigRunEnds \/ SigRunCaught
  <2>1. stack # <<>> /\ Top.at \notin Over /\ Top.kind = "sigrun" /\ Leave(UnwindSigs(sh, Top.keep))
    BY <1>3 DEF SigRunEnds, SigRunCaught, In, Over
  <2>2. Left = UnwindSigs(sh, Top.keep)
    BY <2>1 DEF Left
  <2> QED
    BY <2>1, <2>2, LeaveMoves
<1> QED
  BY <1>1, <1>2, <1>3

LEMMA InsideMoves ==
  ASSUME TypeOK, SigRunChecked \/ SigRunExecutes \/ Terminate \/ Collect, Nested
  PROVE  Moves
<1>1. CASE SigRunChecked
  <2>1. Move("checked")
    BY <1>1 DEF SigRunChecked, Move, In, Caught, output, doc, signals
  <2> QED
    BY <2>1 DEF Moves
<1>2. CASE SigRunExecutes
  <2>1. Move("in")
    BY <1>2 DEF SigRunExecutes, Move, In, output, doc
  <2> QED
    BY <2>1 DEF Moves
<1>3. CASE Terminate
  <2>1. Top = stack[Len(stack)] /\ Len(stack) \in 1..Len(stack) /\ stack # <<>> /\ Top.at = "restored"
    BY <1>3, TopThere DEF Terminate
  <2>2. Top.kind # "fn"
    BY <2>1 DEF Nested
  <2>3. Move("ended")
    BY <1>3, <2>2 DEF Terminate, Move, doc, signals
  <2> QED
    BY <2>3 DEF Moves
<1>4. CASE Collect
  <2>1. Pop
    BY <1>4 DEF Collect, Pop, NoRedirect, RestoreDocs, Documents, signals
  <2> QED
    BY <2>1 DEF Moves
<1> QED
  BY <1>1, <1>2, <1>3, <1>4

LEMMA FunctionMoves ==
  ASSUME TypeOK, Function \/ FunctionEnds
  PROVE  Moves
<1>1. CASE Function
  <2>1. PICK g \in Frames : g = Frame("fn", Term, {})
    BY FrameType DEF Masks, Outs
  <2>2. /\ g.kind = "fn" /\ g.file = Term /\ g.saved = stdout /\ g.keep = sh /\ g.at = "in"
    BY <2>1, FrameType DEF Masks, Outs
  <2>3. PICK fr \in Frames : fr = [g EXCEPT !.early = {}]
    BY <2>1 DEF Frames, Masks
  <2>4. /\ fr.kind = "fn" /\ fr.file = Term /\ fr.saved = stdout /\ fr.keep = sh /\ fr.at = "in"
    BY <2>1, <2>2, <2>3 DEF Frames
  <2>5. /\ Ready /\ stack' = Pushed(fr)
        /\ UNCHANGED <<stdout, docs, sh, wanted, jumped>>
    BY <1>1, <2>1, <2>3 DEF Function, output, doc, signals
  <2>6. Push(fr)
    BY <2>4, <2>5 DEF Push, Entered
  <2> QED
    BY <2>6 DEF Moves
<1>2. CASE FunctionEnds
  <2>1. Pop
    BY <1>2 DEF FunctionEnds, Pop, In, output, doc, signals
  <2> QED
    BY <2>1 DEF Moves
<1> QED
  BY <1>1, <1>2

\* What is above frame i is above the frame below it too, if frame i is a function.
LEMMA UnwoundAtFunction ==
  ASSUME TypeOK, NEW i \in 1..Len(stack), stack[i].kind = "fn"
  PROVE  Unwound(i) = Unwound(i - 1)
<1>1. ASSUME NEW kind \in {"run", "sigrun"}
      PROVE  {j \in (i + 1)..Len(stack) : stack[j].kind = kind} =
             {j \in (i - 1 + 1)..Len(stack) : stack[j].kind = kind}
  BY DEF TypeOK
<1> QED
  BY <1>1 DEF Unwound

LEMMA JumpMoves ==
  ASSUME TypeOK, Return \/ Exit
  PROVE  Moves
<1>0. stack \in Seq(Frames) /\ Len(stack) \in Nat
  BY DEF TypeOK
<1>1. CASE Return
  <2>1. PICK i \in 1..Len(stack) : /\ stack[i].kind = "fn" /\ i < Len(stack) /\ JumpTo(i)
                                   /\ \A j \in (i + 1)..Len(stack) : stack[j].kind # "fn"
    BY <1>1 DEF Return
  <2>2. jumped'
    <3>1. i + 1 \in (i + 1)..Len(stack)
      BY <1>0, <2>1
    <3>2. Skipped(i)
      BY <2>1, <3>1 DEF Skipped
    <3> QED
      BY <2>1, <3>2 DEF JumpTo
  <2>3. i - 1 \in 0..Len(stack)
    BY <1>0
  <2>4. sh' = Unwound(i - 1) /\ stack' = SubSeq(stack, 1, i - 1)
    BY <2>1, UnwoundAtFunction DEF JumpTo
  <2>5. Cut(i - 1)
    BY <1>1, <2>1, <2>2, <2>4 DEF Cut, JumpTo, Return, output, doc
  <2> QED
    BY <2>3, <2>5 DEF Moves
<1>2. CASE Exit
  <2>1. PICK n \in 0..Len(stack) : sh' = Unwound(n) /\ stack' = SubSeq(stack, 1, n)
    BY <1>2 DEF Exit
  <2>2. \/ jumped'
        \/ UNCHANGED jumped /\ \A i \in 1..Len(stack) : stack[i].kind = "fn"
    <3>1. jumped' = (jumped \/ Skipped(0))
      BY <1>2 DEF Exit
    <3>2. CASE Skipped(0)
      BY <3>1, <3>2
    <3>3. CASE ~Skipped(0)
      <4>1. \A i \in 1..Len(stack) : stack[i].kind = "fn"
        BY <3>3, <1>0 DEF Skipped
      <4>2. jumped' = jumped
        <5>1. jumped \in BOOLEAN
          BY DEF TypeOK
        <5> QED
          BY <3>1, <3>3, <5>1
      <4> QED
        BY <4>1, <4>2
    <3> QED
      BY <3>2, <3>3
  <2>3. Cut(n)
    BY <1>2, <2>1, <2>2 DEF Cut, Exit, output, doc
  <2> QED
    BY <2>3 DEF Moves
<1> QED
  BY <1>1, <1>2

\* The rest leaves the stack.
LEMMA ShellMoves ==
  ASSUME TypeOK,
         \/ CallFails
         \/ \E m \in Masks : CallSigMask(m)
         \/ \E direct \in BOOLEAN : Prints(direct)
         \/ SetErrexit \/ SetErrTrap \/ MakeReadonly \/ Fork \/ KidWrites
         \/ \E s \in Sigs : Send(s)
         \/ RunTraps
         \/ UNCHANGED vars
  PROVE  Still
<1>0. Documents <=> docs' = [docs EXCEPT !["L_builtin"] = "L_builtin"]
  BY DEF Documents
<1>1. CASE CallFails
  BY <1>1 DEF CallFails, Still, Enter, Documents, NoRedirect, Quietly, signals
<1>2. CASE \E m \in Masks : CallSigMask(m)
  <2>1. PICK m \in Masks : CallSigMask(m)
    BY <1>2
  <2>2. Masking(m) /\ Documents /\ UNCHANGED <<stack, stdout, jumped>> /\ Ready
    BY <2>1 DEF CallSigMask, Masking, Documents, NoRedirect
  <2> QED
    BY <2>2 DEF Still
<1>3. CASE \E direct \in BOOLEAN : Prints(direct)
  BY <1>3 DEF Prints, Still, Quietly, signals
<1>4. CASE SetErrexit
  BY <1>4 DEF SetErrexit, Still, Obeys, output, signals
<1>5. CASE SetErrTrap
  <2>1. PICK t \in {NoTrap, "trap"} : /\ sh' = [sh EXCEPT !.errtrap = t]
                                      /\ wanted' = IF Inside("run") THEN wanted ELSE [wanted EXCEPT !.errtrap = t]
    BY <1>5 DEF SetErrTrap
  <2> QED
    BY <1>5, <2>1 DEF SetErrTrap, Still, Trapping, output
<1>6. CASE MakeReadonly \/ Fork \/ RunTraps
  BY <1>6 DEF MakeReadonly, Fork, RunTraps, Still, Quietly, output, doc, signals
<1>7. CASE KidWrites
  BY <1>7 DEF KidWrites, Still, Quietly, doc, signals
<1>8. CASE \E s \in Sigs : Send(s)
  BY <1>8 DEF Send, Still, Quietly, output, doc
<1>9. CASE UNCHANGED vars
  BY <1>9 DEF vars, Still, Quietly, output, doc, signals
<1> QED
  BY <1>1, <1>2, <1>3, <1>4, <1>5, <1>6, <1>7, <1>8, <1>9

LEMMA StepMoves == TypeOK /\ Nested /\ [Next]_vars => Moves
<1> SUFFICES ASSUME TypeOK, Nested, [Next]_vars PROVE Moves
  OBVIOUS
<1>1. CASE \/ \E f \in Outs : \E name \in {"plain", "ext"} : CallPlain(f, name)
           \/ \E f \in Outs : CallRun(f) \/ \E set \in Masks \ {{}} : CallSigRun(f, set)
  BY <1>1, CallMoves DEF Moves
<1>2. CASE \/ CallFails
           \/ \E m \in Masks : CallSigMask(m)
           \/ \E direct \in BOOLEAN : Prints(direct)
           \/ SetErrexit \/ SetErrTrap \/ MakeReadonly \/ Fork \/ KidWrites
           \/ \E s \in Sigs : Send(s)
           \/ RunTraps
           \/ UNCHANGED vars
  BY <1>2, ShellMoves DEF Moves
<1>3. CASE PlainEnds \/ RunEnds \/ SigRunEnds \/ SigRunCaught
  BY <1>3, EndMoves
<1>4. CASE SigRunChecked \/ SigRunExecutes \/ Terminate \/ Collect
  BY <1>4, InsideMoves
<1>5. CASE Function \/ FunctionEnds
  BY <1>5, FunctionMoves
<1>6. CASE Return \/ Exit
  BY <1>6, JumpMoves
<1> QED
  BY <1>1, <1>2, <1>3, <1>4, <1>5, <1>6 DEF Next

-----------------------------------------------------------------------------
(* Types. *)

\* What a step does to the files: nothing, a flush, or a write.
Flushes == text' = Flushed(text) /\ buffer' = {} /\ UNCHANGED <<own, prints>>

LEMMA OutputMoves ==
  ASSUME [Next]_vars
  PROVE  \/ UNCHANGED <<text, own, buffer, stdout, prints>>
         \/ Flushes
         \/ \E direct \in BOOLEAN : Prints(direct)
         \/ KidWrites
<1>1. CASE \E f \in Outs : \/ \E name \in {"plain", "ext"} : CallPlain(f, name)
                           \/ CallRun(f)
                           \/ \E set \in Masks \ {{}} : CallSigRun(f, set)
  BY <1>1 DEF CallPlain, CallRun, CallSigRun, Starts, Capturing, Redirect, NoRedirect, Flushes
<1>2. CASE CallFails \/ \E m \in Masks : CallSigMask(m)
  BY <1>2 DEF CallFails, CallSigMask, NoRedirect, Flushes
<1>3. CASE PlainEnds \/ RunEnds \/ SigRunEnds \/ SigRunCaught
  BY <1>3 DEF PlainEnds, RunEnds, SigRunEnds, SigRunCaught, Leave, NoRedirect, RestoreStdout, Flushes, script
<1>4. CASE Collect
  BY <1>4 DEF Collect, NoRedirect, Flushes, script
<1>5. CASE \/ SigRunChecked \/ SigRunExecutes \/ Terminate \/ Function \/ FunctionEnds
           \/ Return \/ Exit \/ SetErrexit \/ SetErrTrap \/ MakeReadonly \/ Fork
           \/ (\E s \in Sigs : Send(s)) \/ RunTraps \/ UNCHANGED vars
  BY <1>5 DEF SigRunChecked, SigRunExecutes, Terminate, Function, FunctionEnds, Return, JumpTo, Exit,
     SetErrexit, SetErrTrap, MakeReadonly, Fork, Send, RunTraps, vars, output, script
<1> QED
  BY <1>1, <1>2, <1>3, <1>4, <1>5 DEF Next

LEMMA FlushType ==
  ASSUME TypeOK
  PROVE  /\ Flushed(text) \in [Outs -> SUBSET Nat]
         /\ \A f \in Outs : Flushed(text)[f] = text[f] \cup (IF f = stdout THEN buffer ELSE {})
  BY DEF TypeOK, Flushed

\* The innermost capture has a file, and there is none only if no capture is open.
LEMMA PointsTarget ==
  ASSUME TypeOK, NEW f, Points(stack, Len(stack), f)
  PROVE  Target = f
<1> DEFINE open == {i \in 1..Len(stack) : stack[i].file # Term /\ stack[i].at \notin {"restored", "ended"}}
<1>0. Len(stack) \in Nat
  BY DEF TypeOK
<1>1. Target = IF open = {} THEN Term
               ELSE stack[CHOOSE i \in open : \A j \in open : j <= i].file
  BY DEF Target
<1>2. \A i \in 1..Len(stack) : i \in open <=> Open(stack, i)
  BY DEF Open, Over
<1>3. CASE f = Term /\ \A j \in 1..Len(stack) : ~Open(stack, j)
  <2>1. open = {}
    BY <1>2, <1>3
  <2> QED
    BY <1>1, <1>3, <2>1
<1>4. ASSUME NEW i \in 1..Len(stack), Open(stack, i), f = stack[i].file, \A j \in (i + 1)..Len(stack) : ~Open(stack, j)
      PROVE  Target = f
  <2>1. i \in open /\ \A j \in open : j <= i
    BY <1>0, <1>2, <1>4
  <2> HIDE DEF open
  <2>2. open \subseteq Nat
    BY <1>0 DEF open
  <2>3. \A k \in open : (\A j \in open : j <= k) => k = i
    BY <2>1, <2>2
  <2>4. (CHOOSE k \in open : \A j \in open : j <= k) = i
    BY <2>1, <2>3
  <2> QED
    BY <1>1, <1>4, <2>1, <2>4
<1> QED
  BY <1>3, <1>4 DEF Points

LEMMA TargetType ==
  ASSUME TypeOK
  PROVE  Target \in Outs
<1> DEFINE open == {i \in 1..Len(stack) : stack[i].file # Term /\ stack[i].at \notin {"restored", "ended"}}
           below == {Len(stack) - i : i \in open}
<1>0. Len(stack) \in Nat /\ open \subseteq 1..Len(stack)
  BY DEF TypeOK
<1>1. Target = IF open = {} THEN Term
               ELSE stack[CHOOSE i \in open : \A j \in open : j <= i].file
  BY DEF Target
<1> HIDE DEF open
<1>2. CASE open = {}
  BY <1>1, <1>2 DEF Outs
<1>3. CASE open # {}
  <2>0. \A i \in open : Len(stack) - i \in Nat
    BY <1>0
  <2>1. below \in SUBSET Nat /\ below # {}
    BY <1>3, <2>0
  <2>2. PICK b \in below : \A c \in below : b <= c
    BY <2>1, LeastNumber
  <2>3. PICK i \in open : b = Len(stack) - i
    BY <2>2
  <2>4. ASSUME NEW j \in open PROVE j <= i
    <3>1. Len(stack) - j \in below
      OBVIOUS
    <3>2. b <= Len(stack) - j
      BY <2>2, <3>1
    <3> QED
      BY <1>0, <2>3, <3>2
  <2>5. (CHOOSE k \in open : \A j \in open : j <= k) \in open
    BY <2>4
  <2>6. \A k \in open : stack[k].file \in Outs
    BY <1>0, FrameFields
  <2> QED
    BY <1>1, <1>3, <2>5, <2>6
<1> QED
  BY <1>2, <1>3

LEMMA OutputTypes ==
  ASSUME TypeOK, [Next]_vars
  PROVE  /\ text' \in [Outs -> SUBSET Nat] /\ own' \in [Outs -> SUBSET Nat]
         /\ buffer' \subseteq Nat /\ prints' \in Nat
<1>1. CASE UNCHANGED <<text, own, buffer, stdout, prints>>
  BY <1>1 DEF TypeOK
<1>2. CASE Flushes
  BY <1>2, FlushType DEF TypeOK, Flushes
<1>3. ASSUME NEW direct \in BOOLEAN, Prints(direct)
      PROVE  /\ text' \in [Outs -> SUBSET Nat] /\ own' \in [Outs -> SUBSET Nat]
             /\ buffer' \subseteq Nat /\ prints' \in Nat
  <2>1. prints' \in Nat
    BY <1>3 DEF Prints, TypeOK
  <2>2. own' \in [Outs -> SUBSET Nat]
    BY <1>3, <2>1, TargetType DEF Prints, TypeOK
  <2>3. text' \in [Outs -> SUBSET Nat] /\ buffer' \subseteq Nat
    <3>1. text \in [Outs -> SUBSET Nat] /\ buffer \subseteq Nat /\ stdout \in Outs
      BY DEF TypeOK
    <3>2. \/ text' = [text EXCEPT ![stdout] = @ \cup {prints'}] /\ UNCHANGED buffer
          \/ buffer' = buffer \cup {prints'} /\ UNCHANGED text
      BY <1>3 DEF Prints
    <3> QED
      BY <2>1, <3>1, <3>2
  <2> QED
    BY <2>1, <2>2, <2>3
<1>4. CASE KidWrites
  <2>1. prints' \in Nat /\ buffer' = buffer
    BY <1>4 DEF KidWrites, TypeOK
  <2>2. PICK i \in 1..Len(kids) :
           \/ UNCHANGED <<text, own>>
           \/ /\ text' = [text EXCEPT ![kids[i].out] = @ \cup {prints'}]
              /\ own' = [own EXCEPT ![kids[i].due] = @ \cup {prints'}]
    BY <1>4 DEF KidWrites
  <2>3. kids[i].out \in Outs /\ kids[i].due \in Outs
    BY ChildFields
  <2>4. text' \in [Outs -> SUBSET Nat] /\ own' \in [Outs -> SUBSET Nat]
    BY <2>1, <2>2, <2>3 DEF TypeOK
  <2> QED
    BY <2>1, <2>4 DEF TypeOK
<1> QED
  BY <1>1, <1>2, <1>3, <1>4, OutputMoves

LEMMA EnteredType ==
  ASSUME TypeOK, NEW fr \in Frames
  PROVE  Entered(fr) \in Shells
<1>1. sh \in Shells /\ fr.set \in Masks
  BY DEF TypeOK, Frames
<1>2. Quiet \in Shells
  BY <1>1 DEF Quiet, Shells
<1>3. Unblocked(fr.set) \in Shells
  <2>1. sh.mask \ fr.set \in Masks
    BY <1>1, Fields DEF Masks
  <2> QED
    BY <1>1, <2>1 DEF Unblocked, Shells
<1> QED
  BY <1>1, <1>2, <1>3 DEF Entered

\* What the unwind frame of a call leaves, field by field.
LEMMA LeftFields ==
  ASSUME TypeOK, stack # <<>>
  PROVE  /\ Left \in Shells /\ Left.flag = sh.flag
         /\ Top.kind = "sigrun" => Left.mask = Top.keep.mask /\ Left.top = Top.keep.top
         /\ Top.kind # "sigrun" => Left.mask = sh.mask /\ Left.top = sh.top
         /\ Top.kind = "run" =>
              /\ Left.immediate = (IF Top.keep.ignoring THEN FALSE ELSE sh.flag)
              /\ Left.ignoring = Top.keep.ignoring
              /\ Left.errtrap = (IF Top.keep.errtrap = NoTrap THEN sh.errtrap ELSE Top.keep.errtrap)
         /\ Top.kind # "run" => /\ Left.immediate = sh.immediate /\ Left.ignoring = sh.ignoring
                                /\ Left.errtrap = sh.errtrap
<1>1. sh \in Shells /\ Top.keep \in Shells
  BY TopThere, FrameFields DEF TypeOK
<1>2. CASE Top.kind = "run"
  <2>1. PICK imm \in BOOLEAN : imm = IF Top.keep.ignoring THEN FALSE ELSE sh.flag
    BY <1>1, Fields
  <2>2. PICK trap \in {NoTrap, "trap"} : trap = IF Top.keep.errtrap = NoTrap THEN sh.errtrap ELSE Top.keep.errtrap
    BY <1>1, Fields
  <2>3. Left = [sh EXCEPT !.immediate = imm, !.ignoring = Top.keep.ignoring, !.errtrap = trap]
    BY <1>2, <2>1, <2>2 DEF Left, UnwindRun
  <2>4. Left = [mask |-> sh.mask, top |-> sh.top, errtrap |-> trap, immediate |-> imm,
                ignoring |-> Top.keep.ignoring, flag |-> sh.flag]
    BY <1>1, <2>3 DEF Shells
  <2> QED
    BY <1>1, <1>2, <2>1, <2>2, <2>4, Fields, ShellType
<1>3. CASE Top.kind = "sigrun"
  <2>1. Left = [sh EXCEPT !.mask = Top.keep.mask, !.top = Top.keep.top]
    BY <1>3 DEF Left, UnwindSigs
  <2>2. Left = [mask |-> Top.keep.mask, top |-> Top.keep.top, errtrap |-> sh.errtrap,
                immediate |-> sh.immediate, ignoring |-> sh.ignoring, flag |-> sh.flag]
    BY <1>1, <2>1 DEF Shells
  <2> QED
    BY <1>1, <1>3, <2>2, Fields, ShellType
<1>4. CASE Top.kind \notin {"run", "sigrun"}
  <2>1. Left = sh
    BY <1>4 DEF Left
  <2> QED
    BY <1>1, <1>4, <2>1
<1> QED
  BY <1>2, <1>3, <1>4

LEMMA MoveTypes ==
  ASSUME TypeOK, Moves
  PROVE  stack' \in Seq(Frames) /\ stdout' \in Outs /\ sh' \in Shells /\ wanted' \in Wishes
<1>0. stack \in Seq(Frames) /\ stdout \in Outs /\ sh \in Shells /\ wanted \in Wishes
  BY DEF TypeOK
<1>1. CASE Still
  <2>1. CASE Quietly
    BY <1>0, <1>1, <2>1 DEF Still, Quietly
  <2>2. CASE Obeys /\ UNCHANGED wanted
    BY <1>0, <1>1, <2>2 DEF Still, Obeys, Shells
  <2>3. ASSUME NEW m \in Masks, Masking(m) PROVE sh' \in Shells /\ wanted' \in Wishes
    BY <1>0, <2>3 DEF Masking, Wished, Shells, Wishes
  <2>4. ASSUME NEW t \in {NoTrap, "trap"}, Trapping(t) PROVE sh' \in Shells /\ wanted' \in Wishes
    BY <1>0, <2>4 DEF Trapping, Shells, Wishes
  <2> QED
    BY <1>0, <1>1, <2>1, <2>2, <2>3, <2>4 DEF Still
<1>2. CASE \E fr \in Frames : Push(fr)
  <2>1. PICK fr \in Frames : Push(fr)
    BY <1>2
  <2>2. fr.file \in Outs
    BY DEF Frames
  <2> QED
    BY <1>0, <2>1, <2>2, EnteredType, Pushes DEF Push
<1>3. CASE \E step \in {"in", "checked", "restored", "ended"} : Move(step)
  <2>1. PICK step \in {"in", "unblocked", "checked", "restored", "ended"} : Move(step)
    BY <1>3
  <2>2. Top.saved \in Outs /\ Left \in Shells
    BY <2>1, TopThere, FrameFields, LeftFields DEF Move
  <2> QED
    BY <1>0, <2>1, <2>2, Ats DEF Move
<1>4. CASE Pop
  BY <1>0, <1>4, Pops, LeftFields DEF Pop
<1>5. CASE \E n \in 0..Len(stack) : Cut(n)
  BY <1>0, <1>5, Cuts, UnwoundType DEF Cut
<1> QED
  BY <1>1, <1>2, <1>3, <1>4, <1>5 DEF Moves

\* The rest.
Counted == kids' \in Seq(Children) /\ pend' \in Masks /\ traps' \in Masks
           /\ jumped' \in BOOLEAN /\ exited' \in BOOLEAN /\ readonly' \in BOOLEAN
           /\ docs' \in [Builtins -> Names]

LEMMA RestTypes ==
  ASSUME TypeOK, [Next]_vars
  PROVE  Counted
<1>0. /\ kids \in Seq(Children) /\ pend \in Masks /\ traps \in Masks
      /\ jumped \in BOOLEAN /\ exited \in BOOLEAN /\ readonly \in BOOLEAN
      /\ docs \in [Builtins -> Names]
  BY DEF TypeOK
<1>d. ASSUME NEW m, Deliver(m) PROVE pend' \in Masks /\ traps' \in Masks
  BY <1>0, <1>d DEF Deliver, Masks
<1>e. ASSUME NEW name \in Names, Enter(name) PROVE docs' \in [Builtins -> Names]
  BY <1>0, <1>e DEF Enter
<1>r. ASSUME RestoreDocs PROVE docs' \in [Builtins -> Names]
  BY <1>0, <1>r DEF RestoreDocs, Names, Builtins
<1>1. CASE \E f \in Outs : \/ \E name \in {"plain", "ext"} : CallPlain(f, name)
                           \/ CallRun(f)
                           \/ \E set \in Masks \ {{}} : CallSigRun(f, set)
  BY <1>0, <1>d, <1>e, <1>1 DEF CallPlain, CallRun, CallSigRun, Starts, Counted, Names, Builtins
<1>2. CASE CallFails
  BY <1>0, <1>e, <1>2 DEF CallFails, Counted, signals, Names, Builtins
<1>3. CASE \E m \in Masks : CallSigMask(m)
  <2>1. docs' = [docs EXCEPT !["L_builtin"] = "L_builtin"] /\ (\E m \in Masks : Deliver(m))
        /\ UNCHANGED <<kids, readonly, jumped, exited>>
    BY <1>3 DEF CallSigMask
  <2> QED
    BY <1>0, <1>d, <2>1 DEF Counted, Names, Builtins
<1>4. CASE PlainEnds \/ RunEnds \/ SigRunEnds \/ SigRunCaught
  <2>1. /\ pend' \in Masks /\ traps' \in Masks
    BY <1>0, <1>d, <1>4 DEF PlainEnds, RunEnds, SigRunEnds, SigRunCaught, Masks
  <2>2. /\ docs' \in [Builtins -> Names] /\ UNCHANGED <<kids, readonly, jumped, exited>>
    BY <1>0, <1>r, <1>4 DEF PlainEnds, RunEnds, SigRunEnds, SigRunCaught, Leave
  <2> QED
    BY <1>0, <2>1, <2>2 DEF Counted
<1>5. CASE Collect
  BY <1>0, <1>r, <1>5 DEF Collect, Counted, signals
<1>6. CASE Fork
  <2>1. PICK kid : /\ kids' = Append(kids, kid)
                   /\ kid = [out |-> stdout, due |-> Target, mask |-> sh.top,
                             set |-> IF stack # <<>> /\ Top.kind = "sigrun" THEN Top.set ELSE {}]
    BY <1>6 DEF Fork
  <2>2. (IF stack # <<>> /\ Top.kind = "sigrun" THEN Top.set ELSE {}) \in Masks
    BY TopThere, FrameFields DEF Masks
  <2>3. stdout \in Outs /\ Target \in Outs /\ sh.top \in Masks
    BY TargetType, Fields DEF TypeOK
  <2>4. kid \in Children
    BY <2>1, <2>2, <2>3 DEF Children
  <2> QED
    BY <1>0, <1>6, <2>1, <2>4 DEF Fork, Counted, doc, signals
<1>7. CASE Return
  <2>1. \E i \in 1..Len(stack) : jumped' = (jumped \/ Skipped(i))
    BY <1>7 DEF Return, JumpTo
  <2>2. \E m : Deliver(m)
    BY <1>7 DEF Return
  <2>3. UNCHANGED <<docs, kids, readonly, exited>>
    BY <1>7 DEF Return, JumpTo, doc
  <2> QED
    BY <1>0, <1>d, <2>1, <2>2, <2>3 DEF Counted
<1>8. CASE Exit
  <2>1. jumped' = (jumped \/ Skipped(0)) /\ exited' = TRUE
    BY <1>8 DEF Exit
  <2>2. \E m : Deliver(m)
    BY <1>8 DEF Exit
  <2>3. UNCHANGED <<docs, kids, readonly>>
    BY <1>8 DEF Exit, doc
  <2> QED
    BY <1>0, <1>d, <2>1, <2>2, <2>3 DEF Counted
<1>9. CASE \E s \in Sigs : Send(s)
  BY <1>0, <1>9 DEF Send, Counted, doc, Masks
<1>10. CASE \E direct \in BOOLEAN : Prints(direct)
  BY <1>0, <1>10 DEF Prints, Counted, signals
<1>11. CASE MakeReadonly \/ SigRunExecutes \/ RunTraps
  BY <1>0, <1>11 DEF MakeReadonly, SigRunExecutes, RunTraps, Counted, doc, signals, Masks
<1>12. CASE SigRunChecked \/ Terminate \/ Function \/ FunctionEnds
            \/ SetErrexit \/ SetErrTrap \/ KidWrites \/ UNCHANGED vars
  BY <1>0, <1>12 DEF SigRunChecked, Terminate, Function, FunctionEnds, SetErrexit, SetErrTrap, KidWrites,
     vars, Counted, doc, signals
<1> QED
  BY <1>1, <1>2, <1>3, <1>4, <1>5, <1>6, <1>7, <1>8, <1>9, <1>10, <1>11, <1>12 DEF Next

LEMMA TypeStep ==
  ASSUME TypeOK, Nested, [Next]_vars
  PROVE  TypeOK'
  BY StepMoves, MoveTypes, OutputTypes, RestTypes DEF TypeOK, Counted

-----------------------------------------------------------------------------
(* The stack. *)

LEMMA InitIInv == Init => IInv
<1> SUFFICES ASSUME Init PROVE IInv
  OBVIOUS
<1>1. PICK m \in Masks :
        /\ sh = [mask |-> m, top |-> m, errtrap |-> NoTrap, immediate |-> FALSE,
                 ignoring |-> FALSE, flag |-> FALSE]
        /\ wanted = [mask |-> m, top |-> m, errtrap |-> NoTrap]
  BY DEF Init
<1>2. stack = <<>> /\ Len(stack) = 0 /\ kids = <<>> /\ Len(kids) = 0
  BY DEF Init
<1>3. TypeOK
  <2>1. sh \in Shells /\ wanted \in Wishes
    BY <1>1 DEF Shells, Wishes
  <2>2. text \in [Outs -> SUBSET Nat] /\ own \in [Outs -> SUBSET Nat] /\ buffer \subseteq Nat /\ stdout \in Outs
    BY DEF Init, Outs
  <2>3. docs \in [Builtins -> Names]
    BY DEF Init, Names
  <2>4. stack \in Seq(Frames) /\ kids \in Seq(Children)
    BY <1>2
  <2>5. /\ pend \in Masks /\ traps \in Masks /\ prints \in Nat
        /\ jumped \in BOOLEAN /\ exited \in BOOLEAN /\ readonly \in BOOLEAN
    BY DEF Init, Masks
  <2> QED
    BY <2>1, <2>2, <2>3, <2>4, <2>5 DEF TypeOK
<1>4. Nested /\ Apart /\ KidsPointed /\ Chained /\ Listed /\ KidsMasked /\ Early
  BY <1>2 DEF Nested, Apart, KidsPointed, Chained, Listed, KidsMasked, Early
<1>5. Pointed /\ OutputInPlace /\ CapturedWhole
  BY <1>2 DEF Init, Pointed, Points, OutputInPlace, CapturedWhole, NoCapture
<1>6. Documented
  BY DEF Init, Documented, Builtins
<1>7. Masked /\ Trapped
  BY <1>1, <1>2 DEF Masked, Trapped
<1>8. Ignored /\ Immediate
  BY <1>1, <1>2 DEF Ignored, Immediate
<1> QED
  BY <1>3, <1>4, <1>5, <1>6, <1>7, <1>8 DEF IInv

\* While the shell reads commands every frame is at its command.
LEMMA ReadyFrames ==
  ASSUME TypeOK, Nested, Ready, NEW i \in 1..Len(stack)
  PROVE  stack[i].at = "in" /\ stack[i].kind # "plain"
<1>1. CASE i = Len(stack)
  <2>1. stack # <<>>
    BY <1>1
  <2> QED
    BY <1>1, <2>1, TopThere DEF Ready
<1>2. CASE i # Len(stack)
  BY <1>2 DEF TypeOK, Nested
<1> QED
  BY <1>1, <1>2

\* A frame as far as the stack is concerned.
Sits(s, i) ==
  /\ i < Len(s) => s[i].at = "in" /\ s[i].kind # "plain"
  /\ s[i].kind = "fn" => s[i].file = Term /\ s[i].at = "in"
  /\ s[i].at \in Over => s[i].file # Term
  /\ s[i].at \in {"unblocked", "checked"} => s[i].kind = "sigrun"

LEMMA NestedStep ==
  ASSUME TypeOK, Nested, Moves
  PROVE  Nested'
<1>0. Len(stack) \in Nat
  BY DEF TypeOK
<1>a. \A i \in 1..Len(stack) : Sits(stack, i)
  BY DEF Nested, Sits
<1> SUFFICES ASSUME NEW i \in 1..Len(stack') PROVE Sits(stack', i)
  BY DEF Nested, Sits
<1>1. CASE Still
  BY <1>1, <1>a DEF Still
<1>2. ASSUME NEW fr \in Frames, Push(fr) PROVE Sits(stack', i)
  <2>1. /\ Len(stack') = Len(stack) + 1 /\ stack'[Len(stack) + 1] = fr
        /\ \A k \in 1..Len(stack) : stack'[k] = stack[k]
    BY <1>2, Pushes DEF Push
  <2>2. CASE i \in 1..Len(stack)
    <3>1. stack[i].at = "in" /\ stack[i].kind # "plain"
      BY <1>2, <2>2, ReadyFrames DEF Push
    <3>2. Sits(stack, i)
      BY <1>a, <2>2
    <3> QED
      BY <2>1, <2>2, <3>1, <3>2 DEF Sits
  <2>3. CASE i = Len(stack) + 1
    BY <1>0, <1>2, <2>1, <2>3 DEF Push, Sits, Over
  <2> QED
    BY <1>0, <2>1, <2>2, <2>3
<1>3. ASSUME NEW step \in {"in", "unblocked", "checked", "restored", "ended"}, Move(step)
      PROVE  Sits(stack', i)
  <2>1. /\ Len(stack') = Len(stack) /\ stack'[Len(stack)] = [Top EXCEPT !.at = step]
        /\ \A k \in 1..(Len(stack) - 1) : stack'[k] = stack[k]
    BY <1>3, Ats DEF Move
  <2>2. Top = stack[Len(stack)] /\ Top \in Frames /\ Len(stack) \in 1..Len(stack)
    BY <1>3, TopThere DEF Move
  <2>3. CASE i = Len(stack)
    <3>1. stack'[i].at = step /\ stack'[i].kind = Top.kind /\ stack'[i].file = Top.file
      BY <2>1, <2>2, <2>3 DEF Frames
    <3>2. Sits(stack, i)
      BY <1>a, <2>2, <2>3
    <3> QED
      BY <1>0, <1>3, <2>1, <2>2, <2>3, <3>1, <3>2 DEF Move, Sits, Over
  <2>4. CASE i # Len(stack)
    <3>1. i \in 1..(Len(stack) - 1)
      BY <1>0, <2>1, <2>4
    <3> QED
      BY <1>a, <2>1, <3>1 DEF Sits
  <2> QED
    BY <2>3, <2>4
<1>4. ASSUME NEW n \in 0..Len(stack), stack' = SubSeq(stack, 1, n) PROVE Sits(stack', i)
  <2>1. Len(stack') = n /\ stack'[i] = stack[i] /\ i \in 1..Len(stack) /\ (i < n => i < Len(stack))
    BY <1>0, <1>4, Cuts
  <2>2. Sits(stack, i)
    BY <1>a, <2>1
  <2> QED
    BY <2>1, <2>2 DEF Sits
<1>5. CASE Pop
  BY <1>4, <1>5, Pops DEF Pop
<1>6. ASSUME NEW n \in 0..Len(stack), Cut(n) PROVE Sits(stack', i)
  BY <1>4, <1>6 DEF Cut
<1> QED
  BY <1>1, <1>2, <1>3, <1>5, <1>6 DEF Moves

LEMMA ApartStep ==
  ASSUME TypeOK, Apart, Moves
  PROVE  Apart'
<1>0. Len(stack) \in Nat
  BY DEF TypeOK
<1> SUFFICES ASSUME NEW i \in 1..Len(stack'), NEW j \in 1..Len(stack'), i # j, stack'[i].file # Term
             PROVE  stack'[i].file # stack'[j].file
  BY DEF Apart
<1>1. CASE Still
  BY <1>1 DEF Still, Apart
<1>2. ASSUME NEW fr \in Frames, Push(fr) PROVE stack'[i].file # stack'[j].file
  <2>1. /\ Len(stack') = Len(stack) + 1 /\ stack'[Len(stack) + 1] = fr
        /\ \A k \in 1..Len(stack) : stack'[k] = stack[k]
    BY <1>2, Pushes DEF Push
  <2>2. \A k \in 1..Len(stack) : fr.file # Term => stack[k].file # fr.file
    BY <1>2 DEF Push
  <2>3. \A k \in 1..Len(stack') : k \in 1..Len(stack) \/ k = Len(stack) + 1
    BY <1>0, <2>1
  <2> QED
    BY <2>1, <2>2, <2>3 DEF Apart
<1>3. ASSUME NEW step \in {"in", "unblocked", "checked", "restored", "ended"}, Move(step)
      PROVE  stack'[i].file # stack'[j].file
  <2>1. Top = stack[Len(stack)] /\ Top \in Frames
    BY <1>3, TopThere DEF Move
  <2>2. \A k \in 1..Len(stack) : stack'[k].file = stack[k].file
    <3>1. stack'[Len(stack)].file = stack[Len(stack)].file
      BY <1>3, <2>1, Ats DEF Move, Frames
    <3>2. \A k \in 1..(Len(stack) - 1) : stack'[k] = stack[k]
      BY <1>3, Ats DEF Move
    <3> QED
      BY <1>0, <3>1, <3>2
  <2>3. Len(stack') = Len(stack)
    BY <1>3, Ats DEF Move
  <2> QED
    BY <2>2, <2>3 DEF Apart
<1>4. ASSUME NEW n \in 0..Len(stack), stack' = SubSeq(stack, 1, n) PROVE stack'[i].file # stack'[j].file
  <2>1. /\ stack'[i] = stack[i] /\ i \in 1..Len(stack)
        /\ stack'[j] = stack[j] /\ j \in 1..Len(stack)
    BY <1>0, <1>4, Cuts
  <2> QED
    BY <2>1 DEF Apart
<1>5. CASE Pop
  BY <1>4, <1>5, Pops DEF Pop
<1>6. ASSUME NEW n \in 0..Len(stack), Cut(n) PROVE stack'[i].file # stack'[j].file
  BY <1>4, <1>6 DEF Cut
<1> QED
  BY <1>1, <1>2, <1>3, <1>5, <1>6 DEF Moves

-----------------------------------------------------------------------------
(* Where output goes. *)

\* What the innermost capture is does not depend on the frames above.
LEMMA PointsSame ==
  ASSUME NEW s, NEW t, NEW n \in Nat, NEW f,
         \A k \in 1..n : t[k].file = s[k].file /\ t[k].at = s[k].at,
         Points(s, n, f)
  PROVE  Points(t, n, f)
<1>1. \A k \in 1..n : Open(t, k) <=> Open(s, k)
  BY DEF Open
<1>2. CASE f = Term /\ \A j \in 1..n : ~Open(s, j)
  BY <1>1, <1>2 DEF Points
<1>3. ASSUME NEW i \in 1..n, Open(s, i), f = s[i].file, \A j \in (i + 1)..n : ~Open(s, j)
      PROVE  Points(t, n, f)
  <2>1. \A j \in (i + 1)..n : j \in 1..n
    OBVIOUS
  <2>2. Open(t, i) /\ f = t[i].file /\ \A j \in (i + 1)..n : ~Open(t, j)
    BY <1>1, <1>3, <2>1
  <2> QED
    BY <2>2 DEF Points
<1> QED
  BY <1>2, <1>3 DEF Points

\* One frame more: what it captures to, or what there was.
LEMMA PointsNext ==
  ASSUME NEW s, NEW n \in Nat, NEW f
  PROVE  /\ ~Open(s, n + 1) => (Points(s, n, f) <=> Points(s, n + 1, f))
         /\ Open(s, n + 1) => Points(s, n + 1, s[n + 1].file)
<1>1. ASSUME ~Open(s, n + 1), Points(s, n, f) PROVE Points(s, n + 1, f)
  <2>1. CASE f = Term /\ \A j \in 1..n : ~Open(s, j)
    <3>1. \A j \in 1..(n + 1) : j \in 1..n \/ j = n + 1
      OBVIOUS
    <3> QED
      BY <1>1, <2>1, <3>1 DEF Points
  <2>2. ASSUME NEW i \in 1..n, Open(s, i), f = s[i].file, \A j \in (i + 1)..n : ~Open(s, j)
        PROVE  Points(s, n + 1, f)
    <3>1. i \in 1..(n + 1) /\ \A j \in (i + 1)..(n + 1) : j \in (i + 1)..n \/ j = n + 1
      OBVIOUS
    <3>2. \A j \in (i + 1)..(n + 1) : ~Open(s, j)
      BY <1>1, <2>2, <3>1
    <3> QED
      BY <2>2, <3>1, <3>2 DEF Points
  <2> QED
    BY <1>1, <2>1, <2>2 DEF Points
<1>2. ASSUME ~Open(s, n + 1), Points(s, n + 1, f) PROVE Points(s, n, f)
  <2>1. CASE f = Term /\ \A j \in 1..(n + 1) : ~Open(s, j)
    <3>1. \A j \in 1..n : j \in 1..(n + 1)
      OBVIOUS
    <3> QED
      BY <2>1, <3>1 DEF Points
  <2>2. ASSUME NEW i \in 1..(n + 1), Open(s, i), f = s[i].file,
               \A j \in (i + 1)..(n + 1) : ~Open(s, j)
        PROVE  Points(s, n, f)
    <3>1. i # n + 1
      BY <1>2, <2>2
    <3>2. i \in 1..n /\ \A j \in (i + 1)..n : j \in (i + 1)..(n + 1)
      BY <3>1
    <3> QED
      BY <2>2, <3>2 DEF Points
  <2> QED
    BY <1>2, <2>1, <2>2 DEF Points
<1>3. ASSUME Open(s, n + 1) PROVE Points(s, n + 1, s[n + 1].file)
  <2>1. n + 1 \in 1..(n + 1) /\ (n + 1 + 1)..(n + 1) = {}
    OBVIOUS
  <2> QED
    BY <1>3, <2>1 DEF Points
<1> QED
  BY <1>1, <1>2, <1>3

LEMMA PointsBefore ==
  ASSUME NEW s, NEW n \in Nat, n - 1 \in Nat, NEW f
  PROVE  /\ ~Open(s, n) => (Points(s, n - 1, f) <=> Points(s, n, f))
         /\ Open(s, n) => Points(s, n, s[n].file)
<1>1. PICK m \in Nat : m = n - 1
  OBVIOUS
<1>2. m + 1 = n
  BY <1>1
<1>3. /\ ~Open(s, m + 1) => (Points(s, m, f) <=> Points(s, m + 1, f))
      /\ Open(s, m + 1) => Points(s, m + 1, s[m + 1].file)
  BY PointsNext
<1> QED
  BY <1>1, <1>2, <1>3

LEMMA PointedStep ==
  ASSUME TypeOK, Nested, Pointed, Moves
  PROVE  Pointed'
<1> DEFINE n == Len(stack)
<1>0. n \in Nat
  BY DEF TypeOK
<1>1. CASE Still
  BY <1>1 DEF Still, Pointed
<1>2. ASSUME ~jumped', NEW fr \in Frames, Push(fr) PROVE Pointed'
  <2>1. /\ Len(stack') = n + 1 /\ stack'[n + 1] = fr
        /\ \A k \in 1..n : stack'[k] = stack[k]
    BY <1>2, Pushes DEF Push
  <2>2. /\ Points(stack, n, stdout) /\ \A i \in 1..n : Points(stack, i - 1, stack[i].saved)
    BY <1>2 DEF Push, Pointed
  <2>3. ASSUME NEW i \in 1..(n + 1) PROVE Points(stack', i - 1, stack'[i].saved)
    <3>1. i - 1 \in Nat /\ \A k \in 1..(i - 1) : k \in 1..n
      BY <1>0
    <3>2. \A k \in 1..(i - 1) : stack'[k].file = stack[k].file /\ stack'[k].at = stack[k].at
      BY <2>1, <3>1
    <3>3. CASE i \in 1..n
      BY <2>1, <2>2, <3>1, <3>2, <3>3, PointsSame
    <3>4. CASE i = n + 1
      <4>1. stack'[i].saved = stdout /\ i - 1 = n
        BY <1>0, <1>2, <2>1, <3>4 DEF Push
      <4> QED
        BY <2>2, <3>1, <3>2, <4>1, PointsSame
    <3> QED
      BY <1>0, <3>3, <3>4
  <2>4. Points(stack', n + 1, stdout')
    <3>1. Points(stack', n, stdout)
      BY <1>0, <2>1, <2>2, PointsSame
    <3>2. CASE fr.file = Term
      <4>1. ~Open(stack', n + 1) /\ stdout' = stdout
        BY <1>2, <2>1, <3>2 DEF Open, Push
      <4> QED
        BY <1>0, <3>1, <4>1, PointsNext
    <3>3. CASE fr.file # Term
      <4>1. Open(stack', n + 1) /\ stdout' = stack'[n + 1].file
        BY <1>2, <2>1, <3>3 DEF Open, Push, Over
      <4> QED
        BY <1>0, <4>1, PointsNext
    <3> QED
      BY <3>2, <3>3
  <2> QED
    BY <2>1, <2>3, <2>4 DEF Pointed
<1>3. ASSUME ~jumped', NEW step \in {"in", "unblocked", "checked", "restored", "ended"}, Move(step)
      PROVE  Pointed'
  <2>1. /\ Len(stack') = n /\ stack'[n] = [Top EXCEPT !.at = step]
        /\ \A k \in 1..(n - 1) : stack'[k] = stack[k]
    BY <1>3, Ats DEF Move
  <2>2. Top = stack[n] /\ Top \in Frames /\ n \in 1..n /\ n - 1 \in Nat
    BY <1>0, <1>3, TopThere DEF Move
  <2>3. /\ Points(stack, n, stdout) /\ \A i \in 1..n : Points(stack, i - 1, stack[i].saved)
    BY <1>3 DEF Move, Pointed
  <2>4. stack'[n].saved = Top.saved /\ stack'[n].file = Top.file /\ stack'[n].at = step
    BY <2>1, <2>2 DEF Frames
  <2>5. ASSUME NEW i \in 1..n PROVE Points(stack', i - 1, stack'[i].saved)
    <3>1. i - 1 \in Nat /\ \A k \in 1..(i - 1) : k \in 1..(n - 1)
      BY <1>0
    <3>2. \A k \in 1..(i - 1) : stack'[k].file = stack[k].file /\ stack'[k].at = stack[k].at
      BY <2>1, <3>1
    <3>3. stack'[i].saved = stack[i].saved
      <4>1. i = n \/ i \in 1..(n - 1)
        BY <1>0
      <4> QED
        BY <2>1, <2>2, <2>4, <4>1
    <3> QED
      BY <2>3, <3>1, <3>2, <3>3, PointsSame
  <2>6. Points(stack', n, stdout')
    <3>1. CASE stdout' = Top.saved /\ step = "restored"
      <4>1. ~Open(stack', n) /\ stack'[n].saved = Top.saved
        BY <2>4, <3>1 DEF Open, Over
      <4>2. Points(stack', n - 1, stdout')
        BY <2>2, <2>5, <3>1, <4>1
      <4> QED
        BY <2>2, <4>1, <4>2, PointsBefore
    <3>2. CASE stdout' = stdout /\ step = "ended" /\ Top.at = "restored"
      <4>1. ~Open(stack, n) /\ ~Open(stack', n)
        BY <2>2, <2>4, <3>2 DEF Open, Over
      <4>2. Points(stack, n - 1, stdout)
        BY <2>2, <2>3, <4>1, PointsBefore
      <4>3. Points(stack', n - 1, stdout)
        BY <2>1, <2>2, <4>2, PointsSame
      <4> QED
        BY <2>2, <3>2, <4>1, <4>3, PointsBefore
    <3>3. CASE stdout' = stdout /\ step \in {"checked", "in"} /\ Top.at \in {"unblocked", "checked"}
      <4>1. \/ Open(stack, n) /\ Open(stack', n)
            \/ ~Open(stack, n) /\ ~Open(stack', n)
        BY <2>2, <2>4, <3>3 DEF Open, Over
      <4>2. CASE ~Open(stack, n)
        <5>1. Points(stack, n - 1, stdout)
          BY <2>2, <2>3, <4>2, PointsBefore
        <5>2. Points(stack', n - 1, stdout)
          BY <2>1, <2>2, <5>1, PointsSame
        <5> QED
          BY <2>2, <3>3, <4>1, <4>2, <5>2, PointsBefore
      <4>3. CASE Open(stack, n)
        <5>1. Points(stack, n, stack[n].file)
          BY <2>2, <4>3, PointsBefore
        <5>2. stdout = stack[n].file
          BY <2>3, <5>1, PointsTarget
        <5>3. Points(stack', n, stack'[n].file)
          BY <2>2, <4>1, <4>3, PointsBefore
        <5> QED
          BY <2>2, <2>4, <3>3, <5>2, <5>3
      <4> QED
        BY <4>2, <4>3
    <3> QED
      BY <1>3, <3>1, <3>2, <3>3 DEF Move
  <2> QED
    BY <2>1, <2>5, <2>6 DEF Pointed
<1>4. ASSUME ~jumped', Pop PROVE Pointed'
  <2>1. /\ Len(stack') = n - 1 /\ \A k \in 1..(n - 1) : stack'[k] = stack[k]
    BY <1>4, Pops DEF Pop
  <2>2. Top = stack[n] /\ n \in 1..n /\ n - 1 \in Nat
    BY <1>0, <1>4, TopThere DEF Pop
  <2>3. /\ Points(stack, n, stdout) /\ \A i \in 1..n : Points(stack, i - 1, stack[i].saved)
        /\ stdout' = stdout
    BY <1>4 DEF Pop, Pointed
  <2>4. ~Open(stack, n)
    <3>1. Top.kind = "fn" => Top.file = Term
      BY <2>2 DEF Nested
    <3> QED
      BY <1>4, <2>2, <3>1 DEF Pop, Open, Over
  <2>5. Points(stack', n - 1, stdout')
    <3>1. Points(stack, n - 1, stdout)
      BY <2>2, <2>3, <2>4, PointsBefore
    <3> QED
      BY <2>1, <2>2, <2>3, <3>1, PointsSame
  <2>6. ASSUME NEW i \in 1..(n - 1) PROVE Points(stack', i - 1, stack'[i].saved)
    <3>1. i - 1 \in Nat /\ i \in 1..n /\ \A k \in 1..(i - 1) : k \in 1..(n - 1)
      BY <1>0
    <3> QED
      BY <2>1, <2>3, <3>1, PointsSame
  <2> QED
    BY <2>1, <2>5, <2>6 DEF Pointed
<1>5. ASSUME ~jumped', NEW m \in 0..n, Cut(m) PROVE Pointed'
  <2>1. /\ ~jumped /\ stdout' = stdout /\ \A i \in 1..n : stack[i].kind = "fn"
    BY <1>5 DEF Cut
  <2>2. Len(stack') = m /\ \A i \in 1..m : i \in 1..n /\ stack'[i] = stack[i]
    BY <1>0, <1>5, Cuts DEF Cut
  <2>3. \A i \in 1..n : ~Open(stack, i)
    BY <2>1 DEF Nested, Open
  <2>4. stdout = Term
    BY <2>1, <2>3 DEF Pointed, Points
  <2>5. Points(stack', m, stdout')
    <3>1. \A i \in 1..m : ~Open(stack', i)
      BY <2>2, <2>3 DEF Open
    <3> QED
      BY <2>1, <2>4, <3>1 DEF Points
  <2>6. ASSUME NEW i \in 1..m PROVE Points(stack', i - 1, stack'[i].saved)
    <3>1. i - 1 \in Nat /\ i \in 1..n /\ \A k \in 1..(i - 1) : k \in 1..m
      BY <1>0
    <3>2. Points(stack, i - 1, stack[i].saved)
      BY <2>1, <3>1 DEF Pointed
    <3> QED
      BY <2>2, <3>1, <3>2, PointsSame
  <2> QED
    BY <2>2, <2>5, <2>6 DEF Pointed
<1>6. CASE jumped'
  BY <1>6 DEF Pointed
<1> QED
  BY <1>1, <1>2, <1>3, <1>4, <1>5, <1>6 DEF Moves

\* Guards that were skipped stay skipped.
LEMMA JumpedStays ==
  ASSUME TypeOK, Moves, ~jumped'
  PROVE  ~jumped
  BY DEF Moves, Still, Push, Move, Pop, Cut

LEMMA OutputStep ==
  ASSUME TypeOK, Pointed, KidsPointed, OutputInPlace, Moves, [Next]_vars
  PROVE  OutputInPlace'
<1> SUFFICES ASSUME ~jumped', NEW f \in Outs
             PROVE  own'[f] = text'[f] \cup (IF f = stdout' THEN buffer' ELSE {})
  BY DEF OutputInPlace
<1>0. /\ text \in [Outs -> SUBSET Nat] /\ own \in [Outs -> SUBSET Nat] /\ stdout \in Outs
  BY DEF TypeOK
<1>1. own[f] = text[f] \cup (IF f = stdout THEN buffer ELSE {})
  BY JumpedStays DEF OutputInPlace
<1>2. CASE UNCHANGED <<text, own, buffer, stdout, prints>>
  BY <1>1, <1>2
<1>3. CASE Flushes
  <2>1. text'[f] = text[f] \cup (IF f = stdout THEN buffer ELSE {})
    BY <1>3, FlushType DEF Flushes
  <2> QED
    BY <1>1, <1>3, <2>1 DEF Flushes
<1>4. ASSUME NEW direct \in BOOLEAN, Prints(direct)
      PROVE  own'[f] = text'[f] \cup (IF f = stdout' THEN buffer' ELSE {})
  <2>1. Target = stdout
    BY JumpedStays, PointsTarget DEF Pointed
  <2>2. own' = [own EXCEPT ![stdout] = @ \cup {prints'}] /\ stdout' = stdout
    BY <1>4, <2>1 DEF Prints
  <2>3. \/ text' = [text EXCEPT ![stdout] = @ \cup {prints'}] /\ buffer' = buffer
        \/ buffer' = buffer \cup {prints'} /\ text' = text
    BY <1>4 DEF Prints
  <2> QED
    BY <1>0, <1>1, <2>2, <2>3
<1>5. CASE KidWrites
  <2>1. PICK i \in 1..Len(kids) :
           \/ UNCHANGED <<text, own>>
           \/ /\ text' = [text EXCEPT ![kids[i].out] = @ \cup {prints'}]
              /\ own' = [own EXCEPT ![kids[i].due] = @ \cup {prints'}]
    BY <1>5 DEF KidWrites
  <2>2. kids[i].out = kids[i].due /\ kids[i].out \in Outs
    BY JumpedStays, ChildFields DEF KidsPointed
  <2>3. stdout' = stdout /\ buffer' = buffer
    BY <1>5 DEF KidWrites
  <2> QED
    BY <1>0, <1>1, <2>1, <2>2, <2>3
<1> QED
  BY <1>2, <1>3, <1>4, <1>5, OutputMoves

\* Children are forked, and nothing else happens to what they were started with.
LEMMA KidsMoves ==
  ASSUME [Next]_vars
  PROVE  UNCHANGED kids \/ Fork
  BY DEF Next, vars, CallFails, CallPlain, CallRun, CallSigRun, Starts, CallSigMask, Prints, PlainEnds,
     RunEnds, SigRunEnds, SigRunCaught, Leave, SigRunChecked, SigRunExecutes, Terminate, Collect, Function,
     FunctionEnds, Return, JumpTo, Exit, SetErrexit, SetErrTrap, MakeReadonly, KidWrites, Send, RunTraps

LEMMA ForkedKid ==
  ASSUME TypeOK, Fork
  PROVE  /\ Len(kids') = Len(kids) + 1 /\ \A i \in 1..Len(kids) : kids'[i] = kids[i]
         /\ kids'[Len(kids) + 1] =
              [out |-> stdout, due |-> Target, mask |-> sh.top,
               set |-> IF stack # <<>> /\ Top.kind = "sigrun" THEN Top.set ELSE {}]
  BY DEF TypeOK, Fork

LEMMA KidsPointedStep ==
  ASSUME TypeOK, Pointed, KidsPointed, Moves, [Next]_vars
  PROVE  KidsPointed'
<1> SUFFICES ASSUME ~jumped', NEW i \in 1..Len(kids') PROVE kids'[i].out = kids'[i].due
  BY DEF KidsPointed
<1>1. CASE UNCHANGED kids
  BY <1>1, JumpedStays DEF KidsPointed
<1>2. CASE Fork
  <2>1. Target = stdout
    BY JumpedStays, PointsTarget DEF Pointed
  <2>2. i \in 1..Len(kids) \/ i = Len(kids) + 1
    BY <1>2, ForkedKid DEF TypeOK
  <2> QED
    BY <1>2, <2>1, <2>2, JumpedStays, ForkedKid DEF KidsPointed
<1> QED
  BY <1>1, <1>2, KidsMoves

\* While a capture is collected, stdout is not its file any more.
LEMMA CollectedApart ==
  ASSUME TypeOK, Nested, Apart, Pointed, ~jumped, stack # <<>>, Top.at = "ended"
  PROVE  Top.file # stdout
<1> DEFINE n == Len(stack)
<1>1. Top = stack[n] /\ n \in 1..n /\ n \in Nat
  BY TopThere DEF TypeOK
<1>2. Top.file # Term
  BY <1>1 DEF Nested, Over
<1>3. ~Open(stack, n)
  BY <1>1 DEF Open, Over
<1>4. CASE stdout = Term
  BY <1>2, <1>4
<1>5. ASSUME NEW i \in 1..n, Open(stack, i), stdout = stack[i].file PROVE Top.file # stdout
  <2>1. i # n
    BY <1>3, <1>5
  <2> QED
    BY <1>1, <1>2, <1>5, <2>1 DEF Apart
<1> QED
  BY <1>4, <1>5 DEF Pointed, Points

LEMMA GotMoves ==
  ASSUME [Next]_vars
  PROVE  UNCHANGED got \/ Collect
  BY DEF Next, vars, output, CallFails, CallPlain, CallRun, CallSigRun, Starts, CallSigMask, Prints, PlainEnds,
     RunEnds, SigRunEnds, SigRunCaught, Leave, SigRunChecked, SigRunExecutes, Terminate, Function,
     FunctionEnds, Return, JumpTo, Exit, SetErrexit, SetErrTrap, MakeReadonly, Fork, KidWrites, Send, RunTraps

LEMMA CapturedStep ==
  ASSUME TypeOK, Nested, Apart, Pointed, OutputInPlace, CapturedWhole, Moves, [Next]_vars
  PROVE  CapturedWhole'
<1> SUFFICES ASSUME got'.told, ~jumped' PROVE got'.value = got'.due /\ (got'.trimmed \/ got'.late)
  BY DEF CapturedWhole
<1>1. CASE UNCHANGED got
  BY <1>1, JumpedStays DEF CapturedWhole
<1>2. CASE Collect
  <2>1. Top.file # stdout /\ Top.file \in Outs
    BY <1>2, JumpedStays, CollectedApart, TopThere, FrameFields DEF Collect
  <2>2. own[Top.file] = text[Top.file]
    BY <2>1, JumpedStays DEF OutputInPlace
  <2>3. /\ got'.value = text[Top.file] /\ got'.due = own[Top.file]
        /\ got'.trimmed = (Top.file \notin late) /\ got'.late = (Top.file \in late)
    BY <1>2 DEF Collect, Trimmed
  <2> QED
    BY <2>2, <2>3
<1> QED
  BY <1>1, <1>2, GotMoves

LEMMA DocumentedStep ==
  ASSUME TypeOK, Documented, Moves
  PROVE  Documented'
<1>0. docs \in [Builtins -> Names] /\ Len(stack) \in Nat
  BY DEF TypeOK
<1>d. Documents => docs'["L_builtin"] = "L_builtin" /\ docs'["other"] = docs["other"]
  BY <1>0 DEF Documents, Builtins
<1>1. CASE Still
  BY <1>1, <1>d DEF Still, Documented
<1>2. ASSUME NEW fr \in Frames, Push(fr) PROVE Documented'
  <2>1. /\ Len(stack') = Len(stack) + 1 /\ stack'[Len(stack) + 1] = fr
        /\ \A k \in 1..Len(stack) : stack'[k] = stack[k]
    BY <1>2, Pushes DEF Push
  <2>2. CASE fr.kind = "fn"
    <3>1. \A k \in 1..Len(stack) : k \in 1..Len(stack')
      BY <1>0, <2>1
    <3> QED
      BY <1>2, <2>1, <2>2, <3>1 DEF Push, Documented
  <2>3. CASE fr.kind # "fn"
    <3>1. Len(stack) + 1 \in 1..Len(stack')
      BY <1>0, <2>1
    <3> QED
      BY <1>2, <2>1, <2>3, <3>1 DEF Push, Documented
  <2> QED
    BY <2>2, <2>3
<1>3. ASSUME NEW step \in {"in", "unblocked", "checked", "restored", "ended"}, Move(step)
      PROVE  Documented'
  <2>1. Top = stack[Len(stack)] /\ Top \in Frames /\ Len(stack) \in 1..Len(stack) /\ Top.kind # "fn"
    BY <1>3, TopThere DEF Move
  <2>2. Len(stack') = Len(stack) /\ stack'[Len(stack)].kind = Top.kind
    BY <1>3, <2>1, Ats DEF Move, Frames
  <2> QED
    BY <1>3, <2>1, <2>2 DEF Move, Documented
<1>4. CASE Pop
  <2>1. /\ Len(stack') = Len(stack) - 1 /\ \A k \in 1..(Len(stack) - 1) : stack'[k] = stack[k]
    BY <1>4, Pops DEF Pop
  <2>2. Top = stack[Len(stack)] /\ Len(stack) \in 1..Len(stack)
    BY <1>4, TopThere DEF Pop
  <2>3. CASE Documents
    BY <1>d, <1>4, <2>3 DEF Pop, Documented
  <2>4. CASE Top.kind = "fn" /\ UNCHANGED docs
    <3>1. \A k \in 1..Len(stack) : k \in 1..(Len(stack) - 1) \/ k = Len(stack)
      BY <1>0
    <3>2. (\A k \in 1..Len(stack') : stack'[k].kind = "fn") => \A k \in 1..Len(stack) : stack[k].kind = "fn"
      BY <2>1, <2>2, <2>4, <3>1
    <3> QED
      BY <1>4, <2>4, <3>2 DEF Pop, Documented
  <2> QED
    BY <1>4, <2>3, <2>4 DEF Pop
<1>5. ASSUME NEW n \in 0..Len(stack), Cut(n) PROVE Documented'
  BY <1>5 DEF Cut, Documented
<1> QED
  BY <1>1, <1>2, <1>3, <1>4, <1>5 DEF Moves

-----------------------------------------------------------------------------
(* What bash protects. *)

\* The frames after each of the changes of the stack.
LEMMA PushFrames ==
  ASSUME TypeOK, Nested, NEW fr \in Frames, Push(fr)
  PROVE  /\ Len(stack) \in Nat /\ Len(stack') = Len(stack) + 1 /\ stack'[Len(stack) + 1] = fr
         /\ \A k \in 1..Len(stack) : /\ k \in 1..Len(stack') /\ stack'[k] = stack[k]
                                     /\ stack[k].at = "in"
         /\ Len(stack) + 1 \in 1..Len(stack')
         /\ \A k \in 1..Len(stack') : k \in 1..Len(stack) \/ k = Len(stack) + 1
         /\ fr.keep = sh /\ fr.at \notin Over
<1>1. Len(stack) \in Nat
  BY DEF TypeOK
<1>2. /\ Len(stack') = Len(stack) + 1 /\ stack'[Len(stack) + 1] = fr
      /\ \A k \in 1..Len(stack) : stack'[k] = stack[k]
  BY Pushes DEF Push
<1>3. \A k \in 1..Len(stack) : stack[k].at = "in"
  BY ReadyFrames DEF Push
<1>4. fr.keep = sh /\ fr.at \notin Over
  BY DEF Push, Over
<1> QED
  BY <1>1, <1>2, <1>3, <1>4

LEMMA MoveFrames ==
  ASSUME TypeOK, Nested, NEW step \in {"in", "unblocked", "checked", "restored", "ended"}, Move(step)
  PROVE  /\ Len(stack) \in Nat /\ Len(stack) \in 1..Len(stack) /\ Len(stack') = Len(stack)
         /\ Top = stack[Len(stack)] /\ Top \in Frames
         /\ \A k \in 1..Len(stack) : /\ stack'[k].kind = stack[k].kind /\ stack'[k].keep = stack[k].keep
                                     /\ stack'[k].set = stack[k].set /\ stack'[k].early = stack[k].early
         /\ \A k \in 1..Len(stack) : k # Len(stack) => stack'[k].at = "in" /\ stack[k].at = "in"
         /\ stack'[Len(stack)].at = step
<1>1. Len(stack) \in Nat
  BY DEF TypeOK
<1>2. Len(stack) \in 1..Len(stack) /\ Top = stack[Len(stack)] /\ Top \in Frames
  BY TopThere DEF Move
<1>3. /\ Len(stack') = Len(stack) /\ stack'[Len(stack)] = [Top EXCEPT !.at = step]
      /\ \A k \in 1..(Len(stack) - 1) : stack'[k] = stack[k]
  BY Ats DEF Move
<1>4. /\ stack'[Len(stack)].kind = Top.kind /\ stack'[Len(stack)].keep = Top.keep
      /\ stack'[Len(stack)].set = Top.set /\ stack'[Len(stack)].early = Top.early
      /\ stack'[Len(stack)].at = step
  BY <1>2, <1>3 DEF Frames
<1>5. \A k \in 1..Len(stack) : k = Len(stack) \/ k \in 1..(Len(stack) - 1)
  BY <1>1
<1>6. \A k \in 1..(Len(stack) - 1) : stack[k].at = "in"
  BY <1>1 DEF Nested
<1>7. \A k \in 1..Len(stack) : k # Len(stack) => stack'[k] = stack[k] /\ stack[k].at = "in"
  BY <1>3, <1>5, <1>6
<1>8. \A k \in 1..Len(stack) : /\ stack'[k].kind = stack[k].kind /\ stack'[k].keep = stack[k].keep
                               /\ stack'[k].set = stack[k].set /\ stack'[k].early = stack[k].early
  BY <1>2, <1>4, <1>7
<1> QED
  BY <1>1, <1>2, <1>3, <1>4, <1>7, <1>8

LEMMA PopFrames ==
  ASSUME TypeOK, Nested, Pop
  PROVE  /\ Len(stack) \in Nat /\ Len(stack) \in 1..Len(stack) /\ Len(stack') = Len(stack) - 1
         /\ Top = stack[Len(stack)] /\ Top \in Frames
         /\ \A k \in 1..Len(stack') : /\ k \in 1..Len(stack) /\ k # Len(stack) /\ stack'[k] = stack[k]
                                      /\ stack[k].at = "in"
         /\ \A k \in 1..Len(stack) : k \in 1..Len(stack') \/ k = Len(stack)
<1>1. Len(stack) \in Nat
  BY DEF TypeOK
<1>2. Len(stack) \in 1..Len(stack) /\ Top = stack[Len(stack)] /\ Top \in Frames
  BY TopThere DEF Pop
<1>3. Len(stack') = Len(stack) - 1 /\ \A k \in 1..(Len(stack) - 1) : stack'[k] = stack[k]
  BY Pops DEF Pop
<1>4. \A k \in 1..(Len(stack) - 1) : stack[k].at = "in"
  BY <1>1 DEF Nested
<1> QED
  BY <1>1, <1>2, <1>3, <1>4

LEMMA CutFrames ==
  ASSUME TypeOK, Nested, NEW n \in 0..Len(stack), Cut(n)
  PROVE  /\ Len(stack) \in Nat /\ Len(stack') = n
         /\ \A k \in 1..n : k \in 1..Len(stack) /\ stack'[k] = stack[k]
         /\ \A k \in 1..Len(stack) : (k \in 1..n \/ k \in (n + 1)..Len(stack)) /\ stack[k].at = "in"
<1>1. Len(stack) \in Nat
  BY DEF TypeOK
<1>2. Len(stack') = n /\ \A k \in 1..n : stack'[k] = stack[k]
  BY Cuts DEF Cut
<1>3. \A k \in 1..Len(stack) : stack[k].at = "in"
  BY ReadyFrames DEF Cut
<1> QED
  BY <1>1, <1>2, <1>3

\* What the start of a call changes of the shell.
LEMMA EnteredFields ==
  ASSUME TypeOK, NEW fr \in Frames
  PROVE  /\ fr.kind # "sigrun" => Entered(fr).mask = sh.mask /\ Entered(fr).top = sh.top
         /\ fr.kind = "sigrun" => Entered(fr).top = sh.mask \ fr.set
         /\ fr.kind # "run" => /\ Entered(fr).errtrap = sh.errtrap /\ Entered(fr).immediate = sh.immediate
                               /\ Entered(fr).ignoring = sh.ignoring
         /\ fr.kind = "run" => Entered(fr).immediate = FALSE /\ Entered(fr).ignoring = TRUE
         /\ Entered(fr).flag = sh.flag
<1>1. sh \in Shells
  BY DEF TypeOK
<1>2. CASE fr.kind = "run"
  <2>1. Entered(fr) = [sh EXCEPT !.immediate = FALSE, !.ignoring = TRUE, !.errtrap = NoTrap]
    BY <1>2 DEF Entered, Quiet
  <2> QED
    BY <1>1, <1>2, <2>1 DEF Shells
<1>3. CASE fr.kind = "sigrun"
  <2>1. Entered(fr) = [sh EXCEPT !.mask = @ \ fr.set, !.top = sh.mask \ fr.set]
    BY <1>3 DEF Entered, Unblocked
  <2> QED
    BY <1>1, <1>3, <2>1 DEF Shells
<1>4. CASE fr.kind \notin {"run", "sigrun"}
  <2>1. Entered(fr) = sh
    BY <1>4 DEF Entered
  <2> QED
    BY <1>4, <2>1
<1> QED
  BY <1>2, <1>3, <1>4

\* What the shell changes of itself between calls.
LEMMA StillFields ==
  ASSUME TypeOK, Still
  PROVE  /\ stack' = stack /\ jumped' = jumped
         /\ sh'.top = sh.top /\ wanted'.top = wanted.top
         /\ sh'.ignoring = sh.ignoring
         /\ \/ sh'.mask = sh.mask /\ wanted'.mask = wanted.mask
            \/ /\ Ready
               /\ Inside("sigrun") => wanted'.mask = wanted.mask
               /\ ~Inside("sigrun") => wanted'.mask = sh'.mask
         /\ \/ sh'.errtrap = sh.errtrap /\ wanted'.errtrap = wanted.errtrap
            \/ /\ Ready
               /\ Inside("run") => wanted'.errtrap = wanted.errtrap
               /\ ~Inside("run") => wanted'.errtrap = sh'.errtrap
         /\ \/ sh'.immediate = sh.immediate /\ sh'.flag = sh.flag
            \/ /\ sh'.flag = ~sh.flag
               /\ sh'.immediate = IF sh.ignoring THEN FALSE ELSE ~sh.flag
         /\ Ready \/ (UNCHANGED <<sh, wanted>> /\ traps \subseteq traps')
<1>0. sh \in Shells /\ wanted \in Wishes /\ UNCHANGED <<stack, jumped>>
  BY DEF TypeOK, Still
<1> DEFINE G == /\ sh'.top = sh.top /\ wanted'.top = wanted.top
                /\ sh'.ignoring = sh.ignoring
                /\ \/ sh'.mask = sh.mask /\ wanted'.mask = wanted.mask
                   \/ /\ Inside("sigrun") => wanted'.mask = wanted.mask
                      /\ ~Inside("sigrun") => wanted'.mask = sh'.mask
                /\ \/ sh'.errtrap = sh.errtrap /\ wanted'.errtrap = wanted.errtrap
                   \/ /\ Inside("run") => wanted'.errtrap = wanted.errtrap
                      /\ ~Inside("run") => wanted'.errtrap = sh'.errtrap
                /\ \/ sh'.immediate = sh.immediate /\ sh'.flag = sh.flag
                   \/ /\ sh'.flag = ~sh.flag
                      /\ sh'.immediate = IF sh.ignoring THEN FALSE ELSE ~sh.flag
<1>1. ASSUME UNCHANGED <<sh, wanted>> PROVE G
  BY <1>1
<1>2. ASSUME UNCHANGED wanted, Obeys PROVE G
  <2>1. PICK imm \in BOOLEAN : imm = IF sh.ignoring THEN FALSE ELSE ~sh.flag
    BY <1>0, Fields
  <2>2. PICK g \in BOOLEAN : g = ~sh.flag
    OBVIOUS
  <2>3. sh' = [sh EXCEPT !.flag = g, !.immediate = imm]
    BY <1>2, <2>1, <2>2 DEF Obeys
  <2>4. sh' = [mask |-> sh.mask, top |-> sh.top, errtrap |-> sh.errtrap, immediate |-> imm,
               ignoring |-> sh.ignoring, flag |-> g]
    BY <1>0, <2>3 DEF Shells
  <2> QED
    BY <1>2, <2>1, <2>2, <2>4
<1>3. ASSUME NEW m \in Masks, Masking(m) PROVE G
  <2>1. sh' = [mask |-> m, top |-> sh.top, errtrap |-> sh.errtrap, immediate |-> sh.immediate,
               ignoring |-> sh.ignoring, flag |-> sh.flag]
    BY <1>0, <1>3 DEF Masking, Shells
  <2>2. /\ wanted'.mask = (IF Inside("sigrun") THEN wanted.mask ELSE m)
        /\ wanted'.top = wanted.top /\ wanted'.errtrap = wanted.errtrap
    BY <1>0, <1>3 DEF Masking, Wished, Wishes
  <2> QED
    BY <2>1, <2>2
<1>4. ASSUME NEW t \in {NoTrap, "trap"}, Trapping(t) PROVE G
  <2>1. sh' = [mask |-> sh.mask, top |-> sh.top, errtrap |-> t, immediate |-> sh.immediate,
               ignoring |-> sh.ignoring, flag |-> sh.flag]
    BY <1>0, <1>4 DEF Trapping, Shells
  <2>2. /\ wanted'.errtrap = (IF Inside("run") THEN wanted.errtrap ELSE t)
        /\ wanted'.top = wanted.top /\ wanted'.mask = wanted.mask
    BY <1>0, <1>4 DEF Trapping, Wishes
  <2> QED
    BY <2>1, <2>2
<1>5. G
  BY <1>1, <1>2, <1>3, <1>4 DEF Still, Quietly
<1>6. Ready \/ (UNCHANGED <<sh, wanted>> /\ traps \subseteq traps')
  BY DEF Still, Quietly
<1> HIDE DEF G
<1>7. CASE Ready
  BY <1>0, <1>5, <1>7 DEF G
<1>8. CASE UNCHANGED <<sh, wanted>> /\ traps \subseteq traps'
  BY <1>0, <1>8
<1> QED
  BY <1>6, <1>7, <1>8

\* What the frames above frame n put back when they are unwound.
LEMMA UnwoundMask ==
  ASSUME TypeOK, NEW n \in 0..Len(stack)
  PROVE  \/ /\ \A k \in (n + 1)..Len(stack) : stack[k].kind # "sigrun"
            /\ Unwound(n).mask = sh.mask /\ Unwound(n).top = sh.top
         \/ \E i \in (n + 1)..Len(stack) :
              /\ stack[i].kind = "sigrun" /\ \A k \in (n + 1)..(i - 1) : stack[k].kind # "sigrun"
              /\ Unwound(n).mask = stack[i].keep.mask /\ Unwound(n).top = stack[i].keep.top
<1> DEFINE S == Above(n, "sigrun")
<1>0. Len(stack) \in Nat
  BY DEF TypeOK
<1>1. S \in SUBSET (1..Len(stack)) /\ Unwound(n).mask = Kept(S).mask /\ Unwound(n).top = Kept(S).top
  BY UnwoundType
<1>2. \A k \in (n + 1)..Len(stack) : k \in S <=> stack[k].kind = "sigrun"
  BY DEF Above
<1>3. CASE S = {}
  BY <1>1, <1>2, <1>3, KeptOne
<1>4. CASE S # {}
  <2>1. PICK i \in S : Kept(S) = stack[i].keep /\ \A j \in S : i <= j
    BY <1>1, <1>4, KeptOne
  <2>2. i \in (n + 1)..Len(stack) /\ stack[i].kind = "sigrun"
    BY <2>1 DEF Above
  <2>3. ASSUME NEW k \in (n + 1)..(i - 1) PROVE stack[k].kind # "sigrun"
    <3>1. k \in (n + 1)..Len(stack) /\ ~(i <= k)
      BY <1>0, <2>2
    <3> QED
      BY <1>2, <2>1, <3>1
  <2> QED
    BY <1>1, <2>1, <2>2, <2>3
<1> QED
  BY <1>3, <1>4

LEMMA UnwoundFlags ==
  ASSUME TypeOK, NEW n \in 0..Len(stack)
  PROVE  \/ /\ \A k \in (n + 1)..Len(stack) : stack[k].kind # "run"
            /\ Unwound(n).ignoring = sh.ignoring /\ Unwound(n).immediate = sh.immediate
         \/ \E i \in (n + 1)..Len(stack) :
              /\ stack[i].kind = "run" /\ \A k \in (n + 1)..(i - 1) : stack[k].kind # "run"
              /\ Unwound(n).ignoring = stack[i].keep.ignoring
<1> DEFINE S == Above(n, "run")
<1>0. Len(stack) \in Nat
  BY DEF TypeOK
<1>1. /\ S \in SUBSET (1..Len(stack)) /\ Unwound(n).ignoring = Kept(S).ignoring
      /\ Unwound(n).immediate = Kept(S).immediate
  BY UnwoundType
<1>2. \A k \in (n + 1)..Len(stack) : k \in S <=> stack[k].kind = "run"
  BY DEF Above
<1>3. CASE S = {}
  BY <1>1, <1>2, <1>3, KeptOne
<1>4. CASE S # {}
  <2>1. PICK i \in S : Kept(S) = stack[i].keep /\ \A j \in S : i <= j
    BY <1>1, <1>4, KeptOne
  <2>2. i \in (n + 1)..Len(stack) /\ stack[i].kind = "run"
    BY <2>1 DEF Above
  <2>3. ASSUME NEW k \in (n + 1)..(i - 1) PROVE stack[k].kind # "run"
    <3>1. k \in (n + 1)..Len(stack) /\ ~(i <= k)
      BY <1>0, <2>2
    <3> QED
      BY <1>2, <2>1, <3>1
  <2> QED
    BY <1>1, <2>1, <2>2, <2>3
<1> QED
  BY <1>3, <1>4

\* The outermost frame of a kind.
LEMMA FirstThere ==
  ASSUME TypeOK, NEW kind, Inside(kind)
  PROVE  \E i \in 1..Len(stack) : First(i, kind)
<1> DEFINE S == {i \in 1..Len(stack) : stack[i].kind = kind}
<1>1. S \in SUBSET Nat /\ S # {} /\ Len(stack) \in Nat
  BY DEF TypeOK, Inside
<1>2. PICK i \in S : \A j \in S : i <= j
  BY <1>1, LeastNumber
<1>3. ASSUME NEW j \in 1..(i - 1) PROVE stack[j].kind # kind
  <2>1. j \in 1..Len(stack) /\ ~(i <= j)
    BY <1>1
  <2> QED
    BY <1>2, <2>1
<1> QED
  BY <1>2, <1>3 DEF First

LEMMA MaskedStep ==
  ASSUME TypeOK, Nested, Masked, Moves
  PROVE  Masked'
<1>1. CASE Still
  <2>1. ASSUME Ready, NEW i \in 1..Len(stack) PROVE stack[i].at \notin Over
    BY <2>1, ReadyFrames DEF Over
  <2>2. \A i \in 1..Len(stack) : First(i, "sigrun") => Inside("sigrun")
    BY DEF First, Inside
  <2>3. stack' = stack
    BY <1>1, StillFields
  <2>4. (~Inside("sigrun"))' => sh'.mask = wanted'.mask /\ sh'.top = wanted'.top
    <3>1. ASSUME ~Inside("sigrun") PROVE sh'.mask = wanted'.mask /\ sh'.top = wanted'.top
      BY <1>1, <3>1, StillFields DEF Masked
    <3> QED
      BY <2>3, <3>1 DEF Inside
  <2>5. ASSUME NEW i \in 1..Len(stack), First(i, "sigrun")
        PROVE  stack[i].keep.mask = wanted'.mask /\ stack[i].keep.top = wanted'.top
    <3>1. Inside("sigrun")
      BY <2>2, <2>5
    <3> QED
      BY <1>1, <2>5, <3>1, StillFields DEF Masked
  <2>6. ASSUME NEW i \in 1..Len(stack), stack[i].kind = "sigrun", stack[i].at \in Over
        PROVE  sh'.mask = stack[i].keep.mask /\ sh'.top = stack[i].keep.top
    <3>1. sh' = sh
      BY <1>1, <2>1, <2>6, StillFields
    <3> QED
      BY <2>6, <3>1 DEF Masked
  <2> QED
    BY <2>3, <2>4, <2>5, <2>6 DEF Masked, First
<1>2. ASSUME NEW fr \in Frames, Push(fr) PROVE Masked'
  <2>1. sh' = Entered(fr) /\ wanted' = wanted
    BY <1>2 DEF Push
  <2>2. ASSUME ~Inside("sigrun")' PROVE sh'.mask = wanted'.mask /\ sh'.top = wanted'.top
    <3>1. ~Inside("sigrun") /\ fr.kind # "sigrun"
      BY <1>2, <2>2, PushFrames DEF Inside
    <3> QED
      BY <2>1, <3>1, EnteredFields DEF Masked
  <2>3. ASSUME NEW i \in 1..Len(stack'), First(i, "sigrun")'
        PROVE  stack'[i].keep.mask = wanted'.mask /\ stack'[i].keep.top = wanted'.top
    <3>1. stack'[i].kind = "sigrun" /\ \A j \in 1..(i - 1) : stack'[j].kind # "sigrun"
      BY <2>3 DEF First
    <3>2. CASE i \in 1..Len(stack)
      <4>1. \A j \in 1..(i - 1) : j \in 1..Len(stack)
        BY <3>2 DEF TypeOK
      <4>2. First(i, "sigrun") /\ stack'[i] = stack[i]
        BY <1>2, <3>1, <3>2, <4>1, PushFrames DEF First
      <4> QED
        BY <2>1, <3>2, <4>2 DEF Masked
    <3>3. CASE i = Len(stack) + 1
      <4>1. \A j \in 1..Len(stack) : j \in 1..(i - 1)
        BY <3>3 DEF TypeOK
      <4>2. ~Inside("sigrun")
        BY <1>2, <3>1, <4>1, PushFrames DEF Inside
      <4> QED
        BY <1>2, <2>1, <3>3, <4>2, PushFrames DEF Masked
    <3> QED
      BY <1>2, <3>2, <3>3, PushFrames
  <2>4. \A i \in 1..Len(stack') : stack'[i].at \notin Over
    BY <1>2, PushFrames DEF Over
  <2> QED
    BY <2>2, <2>3, <2>4 DEF Masked
<1>3. ASSUME NEW step \in {"in", "unblocked", "checked", "restored", "ended"}, Move(step)
      PROVE  Masked'
  <2>1. wanted' = wanted /\ Len(stack') = Len(stack)
    BY <1>3, MoveFrames DEF Move
  <2>2. Inside("sigrun")' <=> Inside("sigrun")
    BY <1>3, MoveFrames DEF Inside
  <2>3. ASSUME NEW i \in 1..Len(stack) PROVE First(i, "sigrun")' => First(i, "sigrun")
    <3>1. \A j \in 1..(i - 1) : j \in 1..Len(stack)
      BY DEF TypeOK
    <3> QED
      BY <1>3, <3>1, MoveFrames DEF First
  <2>4. CASE step = "restored" /\ sh' = Left
    <3>1. ~Inside("sigrun") => Top.kind # "sigrun"
      BY <1>3, MoveFrames DEF Inside
    <3>2. stack # <<>>
      BY <1>3 DEF Move
    <3>3. ASSUME ~Inside("sigrun") PROVE sh'.mask = wanted'.mask /\ sh'.top = wanted'.top
      BY <2>1, <2>4, <3>1, <3>2, <3>3, LeftFields DEF Masked
    <3>4. ASSUME NEW i \in 1..Len(stack), stack'[i].kind = "sigrun", stack'[i].at \in Over
          PROVE  sh'.mask = stack'[i].keep.mask /\ sh'.top = stack'[i].keep.top
      <4>1. i = Len(stack)
        BY <1>3, <3>4, MoveFrames DEF Over
      <4>2. Top.kind = "sigrun" /\ stack'[i].keep = Top.keep
        BY <1>3, <3>4, <4>1, MoveFrames
      <4> QED
        BY <2>4, <3>2, <4>2, LeftFields
    <3>5. ASSUME NEW i \in 1..Len(stack), First(i, "sigrun")'
          PROVE  stack'[i].keep.mask = wanted'.mask /\ stack'[i].keep.top = wanted'.top
      BY <1>3, <2>1, <2>3, <3>5, MoveFrames DEF Masked
    <3> QED
      BY <2>1, <2>2, <3>3, <3>4, <3>5 DEF Masked
  <2>5. CASE sh' = sh /\ (step \in Over => Top.at \in Over)
    <3>4. ASSUME NEW i \in 1..Len(stack), stack'[i].kind = "sigrun", stack'[i].at \in Over
          PROVE  sh'.mask = stack'[i].keep.mask /\ sh'.top = stack'[i].keep.top
      <4>1. i = Len(stack)
        BY <1>3, <3>4, MoveFrames DEF Over
      <4>2. stack[i].kind = "sigrun" /\ stack[i].at \in Over /\ stack'[i].keep = stack[i].keep
        BY <1>3, <2>5, <3>4, <4>1, MoveFrames
      <4> QED
        BY <2>5, <4>2 DEF Masked
    <3>5. ASSUME NEW i \in 1..Len(stack), First(i, "sigrun")'
          PROVE  stack'[i].keep.mask = wanted'.mask /\ stack'[i].keep.top = wanted'.top
      BY <1>3, <2>1, <2>3, <3>5, MoveFrames DEF Masked
    <3> QED
      BY <2>1, <2>2, <2>5, <3>4, <3>5 DEF Masked
  <2> QED
    BY <1>3, <2>4, <2>5 DEF Move, Over
<1>4. CASE Pop
  <2>1. wanted' = wanted /\ stack # <<>>
    BY <1>4 DEF Pop
  <2>2. ASSUME ~Inside("sigrun")' PROVE sh'.mask = wanted'.mask /\ sh'.top = wanted'.top
    <3>1. \A k \in 1..Len(stack) : k # Len(stack) => stack[k].kind # "sigrun"
      BY <1>4, <2>2, PopFrames DEF Inside
    <3>2. CASE Top.kind = "sigrun"
      <4>1. \A j \in 1..(Len(stack) - 1) : j \in 1..Len(stack) /\ j # Len(stack)
        BY DEF TypeOK
      <4>2. First(Len(stack), "sigrun")
        BY <1>4, <3>1, <3>2, <4>1, PopFrames DEF First
      <4>3. Top.keep.mask = wanted.mask /\ Top.keep.top = wanted.top
        BY <1>4, <4>2, PopFrames DEF Masked
      <4>4. Top.at \in Over => sh.mask = Top.keep.mask /\ sh.top = Top.keep.top
        BY <1>4, <3>2, PopFrames DEF Masked
      <4>5. sh' = Left \/ (sh' = sh /\ Top.at \in Over)
        BY <1>4, <3>2 DEF Pop, Over
      <4> QED
        BY <2>1, <3>2, <4>3, <4>4, <4>5, LeftFields
    <3>3. CASE Top.kind # "sigrun"
      <4>1. ~Inside("sigrun")
        BY <1>4, <3>1, <3>3, PopFrames DEF Inside
      <4>2. sh' = Left \/ sh' = sh
        BY <1>4 DEF Pop
      <4> QED
        BY <2>1, <3>3, <4>1, <4>2, LeftFields DEF Masked
    <3> QED
      BY <3>2, <3>3
  <2>3. ASSUME NEW i \in 1..Len(stack'), First(i, "sigrun")'
        PROVE  stack'[i].keep.mask = wanted'.mask /\ stack'[i].keep.top = wanted'.top
    <3>1. \A j \in 1..(i - 1) : j \in 1..Len(stack')
      BY <1>4, PopFrames
    <3>2. First(i, "sigrun")
      BY <1>4, <2>3, <3>1, PopFrames DEF First
    <3> QED
      BY <1>4, <2>1, <3>2, PopFrames DEF Masked
  <2>4. \A i \in 1..Len(stack') : stack'[i].at \notin Over
    BY <1>4, PopFrames DEF Over
  <2> QED
    BY <2>2, <2>3, <2>4 DEF Masked
<1>5. ASSUME NEW n \in 0..Len(stack), Cut(n) PROVE Masked'
  <2>1. wanted' = wanted /\ sh' = Unwound(n) /\ Len(stack) \in Nat
    BY <1>5 DEF Cut, TypeOK
  <2>2. ASSUME ~Inside("sigrun")' PROVE sh'.mask = wanted'.mask /\ sh'.top = wanted'.top
    <3>1. \A k \in 1..n : stack[k].kind # "sigrun"
      BY <1>5, <2>2, CutFrames DEF Inside
    <3>2. CASE /\ \A k \in (n + 1)..Len(stack) : stack[k].kind # "sigrun"
               /\ Unwound(n).mask = sh.mask /\ Unwound(n).top = sh.top
      <4>1. ~Inside("sigrun")
        BY <1>5, <3>1, <3>2, CutFrames DEF Inside
      <4> QED
        BY <2>1, <3>2, <4>1 DEF Masked
    <3>3. ASSUME NEW i \in (n + 1)..Len(stack), stack[i].kind = "sigrun",
                 \A k \in (n + 1)..(i - 1) : stack[k].kind # "sigrun",
                 Unwound(n).mask = stack[i].keep.mask, Unwound(n).top = stack[i].keep.top
          PROVE  sh'.mask = wanted'.mask /\ sh'.top = wanted'.top
      <4>1. i \in 1..Len(stack) /\ \A k \in 1..(i - 1) : k \in 1..n \/ k \in (n + 1)..(i - 1)
        BY <2>1
      <4>2. First(i, "sigrun")
        BY <3>1, <3>3, <4>1 DEF First
      <4> QED
        BY <2>1, <3>3, <4>1, <4>2 DEF Masked
    <3> QED
      BY <3>2, <3>3, UnwoundMask
  <2>3. ASSUME NEW i \in 1..Len(stack'), First(i, "sigrun")'
        PROVE  stack'[i].keep.mask = wanted'.mask /\ stack'[i].keep.top = wanted'.top
    <3>1. i \in 1..n /\ \A j \in 1..(i - 1) : j \in 1..n
      BY <1>5, CutFrames
    <3>2. First(i, "sigrun")
      BY <1>5, <2>3, <3>1, CutFrames DEF First
    <3> QED
      BY <1>5, <2>1, <3>1, <3>2, CutFrames DEF Masked
  <2>4. \A i \in 1..Len(stack') : stack'[i].at \notin Over
    BY <1>5, CutFrames DEF Over
  <2> QED
    BY <2>2, <2>3, <2>4 DEF Masked
<1> QED
  BY <1>1, <1>2, <1>3, <1>4, <1>5 DEF Moves

LEMMA UnwoundTrap ==
  ASSUME TypeOK, NEW n \in 0..Len(stack)
  PROVE  \/ /\ \A k \in (n + 1)..Len(stack) : stack[k].kind = "run" => stack[k].keep.errtrap = NoTrap
            /\ Unwound(n).errtrap = sh.errtrap
         \/ Unwound(n).errtrap = "trap"
<1>1. Found(n) \in SUBSET (1..Len(stack)) /\ Unwound(n).errtrap = Kept(Found(n)).errtrap
  BY UnwoundType
<1>2. \A k \in (n + 1)..Len(stack) :
        k \in Found(n) <=> stack[k].kind = "run" /\ stack[k].keep.errtrap # NoTrap
  BY DEF Found, Above
<1>3. CASE Found(n) = {}
  BY <1>1, <1>2, <1>3, KeptOne
<1>4. CASE Found(n) # {}
  <2>1. PICK i \in Found(n) : Kept(Found(n)) = stack[i].keep
    BY <1>1, <1>4, KeptOne
  <2>2. stack[i].keep.errtrap # NoTrap /\ i \in 1..Len(stack)
    BY <1>1, <2>1 DEF Found, Above
  <2>3. stack[i].keep.errtrap = "trap"
    BY <2>2, FrameFields, Fields
  <2> QED
    BY <1>1, <2>1, <2>3
<1> QED
  BY <1>3, <1>4

LEMMA TrappedStep ==
  ASSUME TypeOK, Nested, Trapped, Moves
  PROVE  Trapped'
<1>1. CASE Still
  <2>1. ASSUME Ready, NEW i \in 1..Len(stack) PROVE stack[i].at \notin Over
    BY <2>1, ReadyFrames DEF Over
  <2>2. \A i \in 1..Len(stack) : First(i, "run") => Inside("run")
    BY DEF First, Inside
  <2>3. stack' = stack
    BY <1>1, StillFields
  <2>4. ASSUME ~Inside("run")', wanted'.errtrap = "trap" PROVE sh'.errtrap = "trap"
    <3>1. ~Inside("run")
      BY <2>3, <2>4 DEF Inside
    <3> QED
      BY <1>1, <2>4, <3>1, StillFields DEF Trapped
  <2>5. ASSUME NEW i \in 1..Len(stack), First(i, "run"), wanted'.errtrap = "trap"
        PROVE  stack[i].keep.errtrap = "trap"
    <3>1. Inside("run")
      BY <2>2, <2>5
    <3> QED
      BY <1>1, <2>5, <3>1, StillFields DEF Trapped
  <2>6. ASSUME NEW i \in 1..Len(stack), stack[i].kind = "run", stack[i].at \in Over,
               stack[i].keep.errtrap = "trap"
        PROVE  sh'.errtrap = "trap"
    <3>1. sh' = sh
      BY <1>1, <2>1, <2>6, StillFields
    <3> QED
      BY <2>6, <3>1 DEF Trapped
  <2> QED
    BY <2>3, <2>4, <2>5, <2>6 DEF Trapped, First
<1>2. ASSUME NEW fr \in Frames, Push(fr) PROVE Trapped'
  <2>1. sh' = Entered(fr) /\ wanted' = wanted
    BY <1>2 DEF Push
  <2>2. ASSUME ~Inside("run")', wanted.errtrap = "trap" PROVE sh'.errtrap = "trap"
    <3>1. ~Inside("run") /\ fr.kind # "run"
      BY <1>2, <2>2, PushFrames DEF Inside
    <3> QED
      BY <2>1, <2>2, <3>1, EnteredFields DEF Trapped
  <2>3. ASSUME NEW i \in 1..Len(stack'), First(i, "run")', wanted.errtrap = "trap"
        PROVE  stack'[i].keep.errtrap = "trap"
    <3>1. stack'[i].kind = "run" /\ \A j \in 1..(i - 1) : stack'[j].kind # "run"
      BY <2>3 DEF First
    <3>2. CASE i \in 1..Len(stack)
      <4>1. \A j \in 1..(i - 1) : j \in 1..Len(stack)
        BY <3>2 DEF TypeOK
      <4>2. First(i, "run") /\ stack'[i] = stack[i]
        BY <1>2, <3>1, <3>2, <4>1, PushFrames DEF First
      <4> QED
        BY <2>3, <3>2, <4>2 DEF Trapped
    <3>3. CASE i = Len(stack) + 1
      <4>1. \A j \in 1..Len(stack) : j \in 1..(i - 1)
        BY <3>3 DEF TypeOK
      <4>2. ~Inside("run")
        BY <1>2, <3>1, <4>1, PushFrames DEF Inside
      <4> QED
        BY <1>2, <2>3, <3>3, <4>2, PushFrames DEF Trapped
    <3> QED
      BY <1>2, <3>2, <3>3, PushFrames
  <2>4. \A i \in 1..Len(stack') : stack'[i].at \notin Over
    BY <1>2, PushFrames DEF Over
  <2> QED
    BY <2>1, <2>2, <2>3, <2>4 DEF Trapped
<1>3. ASSUME NEW step \in {"in", "unblocked", "checked", "restored", "ended"}, Move(step)
      PROVE  Trapped'
  <2>1. wanted' = wanted /\ Len(stack') = Len(stack) /\ stack # <<>>
    BY <1>3, MoveFrames DEF Move
  <2>2. Inside("run")' <=> Inside("run")
    BY <1>3, MoveFrames DEF Inside
  <2>3. ASSUME NEW i \in 1..Len(stack), First(i, "run")', wanted.errtrap = "trap"
        PROVE  stack'[i].keep.errtrap = "trap"
    <3>1. \A j \in 1..(i - 1) : j \in 1..Len(stack)
      BY DEF TypeOK
    <3>2. First(i, "run")
      BY <1>3, <2>3, <3>1, MoveFrames DEF First
    <3> QED
      BY <1>3, <2>3, <3>2, MoveFrames DEF Trapped
  <2>4. CASE step = "restored" /\ sh' = Left
    <3>1. ~Inside("run") => Top.kind # "run"
      BY <1>3, MoveFrames DEF Inside
    <3>3. ASSUME ~Inside("run"), wanted.errtrap = "trap" PROVE sh'.errtrap = "trap"
      BY <2>1, <2>4, <3>1, <3>3, LeftFields DEF Trapped
    <3>4. ASSUME NEW i \in 1..Len(stack), stack'[i].kind = "run", stack'[i].at \in Over,
                 stack'[i].keep.errtrap = "trap"
          PROVE  sh'.errtrap = "trap"
      <4>1. i = Len(stack)
        BY <1>3, <3>4, MoveFrames DEF Over
      <4>2. Top.kind = "run" /\ Top.keep.errtrap = "trap"
        BY <1>3, <3>4, <4>1, MoveFrames
      <4> QED
        BY <2>1, <2>4, <4>2, LeftFields
    <3> QED
      BY <2>1, <2>2, <2>3, <3>3, <3>4 DEF Trapped
  <2>5. CASE sh' = sh /\ (step \in Over => Top.at \in Over)
    <3>4. ASSUME NEW i \in 1..Len(stack), stack'[i].kind = "run", stack'[i].at \in Over,
                 stack'[i].keep.errtrap = "trap"
          PROVE  sh'.errtrap = "trap"
      <4>1. i = Len(stack)
        BY <1>3, <3>4, MoveFrames DEF Over
      <4>2. stack[i].kind = "run" /\ stack[i].at \in Over /\ stack[i].keep.errtrap = "trap"
        BY <1>3, <2>5, <3>4, <4>1, MoveFrames
      <4> QED
        BY <2>5, <4>2 DEF Trapped
    <3> QED
      BY <2>1, <2>2, <2>3, <2>5, <3>4 DEF Trapped
  <2> QED
    BY <1>3, <2>4, <2>5 DEF Move, Over
<1>4. CASE Pop
  <2>1. wanted' = wanted /\ stack # <<>>
    BY <1>4 DEF Pop
  <2>2. ASSUME ~Inside("run")', wanted.errtrap = "trap" PROVE sh'.errtrap = "trap"
    <3>1. \A k \in 1..Len(stack) : k # Len(stack) => stack[k].kind # "run"
      BY <1>4, <2>2, PopFrames DEF Inside
    <3>2. CASE Top.kind = "run"
      <4>1. \A j \in 1..(Len(stack) - 1) : j \in 1..Len(stack) /\ j # Len(stack)
        BY DEF TypeOK
      <4>2. First(Len(stack), "run")
        BY <1>4, <3>1, <3>2, <4>1, PopFrames DEF First
      <4>3. Top.keep.errtrap = "trap"
        BY <1>4, <2>2, <4>2, PopFrames DEF Trapped
      <4>4. Top.at \in Over => sh.errtrap = "trap"
        BY <1>4, <3>2, <4>3, PopFrames DEF Trapped
      <4>5. sh' = Left \/ (sh' = sh /\ Top.at \in Over)
        BY <1>4, <3>2 DEF Pop, Over
      <4> QED
        BY <2>1, <3>2, <4>3, <4>4, <4>5, LeftFields
    <3>3. CASE Top.kind # "run"
      <4>1. ~Inside("run")
        BY <1>4, <3>1, <3>3, PopFrames DEF Inside
      <4>2. sh' = Left \/ sh' = sh
        BY <1>4 DEF Pop
      <4> QED
        BY <2>1, <2>2, <3>3, <4>1, <4>2, LeftFields DEF Trapped
    <3> QED
      BY <3>2, <3>3
  <2>3. ASSUME NEW i \in 1..Len(stack'), First(i, "run")', wanted.errtrap = "trap"
        PROVE  stack'[i].keep.errtrap = "trap"
    <3>1. \A j \in 1..(i - 1) : j \in 1..Len(stack')
      BY <1>4, PopFrames
    <3>2. First(i, "run")
      BY <1>4, <2>3, <3>1, PopFrames DEF First
    <3> QED
      BY <1>4, <2>3, <3>2, PopFrames DEF Trapped
  <2>4. \A i \in 1..Len(stack') : stack'[i].at \notin Over
    BY <1>4, PopFrames DEF Over
  <2> QED
    BY <2>1, <2>2, <2>3, <2>4 DEF Trapped
<1>5. ASSUME NEW n \in 0..Len(stack), Cut(n) PROVE Trapped'
  <2>1. wanted' = wanted /\ sh' = Unwound(n) /\ Len(stack) \in Nat
    BY <1>5 DEF Cut, TypeOK
  <2>2. ASSUME ~Inside("run")', wanted.errtrap = "trap" PROVE sh'.errtrap = "trap"
    <3>1. \A k \in 1..n : stack[k].kind # "run"
      BY <1>5, <2>2, CutFrames DEF Inside
    <3>2. CASE /\ \A k \in (n + 1)..Len(stack) : stack[k].kind = "run" => stack[k].keep.errtrap = NoTrap
               /\ Unwound(n).errtrap = sh.errtrap
      <4>1. CASE Inside("run")
        <5>1. PICK i \in 1..Len(stack) : First(i, "run")
          BY <4>1, FirstThere
        <5>2. stack[i].keep.errtrap = "trap" /\ stack[i].kind = "run"
          BY <2>2, <5>1 DEF Trapped, First
        <5>3. i \in (n + 1)..Len(stack)
          BY <1>5, <3>1, <5>2, CutFrames
        <5> QED
          BY <3>2, <5>2, <5>3
      <4>2. CASE ~Inside("run")
        BY <2>1, <2>2, <3>2, <4>2 DEF Trapped
      <4> QED
        BY <4>1, <4>2
    <3> QED
      BY <2>1, <3>2, UnwoundTrap
  <2>3. ASSUME NEW i \in 1..Len(stack'), First(i, "run")', wanted.errtrap = "trap"
        PROVE  stack'[i].keep.errtrap = "trap"
    <3>1. i \in 1..n /\ \A j \in 1..(i - 1) : j \in 1..n
      BY <1>5, CutFrames
    <3>2. First(i, "run")
      BY <1>5, <2>3, <3>1, CutFrames DEF First
    <3> QED
      BY <1>5, <2>3, <3>1, <3>2, CutFrames DEF Trapped
  <2>4. \A i \in 1..Len(stack') : stack'[i].at \notin Over
    BY <1>5, CutFrames DEF Over
  <2> QED
    BY <2>1, <2>2, <2>3, <2>4 DEF Trapped
<1> QED
  BY <1>1, <1>2, <1>3, <1>4, <1>5 DEF Moves

\* `run` is executing a command.
Executing == \E i \in 1..Len(stack) : stack[i].kind = "run" /\ stack[i].at = "in"

LEMMA IgnoredStep ==
  ASSUME TypeOK, Nested, Ignored, Moves
  PROVE  Ignored'
<1>a. sh.ignoring <=> Executing
  BY DEF Ignored, Executing
<1>b. \A i \in 1..Len(stack) : stack[i].kind = "run" =>
        (stack[i].keep.ignoring <=> \E j \in 1..(i - 1) : stack[j].kind = "run")
  BY DEF Ignored
<1>0. Len(stack) \in Nat
  BY DEF TypeOK
<1>1. CASE Still
  <2>1. stack' = stack /\ sh'.ignoring = sh.ignoring
    BY <1>1, StillFields
  <2> QED
    BY <2>1 DEF Ignored
<1>2. ASSUME NEW fr \in Frames, Push(fr) PROVE Ignored'
  <2>1. sh' = Entered(fr)
    BY <1>2 DEF Push
  <2>2. sh'.ignoring <=> Executing'
    <3>1. CASE fr.kind = "run"
      <4>1. fr.at = "in"
        BY <1>2, <3>1 DEF Push
      <4>2. Executing'
        BY <1>2, <3>1, <4>1, PushFrames DEF Executing
      <4>3. sh'.ignoring = TRUE
        BY <2>1, <3>1, EnteredFields
      <4> QED
        BY <4>2, <4>3
    <3>2. CASE fr.kind # "run"
      <4>1. Executing' <=> Executing
        BY <1>2, <3>2, PushFrames DEF Executing
      <4>2. sh'.ignoring = sh.ignoring
        BY <2>1, <3>2, EnteredFields
      <4> QED
        BY <1>a, <4>1, <4>2
    <3> QED
      BY <3>1, <3>2
  <2>3. ASSUME NEW i \in 1..Len(stack'), stack'[i].kind = "run"
        PROVE  stack'[i].keep.ignoring <=> \E j \in 1..(i - 1) : stack'[j].kind = "run"
    <3>1. CASE i \in 1..Len(stack)
      <4>1. \A j \in 1..(i - 1) : j \in 1..Len(stack)
        BY <1>0, <3>1
      <4>2. stack'[i] = stack[i] /\ \A j \in 1..(i - 1) : stack'[j] = stack[j]
        BY <1>2, <3>1, <4>1, PushFrames
      <4> QED
        BY <1>b, <2>3, <3>1, <4>2
    <3>2. CASE i = Len(stack) + 1
      <4>1. \A j : j \in 1..(i - 1) <=> j \in 1..Len(stack)
        BY <1>0, <3>2
      <4>2. (\E j \in 1..(i - 1) : stack'[j].kind = "run") <=> Executing
        BY <1>2, <4>1, PushFrames DEF Executing
      <4>3. stack'[i].keep = sh
        BY <1>2, <3>2, PushFrames
      <4> QED
        BY <1>a, <4>2, <4>3
    <3> QED
      BY <1>2, <3>1, <3>2, PushFrames
  <2> QED
    BY <2>2, <2>3 DEF Ignored, Executing
<1>3. ASSUME NEW step \in {"in", "unblocked", "checked", "restored", "ended"}, Move(step)
      PROVE  Ignored'
  <2>3. ASSUME NEW i \in 1..Len(stack'), stack'[i].kind = "run"
        PROVE  stack'[i].keep.ignoring <=> \E j \in 1..(i - 1) : stack'[j].kind = "run"
    <3>1. i \in 1..Len(stack) /\ \A j \in 1..(i - 1) : j \in 1..Len(stack)
      BY <1>0, <1>3, MoveFrames
    <3> QED
      BY <1>3, <1>b, <2>3, <3>1, MoveFrames
  <2>4. sh'.ignoring <=> Executing'
    <3>0. stack # <<>>
      BY <1>3 DEF Move
    <3>1. CASE step = "restored" /\ sh' = Left /\ Top.at \notin Over
      <4>1. Executing' <=> \E j \in 1..(Len(stack) - 1) : stack[j].kind = "run"
        <5>1. \A j : j \in 1..(Len(stack) - 1) <=> j \in 1..Len(stack) /\ j # Len(stack)
          BY <1>0
        <5>2. stack'[Len(stack)].at # "in"
          BY <1>3, <3>1, MoveFrames
        <5> QED
          BY <1>3, <5>1, <5>2, MoveFrames DEF Executing
      <4>2. CASE Top.kind = "run"
        <5>1. Left.ignoring = Top.keep.ignoring
          BY <3>0, <4>2, LeftFields
        <5>2. Top.keep.ignoring <=> \E j \in 1..(Len(stack) - 1) : stack[j].kind = "run"
          BY <1>3, <1>b, <4>2, MoveFrames
        <5> QED
          BY <3>1, <4>1, <5>1, <5>2
      <4>3. CASE Top.kind # "run"
        <5>1. Left.ignoring = sh.ignoring
          BY <3>0, <4>3, LeftFields
        <5>2. Executing' <=> Executing
          BY <1>3, <4>3, MoveFrames DEF Executing
        <5> QED
          BY <1>a, <3>1, <5>1, <5>2
      <4> QED
        BY <4>2, <4>3
    <3>2. CASE sh' = sh /\ (Top.at \in Over \/ Top.kind = "sigrun")
      <4>1. step = "in" => Top.kind = "sigrun"
        BY <1>3 DEF Move
      <4>2. step # "in" \/ Top.kind # "run"
        BY <4>1
      <4>3. Top.at # "in" \/ Top.kind # "run"
        BY <3>2 DEF Over
      <4>4. Executing' <=> Executing
        BY <1>3, <4>2, <4>3, MoveFrames DEF Executing
      <4> QED
        BY <1>a, <3>2, <4>4
    <3> QED
      BY <1>3, <3>1, <3>2 DEF Move, Over
  <2> QED
    BY <2>3, <2>4 DEF Ignored, Executing
<1>4. CASE Pop
  <2>3. ASSUME NEW i \in 1..Len(stack'), stack'[i].kind = "run"
        PROVE  stack'[i].keep.ignoring <=> \E j \in 1..(i - 1) : stack'[j].kind = "run"
    <3>1. i \in 1..Len(stack) /\ \A j \in 1..(i - 1) : j \in 1..Len(stack')
      BY <1>0, <1>4, PopFrames
    <3> QED
      BY <1>4, <1>b, <2>3, <3>1, PopFrames
  <2>4. sh'.ignoring <=> Executing'
    <3>0. stack # <<>>
      BY <1>4 DEF Pop
    <3>1. Executing' <=> \E j \in 1..(Len(stack) - 1) : stack[j].kind = "run"
      <4>1. \A j : j \in 1..(Len(stack) - 1) <=> j \in 1..Len(stack')
        BY <1>0, <1>4, PopFrames
      <4> QED
        BY <1>4, <4>1, PopFrames DEF Executing
    <3>2. CASE Top.kind = "run" /\ sh' = Left
      <4>1. Left.ignoring = Top.keep.ignoring
        BY <3>0, <3>2, LeftFields
      <4>2. Top.keep.ignoring <=> \E j \in 1..(Len(stack) - 1) : stack[j].kind = "run"
        BY <1>4, <1>b, <3>2, PopFrames
      <4> QED
        BY <3>1, <3>2, <4>1, <4>2
    <3>3. CASE Top.kind # "run" \/ Top.at \in Over
      <4>1. sh'.ignoring = sh.ignoring
        BY <1>4, <3>0, <3>3, LeftFields DEF Pop
      <4>2. ~(Top.kind = "run" /\ Top.at = "in")
        BY <3>3 DEF Over
      <4>3. Executing' <=> Executing
        BY <1>4, <4>2, PopFrames DEF Executing
      <4> QED
        BY <1>a, <4>1, <4>3
    <3> QED
      BY <1>4, <3>2, <3>3 DEF Pop, Over
  <2> QED
    BY <2>3, <2>4 DEF Ignored, Executing
<1>5. ASSUME NEW n \in 0..Len(stack), Cut(n) PROVE Ignored'
  <2>1. sh' = Unwound(n)
    BY <1>5 DEF Cut
  <2>2. Executing' <=> \E j \in 1..n : stack[j].kind = "run"
    BY <1>5, CutFrames DEF Executing
  <2>3. ASSUME NEW i \in 1..Len(stack'), stack'[i].kind = "run"
        PROVE  stack'[i].keep.ignoring <=> \E j \in 1..(i - 1) : stack'[j].kind = "run"
    <3>1. i \in 1..n /\ i \in 1..Len(stack) /\ \A j \in 1..(i - 1) : j \in 1..n
      BY <1>0, <1>5, CutFrames
    <3> QED
      BY <1>5, <1>b, <2>3, <3>1, CutFrames
  <2>4. sh'.ignoring <=> Executing'
    <3>1. CASE /\ \A k \in (n + 1)..Len(stack) : stack[k].kind # "run"
               /\ Unwound(n).ignoring = sh.ignoring
      <4>1. Executing <=> \E j \in 1..n : stack[j].kind = "run"
        BY <1>5, <3>1, CutFrames DEF Executing
      <4> QED
        BY <1>a, <2>1, <2>2, <3>1, <4>1
    <3>2. ASSUME NEW i \in (n + 1)..Len(stack), stack[i].kind = "run",
                 \A k \in (n + 1)..(i - 1) : stack[k].kind # "run",
                 Unwound(n).ignoring = stack[i].keep.ignoring
          PROVE  sh'.ignoring <=> Executing'
      <4>1. i \in 1..Len(stack) /\ \A j : j \in 1..(i - 1) <=> (j \in 1..n \/ j \in (n + 1)..(i - 1))
        BY <1>0
      <4>2. stack[i].keep.ignoring <=> \E j \in 1..n : stack[j].kind = "run"
        BY <1>b, <3>2, <4>1
      <4> QED
        BY <2>1, <2>2, <3>2, <4>2
    <3> QED
      BY <3>1, <3>2, UnwoundFlags
  <2> QED
    BY <2>3, <2>4 DEF Ignored, Executing
<1> QED
  BY <1>1, <1>2, <1>3, <1>4, <1>5 DEF Moves

Obeyed == sh.immediate <=> sh.flag /\ ~sh.ignoring

\* Where errexit is ignored is known, so what bash does about it is a matter of the flags.
LEMMA ImmediateFlags == Ignored => (Immediate <=> (~jumped => Obeyed))
<1> SUFFICES ASSUME Ignored PROVE Immediate <=> (~jumped => Obeyed)
  OBVIOUS
<1>1. sh.ignoring <=> Executing
  BY DEF Ignored, Executing
<1>2. ~Executing <=> \A i \in 1..Len(stack) : stack[i].kind = "run" => stack[i].at # "in"
  BY DEF Executing
<1> QED
  BY <1>1, <1>2 DEF Immediate, Obeyed

LEMMA ImmediateStep ==
  ASSUME TypeOK, TypeOK', Ignored, Ignored', Immediate, Moves
  PROVE  Immediate'
<1>0. Immediate' <=> (~jumped' => Obeyed')
  BY ImmediateFlags, PTL
<1> SUFFICES ASSUME ~jumped' PROVE Obeyed'
  BY <1>0
<1>a. Obeyed
  BY ImmediateFlags, JumpedStays
<1>b. /\ sh.ignoring \in BOOLEAN /\ sh.flag \in BOOLEAN /\ sh.immediate \in BOOLEAN
      /\ sh'.ignoring \in BOOLEAN /\ sh'.flag \in BOOLEAN /\ sh'.immediate \in BOOLEAN
  BY Fields DEF TypeOK
<1>c. ASSUME sh'.immediate = sh.immediate, sh'.ignoring = sh.ignoring, sh'.flag = sh.flag
      PROVE  Obeyed'
  BY <1>a, <1>c DEF Obeyed
<1>1. CASE Still
  <2>1. \/ sh'.immediate = sh.immediate /\ sh'.flag = sh.flag
        \/ sh'.flag = ~sh.flag /\ sh'.immediate = IF sh.ignoring THEN FALSE ELSE ~sh.flag
    BY <1>1, StillFields
  <2>2. sh'.ignoring = sh.ignoring
    BY <1>1, StillFields
  <2>3. CASE sh'.flag = ~sh.flag /\ sh'.immediate = IF sh.ignoring THEN FALSE ELSE ~sh.flag
    BY <1>b, <2>2, <2>3 DEF Obeyed
  <2> QED
    BY <1>c, <2>1, <2>2, <2>3
<1>2. ASSUME NEW fr \in Frames, Push(fr) PROVE Obeyed'
  <2>1. sh' = Entered(fr)
    BY <1>2 DEF Push
  <2>2. CASE fr.kind = "run"
    <3>1. sh'.immediate = FALSE /\ sh'.ignoring = TRUE
      BY <2>1, <2>2, EnteredFields
    <3> QED
      BY <3>1 DEF Obeyed
  <2>3. CASE fr.kind # "run"
    BY <1>c, <2>1, <2>3, EnteredFields
  <2> QED
    BY <2>2, <2>3
<1>3. ASSUME sh' = Left, stack # <<>> PROVE Obeyed'
  <2>1. CASE Top.kind = "run"
    <3>1. /\ sh'.immediate = (IF Top.keep.ignoring THEN FALSE ELSE sh'.flag)
          /\ sh'.ignoring = Top.keep.ignoring
      BY <1>3, <2>1, LeftFields
    <3> QED
      BY <1>b, <3>1 DEF Obeyed
  <2>2. CASE Top.kind # "run"
    BY <1>c, <1>3, <2>2, LeftFields
  <2> QED
    BY <2>1, <2>2
<1>4. CASE \E step \in {"in", "checked", "restored", "ended"} : Move(step)
  BY <1>3, <1>4, <1>c DEF Move
<1>5. CASE Pop
  BY <1>3, <1>5, <1>c DEF Pop
<1>6. ASSUME NEW n \in 0..Len(stack), Cut(n) PROVE Obeyed'
  <2>1. \A i \in 1..Len(stack) : stack[i].kind = "fn"
    BY <1>6 DEF Cut
  <2>2. sh' = Unwound(n)
    BY <1>6 DEF Cut
  <2>3. Unwound(n).flag = sh.flag
    BY UnwoundType
  <2>4. Unwound(n).immediate = sh.immediate /\ Unwound(n).ignoring = sh.ignoring
    <3>1. \A i \in (n + 1)..Len(stack) : stack[i].kind # "run"
      BY <2>1
    <3> QED
      BY <3>1, UnwoundFlags
  <2> QED
    BY <1>c, <2>2, <2>3, <2>4
<1> QED
  BY <1>1, <1>2, <1>4, <1>5, <1>6 DEF Moves

-----------------------------------------------------------------------------
(* The masks of the children. *)

LEMMA UnwoundTop ==
  ASSUME TypeOK, Chained, NEW n \in 0..Len(stack)
  PROVE  Unwound(n).top = Before(stack, sh, n + 1).top
<1>0. Len(stack) \in Nat
  BY DEF TypeOK
<1>1. CASE /\ \A k \in (n + 1)..Len(stack) : stack[k].kind # "sigrun"
           /\ Unwound(n).top = sh.top
  <2>1. /\ n + 1 \in 1..(Len(stack) + 1) /\ Len(stack) + 1 \in 1..(Len(stack) + 1)
        /\ n + 1 <= Len(stack) + 1 /\ Len(stack) + 1 - 1 = Len(stack)
    BY <1>0
  <2>2. \A k \in (n + 1)..(Len(stack) + 1 - 1) : ~Unblocking(stack, k)
    BY <1>1, <2>1 DEF Unblocking
  <2>3. Before(stack, sh, Len(stack) + 1).top = Before(stack, sh, n + 1).top
    BY <2>1, <2>2 DEF Chained
  <2>4. Before(stack, sh, Len(stack) + 1) = sh
    BY <1>0 DEF Before
  <2> QED
    BY <1>1, <2>3, <2>4
<1>2. ASSUME NEW i \in (n + 1)..Len(stack),
             \A k \in (n + 1)..(i - 1) : stack[k].kind # "sigrun",
             Unwound(n).top = stack[i].keep.top
      PROVE  Unwound(n).top = Before(stack, sh, n + 1).top
  <2>1. /\ n + 1 \in 1..(Len(stack) + 1) /\ i \in 1..(Len(stack) + 1) /\ n + 1 <= i /\ i <= Len(stack)
    BY <1>0
  <2>2. \A k \in (n + 1)..(i - 1) : ~Unblocking(stack, k)
    BY <1>2 DEF Unblocking
  <2>3. Before(stack, sh, i).top = Before(stack, sh, n + 1).top
    BY <2>1, <2>2 DEF Chained
  <2>4. Before(stack, sh, i) = stack[i].keep
    BY <2>1 DEF Before
  <2> QED
    BY <1>2, <2>3, <2>4
<1> QED
  BY <1>1, <1>2, UnwoundMask

\* A shorter stack, with the mask that the frames left behind were begun with.
LEMMA ChainCut ==
  ASSUME TypeOK, Chained, Listed, NEW m \in 0..Len(stack), Len(stack') = m,
         \A k \in 1..m : stack'[k] = stack[k],
         sh'.top = Before(stack, sh, m + 1).top
  PROVE  Chained' /\ Listed'
<1>0. Len(stack) \in Nat
  BY DEF TypeOK
<1>1. \A k \in 1..m : Before(stack', sh', k) = Before(stack, sh, k) /\ (Unblocking(stack', k) <=> Unblocking(stack, k)) /\ k \in 1..Len(stack)
  BY <1>0 DEF Before, Unblocking
<1>2. Before(stack', sh', m + 1).top = Before(stack, sh, m + 1).top
  BY <1>0 DEF Before
<1>3. ASSUME NEW k \in 1..(m + 1) PROVE Before(stack', sh', k).top = Before(stack, sh, k).top
  <2>1. k \in 1..m \/ k = m + 1
    BY <1>0
  <2> QED
    BY <1>1, <1>2, <2>1
<1>4. ASSUME NEW i \in 1..(m + 1), NEW j \in 1..(m + 1), i <= j,
             \A k \in i..(j - 1) : ~Unblocking(stack', k)
      PROVE  Before(stack', sh', j).top = Before(stack', sh', i).top
  <2>1. i \in 1..(Len(stack) + 1) /\ j \in 1..(Len(stack) + 1)
    BY <1>0
  <2>2. \A k \in i..(j - 1) : k \in 1..m
    BY <1>0
  <2>3. \A k \in i..(j - 1) : ~Unblocking(stack, k)
    BY <1>1, <1>4, <2>2
  <2>4. Before(stack, sh, j).top = Before(stack, sh, i).top
    BY <1>4, <2>1, <2>3 DEF Chained
  <2> QED
    BY <1>3, <2>4
<1>5. ASSUME NEW i \in 1..m, Unblocking(stack', i) PROVE Before(stack', sh', i + 1).top \cap stack'[i].set = {}
  <2>1. i + 1 \in 1..(m + 1)
    BY <1>0
  <2>2. Unblocking(stack, i) /\ i \in 1..Len(stack)
    BY <1>1, <1>5
  <2> QED
    BY <1>3, <2>1, <2>2 DEF Listed
<1> QED
  BY <1>4, <1>5 DEF Chained, Listed

\* What the frame on top was begun with is what there is, unless it unblocks.
LEMMA TopChained ==
  ASSUME TypeOK, Chained, stack # <<>>
  PROVE  /\ Before(stack, sh, Len(stack)) = Top.keep /\ Before(stack, sh, Len(stack) + 1) = sh
         /\ ~Unblocking(stack, Len(stack)) => sh.top = Top.keep.top
         /\ Left.top = Top.keep.top
<1>0. Len(stack) \in Nat /\ Len(stack) \in 1..Len(stack) /\ Top = stack[Len(stack)]
  BY TopThere DEF TypeOK
<1>1. Before(stack, sh, Len(stack)) = Top.keep /\ Before(stack, sh, Len(stack) + 1) = sh
  BY <1>0 DEF Before
<1>2. ASSUME ~Unblocking(stack, Len(stack)) PROVE sh.top = Top.keep.top
  <2>1. /\ Len(stack) \in 1..(Len(stack) + 1) /\ Len(stack) + 1 \in 1..(Len(stack) + 1)
        /\ Len(stack) <= Len(stack) + 1
        /\ \A k \in Len(stack)..(Len(stack) + 1 - 1) : k = Len(stack)
    BY <1>0
  <2>2. Before(stack, sh, Len(stack) + 1).top = Before(stack, sh, Len(stack)).top
    BY <1>2, <2>1 DEF Chained
  <2> QED
    BY <1>1, <2>2
<1>3. CASE Top.kind = "sigrun"
  BY <1>1, <1>2, <1>3, LeftFields
<1>4. CASE Top.kind # "sigrun"
  <2>1. ~Unblocking(stack, Len(stack)) /\ Left.top = sh.top
    BY <1>0, <1>4, LeftFields DEF Unblocking
  <2> QED
    BY <1>1, <1>2, <2>1
<1> QED
  BY <1>3, <1>4

LEMMA ChainPush ==
  ASSUME TypeOK, Nested, Chained, Listed, NEW fr \in Frames, Push(fr)
  PROVE  Chained' /\ Listed'
<1> DEFINE n == Len(stack)
<1>0. n \in Nat /\ Len(stack') = n + 1 /\ sh' = Entered(fr) /\ stack'[n + 1] = fr /\ fr.keep = sh
  BY PushFrames DEF Push
<1>1. ASSUME NEW k \in 1..(n + 1) PROVE Before(stack', sh', k) = Before(stack, sh, k)
  <2>1. CASE k \in 1..n
    <3>1. stack'[k] = stack[k] /\ k <= n /\ k <= n + 1
      BY <1>0, <2>1, PushFrames
    <3> QED
      BY <1>0, <3>1 DEF Before
  <2>2. CASE k = n + 1
    BY <1>0, <2>2 DEF Before
  <2> QED
    BY <1>0, <2>1, <2>2
<1>2. Before(stack', sh', n + 1 + 1) = sh'
  BY <1>0 DEF Before
<1>3. \A k \in 1..n : Unblocking(stack', k) <=> Unblocking(stack, k)
  BY PushFrames DEF Unblocking
<1>4. Before(stack, sh, n + 1) = sh
  BY <1>0 DEF Before
<1>5. ASSUME NEW i \in 1..(n + 1), NEW j \in 1..(n + 1), i <= j,
             \A k \in i..(j - 1) : ~Unblocking(stack', k)
      PROVE  Before(stack', sh', j).top = Before(stack', sh', i).top
  <2>1. \A k \in i..(j - 1) : k \in 1..n
    BY <1>0
  <2>2. \A k \in i..(j - 1) : ~Unblocking(stack, k)
    BY <1>3, <1>5, <2>1
  <2>3. Before(stack, sh, j).top = Before(stack, sh, i).top
    BY <1>5, <2>2 DEF Chained
  <2> QED
    BY <1>1, <2>3
<1>6. ASSUME NEW i \in 1..(n + 1), \A k \in i..(n + 1) : ~Unblocking(stack', k)
      PROVE  sh'.top = Before(stack', sh', i).top
  <2>1. n + 1 \in i..(n + 1) /\ n + 1 \in 1..(n + 1) /\ i <= n + 1 /\ \A k \in i..(n + 1 - 1) : k \in i..(n + 1)
    BY <1>0
  <2>2. Before(stack', sh', n + 1).top = Before(stack', sh', i).top
    BY <1>5, <1>6, <2>1
  <2>3. fr.kind # "sigrun"
    <3>1. ~Unblocking(stack', n + 1)
      BY <1>6, <2>1
    <3>2. fr.at \notin Over
      BY PushFrames
    <3> QED
      BY <1>0, <3>1, <3>2 DEF Unblocking
  <2>4. sh'.top = sh.top
    BY <1>0, <2>3, EnteredFields
  <2> QED
    BY <1>1, <1>4, <2>1, <2>2, <2>4
<1>7. ASSUME NEW i \in 1..(n + 1 + 1), NEW j \in 1..(n + 1 + 1), i <= j,
             \A k \in i..(j - 1) : ~Unblocking(stack', k)
      PROVE  Before(stack', sh', j).top = Before(stack', sh', i).top
  <2>1. CASE j \in 1..(n + 1)
    <3>1. i \in 1..(n + 1)
      BY <1>0, <1>7, <2>1
    <3> QED
      BY <1>5, <1>7, <2>1, <3>1
  <2>2. CASE j = n + 1 + 1 /\ i \in 1..(n + 1)
    <3>1. \A k \in i..(n + 1) : k \in i..(j - 1)
      BY <1>0, <2>2
    <3> QED
      BY <1>2, <1>6, <1>7, <2>2, <3>1
  <2>3. CASE i = j
    BY <2>3
  <2> QED
    BY <1>0, <1>7, <2>1, <2>2, <2>3
<1>8. ASSUME NEW i \in 1..(n + 1), Unblocking(stack', i) PROVE Before(stack', sh', i + 1).top \cap stack'[i].set = {}
  <2>1. CASE i \in 1..n
    <3>1. Unblocking(stack, i) /\ stack'[i] = stack[i] /\ i + 1 \in 1..(n + 1)
      BY <1>0, <1>3, <1>8, <2>1, PushFrames
    <3> QED
      BY <1>1, <2>1, <3>1 DEF Listed
  <2>2. CASE i = n + 1
    <3>1. fr.kind = "sigrun"
      BY <1>0, <1>8, <2>2 DEF Unblocking
    <3>2. sh'.top = sh.mask \ fr.set
      BY <1>0, <3>1, EnteredFields
    <3> QED
      BY <1>0, <1>2, <2>2, <3>2
  <2> QED
    BY <1>0, <2>1, <2>2
<1> QED
  BY <1>0, <1>7, <1>8 DEF Chained, Listed

LEMMA ChainMove ==
  ASSUME TypeOK, Nested, Chained, Listed, Move("in") \/ Move("checked") \/ Move("restored") \/ Move("ended")
  PROVE  Chained' /\ Listed'
<1> DEFINE n == Len(stack)
<1>a. PICK step \in {"in", "unblocked", "checked", "restored", "ended"} : Move(step)
  OBVIOUS
<1>0. n \in Nat /\ n \in 1..n /\ Len(stack') = n /\ Top = stack[n] /\ stack # <<>>
  BY <1>a, MoveFrames DEF Move
<1>1. ASSUME NEW k \in 1..n
      PROVE  Before(stack', sh', k) = Before(stack, sh, k) /\ (k # n => (Unblocking(stack', k) <=> Unblocking(stack, k)))
  <2>1. stack'[k].kind = stack[k].kind /\ stack'[k].keep = stack[k].keep
    BY <1>a, MoveFrames
  <2>2. k # n => stack'[k].at = stack[k].at
    BY <1>a, MoveFrames
  <2>3. k <= n
    BY <1>0
  <2> QED
    BY <1>0, <2>1, <2>2, <2>3 DEF Before, Unblocking
<1>2. Before(stack', sh', n + 1) = sh' /\ Before(stack, sh, n + 1) = sh
  BY <1>0 DEF Before
<1>3. stack'[n].kind = Top.kind /\ stack'[n].at = step /\ stack'[n].set = Top.set
  BY <1>a, <1>0, MoveFrames
<1>4. ~Unblocking(stack', n) => sh'.top = Top.keep.top
  <2>1. CASE step = "restored" /\ sh' = Left /\ Top.at \notin Over
    BY <1>0, <2>1, TopChained
  <2>2. CASE sh' = sh /\ (step \in Over <=> Top.at \in Over)
    <3>1. Unblocking(stack', n) <=> Unblocking(stack, n)
      BY <1>0, <1>3, <2>2 DEF Unblocking
    <3> QED
      BY <1>0, <2>2, <3>1, TopChained
  <2> QED
    BY <1>a, <2>1, <2>2 DEF Move, Over
<1>5. Unblocking(stack', n) => Unblocking(stack, n) /\ sh' = sh
  BY <1>a, <1>0, <1>3 DEF Move, Over, Unblocking
<1>6. ASSUME NEW i \in 1..n, NEW j \in 1..n, i <= j, \A k \in i..(j - 1) : ~Unblocking(stack', k)
      PROVE  Before(stack', sh', j).top = Before(stack', sh', i).top
  <2>1. \A k \in i..(j - 1) : k \in 1..n /\ k # n
    BY <1>0
  <2>2. \A k \in i..(j - 1) : ~Unblocking(stack, k)
    BY <1>1, <1>6, <2>1
  <2>3. i \in 1..(n + 1) /\ j \in 1..(n + 1)
    BY <1>0
  <2>4. Before(stack, sh, j).top = Before(stack, sh, i).top
    BY <1>6, <2>2, <2>3 DEF Chained
  <2> QED
    BY <1>1, <2>4
<1>7. ASSUME NEW i \in 1..(n + 1), NEW j \in 1..(n + 1), i <= j,
             \A k \in i..(j - 1) : ~Unblocking(stack', k)
      PROVE  Before(stack', sh', j).top = Before(stack', sh', i).top
  <2>1. CASE j \in 1..n
    <3>1. i \in 1..n
      BY <1>0, <1>7, <2>1
    <3> QED
      BY <1>6, <1>7, <2>1, <3>1
  <2>2. CASE j = n + 1 /\ i \in 1..n
    <3>1. n \in i..(j - 1) /\ \A k \in i..(n - 1) : k \in i..(j - 1)
      BY <1>0, <2>2
    <3>2. Before(stack', sh', n).top = Before(stack', sh', i).top
      BY <1>0, <1>6, <1>7, <2>2, <3>1
    <3>3. sh'.top = Top.keep.top
      BY <1>4, <1>7, <3>1
    <3>4. Before(stack', sh', n).top = Top.keep.top
      BY <1>0, <1>1, TopChained
    <3> QED
      BY <1>2, <2>2, <3>2, <3>3, <3>4
  <2>3. CASE i = j
    BY <2>3
  <2> QED
    BY <1>0, <1>7, <2>1, <2>2, <2>3
<1>8. ASSUME NEW i \in 1..n, Unblocking(stack', i) PROVE Before(stack', sh', i + 1).top \cap stack'[i].set = {}
  <2>1. CASE i # n
    <3>1. Unblocking(stack, i) /\ stack'[i].set = stack[i].set /\ i + 1 \in 1..n
      BY <1>a, <1>0, <1>1, <1>8, <2>1, MoveFrames
    <3> QED
      BY <1>1, <3>1 DEF Listed
  <2>2. CASE i = n
    <3>1. Unblocking(stack, n) /\ sh' = sh
      BY <1>5, <1>8, <2>2
    <3>2. sh.top \cap Top.set = {}
      BY <1>0, <1>2, <3>1 DEF Listed
    <3> QED
      BY <1>2, <1>3, <2>2, <3>1, <3>2
  <2> QED
    BY <2>1, <2>2
<1> QED
  BY <1>0, <1>7, <1>8 DEF Chained, Listed

LEMMA ChainStep ==
  ASSUME TypeOK, Nested, Chained, Listed, Moves
  PROVE  Chained' /\ Listed'
<1>0. Len(stack) \in Nat
  BY DEF TypeOK
<1>1. CASE Still
  <2>1. Before(stack, sh, Len(stack) + 1) = sh
    BY <1>0 DEF Before
  <2>2. stack' = stack /\ sh'.top = Before(stack, sh, Len(stack) + 1).top
    BY <1>1, <2>1, StillFields
  <2>3. Len(stack) \in 0..Len(stack)
    BY <1>0
  <2> QED
    BY <2>2, <2>3, ChainCut
<1>2. CASE Pop
  <2>1. stack # <<>>
    BY <1>2 DEF Pop
  <2>2. sh'.top = Top.keep.top
    <3>1. Top = stack[Len(stack)]
      BY <1>2, PopFrames
    <3>2. CASE sh' = Left /\ Top.at \notin Over
      BY <2>1, <3>2, TopChained
    <3>3. CASE sh' = sh /\ (Top.at \in Over \/ Top.kind = "fn")
      <4>1. ~Unblocking(stack, Len(stack))
        BY <3>1, <3>3 DEF Unblocking
      <4> QED
        BY <2>1, <3>3, <4>1, TopChained
    <3> QED
      BY <1>2, <3>2, <3>3 DEF Pop, Over
  <2>3. Len(stack) - 1 \in 0..Len(stack) /\ Len(stack) - 1 + 1 = Len(stack)
    BY <1>2, <1>0, PopFrames
  <2>4. sh'.top = Before(stack, sh, Len(stack) - 1 + 1).top
    BY <2>1, <2>2, <2>3, TopChained
  <2>5. Len(stack') = Len(stack) - 1 /\ \A k \in 1..(Len(stack) - 1) : stack'[k] = stack[k]
    BY <1>2, PopFrames
  <2> QED
    BY <2>3, <2>4, <2>5, ChainCut
<1>3. CASE \E n \in 0..Len(stack) : Cut(n)
  <2>1. PICK n \in 0..Len(stack) : Cut(n)
    BY <1>3
  <2>2. sh'.top = Before(stack, sh, n + 1).top
    BY <2>1, UnwoundTop DEF Cut
  <2> QED
    BY <2>1, <2>2, CutFrames, ChainCut
<1> QED
  BY <1>1, <1>2, <1>3, ChainPush, ChainMove DEF Moves

LEMMA KidsMaskedStep ==
  ASSUME TypeOK, Chained, Listed, KidsMasked, [Next]_vars
  PROVE  KidsMasked'
<1> SUFFICES ASSUME NEW i \in 1..Len(kids') PROVE kids'[i].mask \cap kids'[i].set = {}
  BY DEF KidsMasked
<1>1. CASE UNCHANGED kids
  BY <1>1 DEF KidsMasked
<1>2. CASE Fork
  <2>1. i \in 1..Len(kids) \/ i = Len(kids) + 1
    BY <1>2, ForkedKid DEF TypeOK
  <2>2. ASSUME stack # <<>>, Top.kind = "sigrun" PROVE sh.top \cap Top.set = {}
    <3>1. Top = stack[Len(stack)] /\ Len(stack) \in 1..Len(stack)
      BY <2>2, TopThere
    <3>2. Unblocking(stack, Len(stack))
      BY <1>2, <2>2, <3>1 DEF Fork, Ready, Unblocking, Over
    <3>3. Before(stack, sh, Len(stack) + 1) = sh
      BY <2>2, TopChained
    <3> QED
      BY <3>1, <3>2, <3>3 DEF Listed
  <2>3. sh.top \cap (IF stack # <<>> /\ Top.kind = "sigrun" THEN Top.set ELSE {}) = {}
    BY <2>2
  <2> QED
    BY <1>2, <2>1, <2>3, ForkedKid DEF KidsMasked
<1> QED
  BY <1>1, <1>2, KidsMoves

-----------------------------------------------------------------------------
(* Signals that waited. *)

LEMMA EarlyStep ==
  ASSUME TypeOK, Nested, Early, Moves
  PROVE  Early'
<1>1. CASE Still
  <2>1. stack' = stack
    BY <1>1, StillFields
  <2>2. CASE Ready
    <3>1. \A i \in 1..Len(stack) : stack[i].at # "unblocked"
      BY <2>2, ReadyFrames
    <3> QED
      BY <2>1, <3>1 DEF Early
  <2>3. CASE traps \subseteq traps'
    BY <2>1, <2>3 DEF Early
  <2> QED
    BY <1>1, <2>2, <2>3, StillFields
<1>2. ASSUME NEW fr \in Frames, Push(fr) PROVE Early'
  <2>1. fr.kind = "sigrun" => fr.at = "unblocked" /\ fr.early \subseteq traps' \cap fr.set
    BY <1>2 DEF Push
  <2>2. \A i \in 1..Len(stack) : stack[i].kind = "sigrun" => stack[i].early = {}
    BY <1>2, PushFrames DEF Early
  <2>3. ASSUME NEW i \in 1..Len(stack'), stack'[i].kind = "sigrun"
        PROVE  /\ stack'[i].at = "unblocked" => stack'[i].early \subseteq traps' \cap stack'[i].set
               /\ stack'[i].at \in {"checked", "in"} => stack'[i].early = {}
    <3>1. CASE i \in 1..Len(stack)
      <4>1. stack'[i] = stack[i]
        BY <1>2, <3>1, PushFrames
      <4>2. stack'[i].early = {}
        BY <2>2, <2>3, <3>1, <4>1
      <4> QED
        BY <4>2
    <3>2. CASE i = Len(stack) + 1
      <4>1. stack'[i] = fr
        BY <1>2, <3>2, PushFrames
      <4> QED
        BY <2>1, <2>3, <4>1
    <3> QED
      BY <1>2, <3>1, <3>2, PushFrames
  <2> QED
    BY <2>3 DEF Early
<1>3. ASSUME NEW step \in {"in", "unblocked", "checked", "restored", "ended"}, Move(step)
      PROVE  Early'
  <2>1. ASSUME NEW i \in 1..Len(stack), stack'[i].kind = "sigrun"
        PROVE  /\ stack'[i].at = "unblocked" => stack'[i].early \subseteq traps' \cap stack'[i].set
               /\ stack'[i].at \in {"checked", "in"} => stack'[i].early = {}
    <3>1. stack[i].kind = "sigrun" /\ stack'[i].early = stack[i].early
      BY <1>3, <2>1, MoveFrames
    <3>2. CASE i # Len(stack)
      BY <1>3, <3>1, <3>2, MoveFrames DEF Early
    <3>3. CASE i = Len(stack)
      <4>1. Top = stack[i] /\ stack'[i].at = step
        BY <1>3, <3>3, MoveFrames
      <4>2. CASE step \in Over
        BY <4>1, <4>2 DEF Over
      <4>3. CASE step = "checked" /\ Top.at = "unblocked" /\ traps \cap Top.set = {}
        <5>1. Top.early \subseteq traps \cap Top.set
          BY <3>1, <4>1, <4>3 DEF Early
        <5> QED
          BY <3>1, <4>1, <4>3, <5>1
      <4>4. CASE step = "in" /\ Top.at = "checked"
        BY <3>1, <4>1, <4>4 DEF Early
      <4> QED
        BY <1>3, <4>2, <4>3, <4>4 DEF Move, Over
    <3> QED
      BY <3>2, <3>3
  <2>2. Len(stack') = Len(stack)
    BY <1>3, MoveFrames
  <2> QED
    BY <2>1, <2>2 DEF Early
<1>4. CASE Pop
  BY <1>4, PopFrames DEF Early
<1>5. ASSUME NEW n \in 0..Len(stack), Cut(n) PROVE Early'
  BY <1>5, CutFrames DEF Early
<1> QED
  BY <1>1, <1>2, <1>3, <1>4, <1>5 DEF Moves

-----------------------------------------------------------------------------
(* The theorems. *)

\* Every step keeps the invariant, whoever calls, prints, signals or jumps (Next).
LEMMA IInvStep == IInv /\ [Next]_vars => IInv'
<1> SUFFICES ASSUME IInv, [Next]_vars PROVE IInv'
  OBVIOUS
<1>1. /\ TypeOK /\ Nested /\ Apart /\ Pointed /\ KidsPointed /\ OutputInPlace /\ CapturedWhole
      /\ Documented /\ Masked /\ Trapped /\ Ignored /\ Immediate /\ Chained /\ Listed
      /\ KidsMasked /\ Early
  BY DEF IInv
<1>2. Moves
  BY <1>1, StepMoves
<1>3. TypeOK' /\ Nested' /\ Apart'
  BY <1>1, <1>2, TypeStep, NestedStep, ApartStep
<1>4. Pointed' /\ KidsPointed' /\ OutputInPlace' /\ CapturedWhole' /\ Documented'
  BY <1>1, <1>2, PointedStep, KidsPointedStep, OutputStep, CapturedStep, DocumentedStep
<1>5. Masked' /\ Trapped' /\ Ignored'
  BY <1>1, <1>2, MaskedStep, TrappedStep, IgnoredStep
<1>6. Immediate'
  BY <1>1, <1>2, <1>3, <1>5, ImmediateStep
<1>7. Chained' /\ Listed' /\ KidsMasked' /\ Early'
  BY <1>1, <1>2, ChainStep, KidsMaskedStep, EarlyStep
<1> QED
  BY <1>3, <1>4, <1>5, <1>6, <1>7 DEF IInv

\* What the other theorems follow from: the state of the shell stays well typed, and each frame
\* of the stack knows what to put back (the guards of entrypoint.rs and subcmd.rs, the unwind
\* frames of l_bash_api.c).
THEOREM CommandsInvariant == Spec => []IInv
<1>1. Init => IInv
  BY InitIInv
<1>2. IInv /\ [Next]_vars => IInv'
  BY IInvStep
<1> QED
  BY <1>1, <1>2, PTL DEF Spec

\* As long as no longjmp skipped a guard, every token printed is in the file, or in the buffer on
\* its way to the file, of the innermost capture around it, however calls nest and whatever their
\* children write (RedirectStdout in entrypoint.rs).
THEOREM CommandsOutput == Spec => []OutputInPlace
<1>1. IInv => OutputInPlace
  BY DEF IInv
<1> QED
  BY <1>1, CommandsInvariant, PTL

\* A call with -v that reports success stored all that was printed inside it and nothing else,
\* newline trimmed unless a child wrote behind the NUL (capture_into_variable).
THEOREM CommandsCapture == Spec => []CapturedWhole
<1>1. IInv => CapturedWhole
  BY DEF IInv
<1> QED
  BY <1>1, CommandsInvariant, PTL

\* Outside of every call each builtin has its own documentation again, though current_builtin
\* changes inside of `run` (SubcommandGuard).
THEOREM CommandsDocs == Spec => []DocsRestored
<1>1. IInv => DocsRestored
  BY DEF IInv, Documented, DocsRestored
<1> QED
  BY <1>1, CommandsInvariant, PTL

\* Outside of every `sig run` the masks, and outside of every `run` the ERR trap, are those the
\* script asked for, whether the calls ended, a `return` left them or an `exit` was caught above
\* them; and -e is obeyed outside of `run` and only there while no guard was skipped (the unwind
\* frames of l_bash_api.c).
THEOREM CommandsBash == Spec => []BashRestored
<1>1. IInv => BashRestored
  BY DEF IInv, Masked, Trapped, Immediate, BashRestored
<1> QED
  BY <1>1, CommandsInvariant, PTL

\* `sig run` executes its command only if none of the listed signals waited when it began, and
\* the children of the command never have a listed signal blocked (l_run_with_unblocked).
THEOREM CommandsSigRun == Spec => []SigRunUnblocks
<1>1. IInv => SigRunUnblocks
  BY DEF IInv, KidsMasked, Early, SigRunUnblocks
<1> QED
  BY <1>1, CommandsInvariant, PTL
================================================================================
