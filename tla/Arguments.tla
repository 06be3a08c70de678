------------------------------ MODULE Arguments ------------------------------
(***************************************************************************)
(* How the words of a call become a handler and its arguments              *)
(* (l_builtin/src/cmdargs.rs, subcmd.rs, cmdargs-derive/src/lib.rs): the   *)
(* outer parse takes the name of the subcommand and the words after it,    *)
(* IntLookup finds the handler, and the handler parses those words by what *)
(* its argument structure declares.  Both parses drive internal_getopt of  *)
(* bash, which remembers where it is between its calls.  A word is a       *)
(* sequence of bytes.                                                      *)
(***************************************************************************)
EXTENDS IntLookup, FiniteSets

CONSTANTS Dash, LetterH,
          Digits,  \* the bytes numbers are made of
          Alphas,  \* the bytes a variable's name may begin with
          Handler, \* what each entry of a table declares: a sequence of Declarations
          Calls    \* the words that scripts call with

\* What a field takes: any word, a number without a sign (a duration, an unsigned integer), an
\* integer, or the name of a variable.
Takes == {"word", "number", "integer", "name"}

\* Letters of flags and of options with a value, what each option takes, what the required and
\* the optional positionals take, what each word of a `rest` field takes (a Vec<T> converts its
\* words, a view is of any), if there is one, and the options that a `post` hook wants to
\* exclude each other.
Declarations ==
  [flags : SUBSET Byte, opts : SUBSET Byte, value : [Byte -> Takes],
   need : Seq(Takes), may : Seq(Takes), rest : Takes \cup {"none"}, apart : SUBSET Byte]

ASSUME ArgumentsAssumption ==
  /\ {Dash, LetterH} \subseteq Byte /\ Digits \subseteq Byte \ {Dash, LetterH}
  /\ Alphas \subseteq Byte \ (Digits \cup {Dash})
  /\ \A k \in DOMAIN Handler : /\ Handler[k] \in Declarations
                                /\ LetterH \notin Handler[k].flags \cup Handler[k].opts
                                /\ Handler[k].flags \cap Handler[k].opts = {}
  /\ Calls \subseteq Seq(Seq(Byte))
  /\ \A t \in Tables : DOMAIN t \subseteq DOMAIN Handler \* every name has a handler

VARIABLES
  step,    \* "idle", "options", "operands", "post", "lookup", "done"
  declared,\* what the running parse reads: SubCommandCallerArgs, or a handler's structure
  words,   \* the list it reads
  getopt,  \* the statics of internal_getopt: the word and the byte it is at, and loptend
  given,   \* the options and flags applied so far: a set of letters
  values,  \* the value each option was given last
  operands,\* the positionals bound
  rest,    \* what a rest field received
  outcome  \* what the last parse came to

vars == <<lookupVars, step, declared, words, getopt, given, values, operands, rest, outcome>>
fields == <<given, values, operands, rest>>
call == <<declared, words>>

NoWord == <<>>
Outer == [flags |-> {}, opts |-> {}, value |-> [b \in Byte |-> "word"],
          need |-> <<"word">>, may |-> <<>>, rest |-> "word", apart |-> {}]
StartOfList == [cur |-> 1, sp |-> 2, end |-> 0]

Init ==
  /\ TableInit
  /\ step = "idle" /\ declared = Outer /\ words = <<>> /\ getopt = StartOfList
  /\ given = {} /\ values = [b \in Byte |-> NoWord] /\ operands = <<>> /\ rest = <<>>
  /\ outcome = "none"

-----------------------------------------------------------------------------
(* One parse. *)

\* Mutant of ResetGetopt: where the last parse stopped is kept; the new list may be at the
\* address of the old one, which internal_getopt takes for the same list.
ResetGetoptNot == \/ getopt' = StartOfList
                  \/ getopt.end = 0 /\ UNCHANGED getopt

\* reset_internal_getopt.
ResetGetopt == getopt' = StartOfList

\* parse begins: new_default and the reset.
Parse(d, ws) ==
  /\ declared' = d /\ words' = ws
  /\ ResetGetopt
  /\ given' = {} /\ values' = [b \in Byte |-> NoWord] /\ operands' = <<>> /\ rest' = <<>>
  /\ outcome' = "none"
  /\ step' = "options"

Ends(result) ==
  /\ step' = "done" /\ outcome' = result
  /\ UNCHANGED <<lookupVars, call>>

IsOption(w) == Len(w) > 1 /\ w[1] = Dash
TwoDashes == <<Dash, Dash>>
Help == <<Dash, Dash, LetterH>> \* --help

Here == words[getopt.cur]
Between == getopt.sp = 2 \* internal_getopt is not inside a word
AtOption == getopt.cur <= Len(words) /\ IsOption(Here)
           /\ (Between => Here \notin {TwoDashes, Help})
Letter == Here[getopt.sp]
Letters == declared.flags \cup declared.opts

\* The first word that is no option ends the options, and so does --.
OptionsEnd ==
  /\ step = "options" /\ Between
  /\ \/ (getopt.cur <= Len(words) => ~IsOption(Here)) /\ getopt' = [getopt EXCEPT !.end = getopt.cur]
     \/ getopt.cur <= Len(words) /\ Here = TwoDashes /\ getopt' = [getopt EXCEPT !.end = getopt.cur + 1]
  /\ step' = "operands"
  /\ UNCHANGED <<lookupVars, call, fields, outcome>>

\* After a letter: the next byte of the word, or the next word.
Onward == IF getopt.sp < Len(Here) THEN [getopt EXCEPT !.sp = @ + 1]
          ELSE [getopt EXCEPT !.cur = @ + 1, !.sp = 2]

\* -h, which every optstring ends with, or --help: the parse fails with status 0.
HelpAsked ==
  /\ step = "options"
  /\ \/ /\ Between /\ getopt.cur <= Len(words) /\ Here = Help
        /\ getopt' = [getopt EXCEPT !.end = getopt.cur]
     \/ AtOption /\ Letter = LetterH /\ getopt' = Onward
  /\ Ends("help") /\ UNCHANGED fields

UnknownOption ==
  /\ step = "options" /\ AtOption /\ Letter \notin Letters \cup {LetterH}
  /\ getopt' = Onward
  /\ Ends("usage") /\ UNCHANGED fields

Flag ==
  /\ step = "options" /\ AtOption /\ Letter \in declared.flags
  /\ given' = given \cup {Letter}
  /\ getopt' = Onward
  /\ UNCHANGED <<lookupVars, call, step, values, operands, rest, outcome>>

\* The value of an option is the rest of its word, or else the next word, whatever that is.
Attached == getopt.sp < Len(Here)
HasValue == Attached \/ getopt.cur < Len(words)
Value == IF Attached THEN SubSeq(Here, getopt.sp + 1, Len(Here)) ELSE words[getopt.cur + 1]
PastValue == [getopt EXCEPT !.cur = @ + (IF Attached THEN 1 ELSE 2), !.sp = 2]

\* FromCpnt of a word; how wide an integer is and which variables are readonly are left out.
Numeral(w) == w # <<>> /\ \A k \in DOMAIN w : w[k] \in Digits
Converts(kind, w) ==
  /\ kind = "number" => Numeral(w)
  /\ kind = "integer" => Numeral(w) \/ (w # <<>> /\ w[1] = Dash /\ Numeral(Tail(w)))
  /\ kind = "name" => w # <<>> /\ w[1] \in Alphas /\ \A k \in DOMAIN w : w[k] \in Alphas \cup Digits

AtValue == step = "options" /\ AtOption /\ Letter \in declared.opts

MissingValue ==
  /\ AtValue /\ ~HasValue
  /\ Ends("usage") /\ UNCHANGED <<getopt, fields>>

Option ==
  /\ AtValue /\ HasValue /\ Converts(declared.value[Letter], Value)
  /\ given' = given \cup {Letter}
  /\ values' = [values EXCEPT ![Letter] = Value]
  /\ getopt' = PastValue
  /\ UNCHANGED <<lookupVars, call, step, operands, rest, outcome>>

BadValue ==
  /\ AtValue /\ HasValue /\ ~Converts(declared.value[Letter], Value)
  /\ getopt' = PastValue
  /\ Ends("usage") /\ UNCHANGED fields

Least(m, n) == IF m < n THEN m ELSE n

Positionals(d) == d.need \o d.may

\* fill_positionals: the required ones, the optional ones as far as there are words, the rest
\* field all that is left, each word converted; without one, words left over are too many.
Left == SubSeq(words, getopt.end, Len(words))
Bound == Least(Len(Left), Len(Positionals(declared)))
Fillable ==
  /\ Len(Left) >= Len(declared.need)
  /\ \A k \in 1..Bound : Converts(Positionals(declared)[k], Left[k])
  /\ \A k \in (Bound + 1)..Len(Left) : declared.rest # "none" /\ Converts(declared.rest, Left[k])

FillPositionals ==
  /\ step = "operands" /\ Fillable
  /\ operands' = SubSeq(Left, 1, Bound)
  /\ rest' = SubSeq(Left, Bound + 1, Len(Left))
  /\ step' = "post"
  /\ UNCHANGED <<lookupVars, call, getopt, given, values, outcome>>

FillFails ==
  /\ step = "operands" /\ ~Fillable
  /\ Ends("usage") /\ UNCHANGED <<getopt, fields>>

-----------------------------------------------------------------------------
(* The call. *)

\* A script calls; the table is a constant, complete before.
Call(ws) ==
  /\ step = "idle" /\ phase = "ready"
  /\ Parse(Outer, ws)
  /\ UNCHANGED lookupVars

\* No name was looked up in this call yet: the parse is that of SubCommandCallerArgs.
IsOuter == word = <<>>

\* The outer parse is done: handler() looks the name up.  The `post` that parse calls is the
\* trait's own, which does nothing: the hooks of the structures are inherent methods, which a
\* default method of the trait does not see.
Post ==
  /\ step = "post" /\ IsOuter
  /\ Lookup(operands[1])
  /\ step' = "lookup"
  /\ UNCHANGED <<call, getopt, fields, outcome>>

\* The inner parse is done: the handler goes on with its arguments.
PostInner ==
  /\ step = "post" /\ ~IsOuter
  /\ step' = "done" /\ outcome' = "ok"
  /\ UNCHANGED <<lookupVars, call, getopt, fields>>

\* "unknown subcommand", or the handler is called with the rest.
Unknown ==
  /\ step = "lookup" /\ phase = "ready" /\ found = None
  /\ Ends("unknown") /\ UNCHANGED <<getopt, fields>>

Dispatch ==
  /\ step = "lookup" /\ phase = "ready" /\ found # None
  /\ Parse(Handler[found], rest)
  /\ UNCHANGED lookupVars

\* The call returns; what internal_getopt remembers stays.
Return ==
  /\ step = "done"
  /\ step' = "idle" /\ outcome' = "none"
  /\ declared' = Outer /\ words' = <<>>
  /\ given' = {} /\ values' = [b \in Byte |-> NoWord] /\ operands' = <<>> /\ rest' = <<>>
  /\ Forget
  /\ UNCHANGED getopt

BuildTable == Build /\ UNCHANGED <<step, call, getopt, fields, outcome>>
SearchTable == Search /\ UNCHANGED <<step, call, getopt, fields, outcome>>

Progress ==
  \/ BuildTable \/ SearchTable
  \/ OptionsEnd \/ HelpAsked \/ UnknownOption \/ Flag \/ MissingValue \/ Option \/ BadValue
  \/ FillPositionals \/ FillFails
  \/ Post \/ PostInner \/ Unknown \/ Dispatch \/ Return

Next == Progress \/ \E ws \in Calls : Call(ws)

Spec == Init /\ [][Next]_vars

-----------------------------------------------------------------------------
(* Properties. *)

\* The last letter of a word of options takes the next word as its value.
Wants(d, w) == w[Len(w)] \in d.opts /\ \A l \in 2..(Len(w) - 1) : w[l] \notin d.opts

\* The part each word has in a list, by the part of the word before it.
Roles(d, ws) ==
  LET role[k \in 0..Len(ws)] ==
        IF k = 0 THEN "value"
        ELSE IF role[k - 1] \in {"dashes", "operand"} THEN "operand"
        ELSE IF role[k - 1] = "wants" THEN "value"
        ELSE IF ~IsOption(ws[k]) THEN "operand"
        ELSE IF ws[k] = TwoDashes THEN "dashes"
        ELSE IF Wants(d, ws[k]) THEN "wants" ELSE "letters"
  IN role

\* Where the letters of a list are, each as a word and a place in it: those of a word up to the
\* first that takes a value.
Used(d, ws) ==
  {u \in UNION {{k} \X (2..Len(ws[k])) : k \in DOMAIN ws} :
     /\ Roles(d, ws)[u[1]] \in {"wants", "letters"}
     /\ \A l \in 2..(u[2] - 1) : ws[u[1]][l] \notin d.opts}

LetterAt(ws, u) == ws[u[1]][u[2]]

\* The value of an option is the rest of its word, or else the next word.
ValueAt(d, ws, u) ==
  IF LetterAt(ws, u) \notin d.opts THEN NoWord
  ELSE IF u[2] < Len(ws[u[1]]) THEN SubSeq(ws[u[1]], u[2] + 1, Len(ws[u[1]]))
  ELSE IF u[1] < Len(ws) THEN ws[u[1] + 1] ELSE NoWord

Operands(d, ws) ==
  SubSeq(ws, 1 + Cardinality({k \in DOMAIN ws : Roles(d, ws)[k] # "operand"}), Len(ws))

AsksHelp(d, ws) == \/ \E u \in Used(d, ws) : LetterAt(ws, u) = LetterH
                   \/ \E k \in DOMAIN ws : ws[k] = Help /\ Roles(d, ws)[k] = "letters"

\* What the k-th word after the options is for: a positional, or the rest field.
Suits(d, k, w) == IF k <= Len(Positionals(d)) THEN Converts(Positionals(d)[k], w)
                  ELSE d.rest # "none" /\ Converts(d.rest, w)

\* What the structure declares is what the words say.
Fits(d, ws) ==
  LET said == Operands(d, ws) IN
    /\ \A u \in Used(d, ws) : /\ LetterAt(ws, u) \in d.flags \cup d.opts
                              /\ LetterAt(ws, u) \in d.opts => Converts(d.value[LetterAt(ws, u)], ValueAt(d, ws, u))
    /\ Roles(d, ws)[Len(ws)] # "wants"
    /\ Len(said) >= Len(d.need)
    /\ \A k \in DOMAIN said : Suits(d, k, said[k])

\* A parse succeeds when the words fit what is declared, and then every flag, the last value of
\* every option, every positional and the rest are what the words say, in whatever way the
\* letters are bundled and the values attached, and whatever the parse before it left behind;
\* it fails with a usage error only when they do not fit, a word of the rest that is not what a
\* Vec holds included (CmdArgs::parse and what is derived).
ReadAsDeclared ==
  LET ended == step \in {"post", "lookup"} \/ outcome \in {"ok", "unknown"}
      used == Used(declared, words)
  IN /\ ended =>
          /\ Fits(declared, words) /\ ~AsksHelp(declared, words)
          /\ given = {LetterAt(words, u) : u \in used}
          /\ \A u \in used :
               (\A t \in used : LetterAt(words, t) = LetterAt(words, u) => t[1] <= u[1])
               => values[LetterAt(words, u)] = ValueAt(declared, words, u)
          /\ operands \o rest = Operands(declared, words)
     /\ outcome = "usage" => ~Fits(declared, words)
     /\ outcome = "help" => AsksHelp(declared, words)

\* cmdargs.rs:295-297, "Cross-field validation hook, run once after every option and positional
\* has been bound": a parse that succeeds has not more than one of options that its post hook
\* holds to exclude each other.
DocExclusive == outcome = "ok" => Cardinality(given \cap declared.apart) <= 1
=============================================================================
