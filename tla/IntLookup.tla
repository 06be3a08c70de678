------------------------------ MODULE IntLookup ------------------------------
(***************************************************************************)
(* The tables of subcommand names (llib/src/intlookup.rs).  A name is      *)
(* packed into one integer, first byte highest; the table is sorted by     *)
(* insertion when it is compiled and searched by halving when the builtin  *)
(* is called, for the name or for a unique prefix of one.                  *)
(***************************************************************************)
EXTENDS Integers, Sequences

CONSTANTS Base,  \* one more than the largest byte; 0 stands for no byte
          Width, \* T_BYTES: how many bytes the integer holds
          Tables \* the sequences of names that tables are made of

Byte == 1..(Base - 1)
None == 0

ASSUME IntLookupAssumption ==
  /\ Base \in Nat \ {0, 1} /\ Width \in Nat \ {0}
  /\ \A t \in Tables : t \in Seq(Seq(Byte)) /\ t # <<>>
                       /\ \A i \in DOMAIN t : Len(t[i]) \in 1..Width

VARIABLES
  names,     \* the names in the order of the source; a value is a position in it
  tab,       \* the table: keys and values
  phase,        \* "sort", "shift", "ready", "search", or "panic"
  nth, hole,      \* the loops of sort
  moving,    \* the entry that sort inserts
  word,      \* the word lookup was called with
  low, high, \* what lookup has not excluded
  found      \* what lookup returned

lookupVars == <<names, tab, phase, nth, hole, moving, word, low, high, found>>
sorting == <<nth, hole, moving>>
searching == <<word, low, high, found>>

\* pack: the value of a word whose missing bytes are 0.
Power[n \in 0..Width] == IF n = 0 THEN 1 ELSE Base * Power[n - 1]
Packed(w) ==
  LET sum[k \in 0..Len(w)] == IF k = 0 THEN 0 ELSE sum[k - 1] + w[k] * Power[Width - k]
  IN sum[Len(w)]

\* key & mask, for the mask that keeps the first n bytes.
Mask(x, n) == x \div Power[Width - n]

N == Len(tab)

TableInit ==
  /\ names \in Tables
  /\ tab = [k \in DOMAIN names |-> [key |-> Packed(names[k]), val |-> k]]
  /\ phase = "sort" /\ nth = 1 /\ hole = 1 /\ moving = tab[1]
  /\ word = <<>> /\ low = 1 /\ high = 1 /\ found = None

-----------------------------------------------------------------------------
(* The table is built. *)

SortNext ==
  /\ phase = "sort"
  /\ IF nth <= N THEN phase' = "shift" /\ hole' = nth /\ moving' = tab[nth]
               ELSE phase' = "ready" /\ UNCHANGED <<hole, moving>>
  /\ UNCHANGED <<names, tab, nth, searching>>

\* The entry before is larger: it moves up.
Shift ==
  /\ phase = "shift" /\ hole > 1 /\ moving.key < tab[hole - 1].key
  /\ tab' = [tab EXCEPT ![hole] = tab[hole - 1]]
  /\ hole' = hole - 1
  /\ UNCHANGED <<names, phase, nth, moving, searching>>

\* "Duplicate key detected": the table does not compile.
Duplicate ==
  /\ phase = "shift" /\ hole > 1 /\ moving.key = tab[hole - 1].key
  /\ phase' = "panic"
  /\ UNCHANGED <<names, tab, sorting, searching>>

Place ==
  /\ phase = "shift" /\ (hole > 1 => moving.key > tab[hole - 1].key)
  /\ tab' = [tab EXCEPT ![hole] = moving]
  /\ phase' = "sort" /\ nth' = nth + 1
  /\ UNCHANGED <<names, hole, moving, searching>>

-----------------------------------------------------------------------------
(* lookup. *)

\* A word longer than the integer is no name; an empty one fails an assertion in pack.
Lookup(w) ==
  /\ phase = "ready"
  /\ word' = w /\ found' = None
  /\ low' = 1 /\ high' = N + 1
  /\ phase' = IF w = <<>> THEN "panic" ELSE IF Len(w) > Width THEN "ready" ELSE "search"
  /\ UNCHANGED <<names, tab, sorting>>

Middle == low + ((high - low) \div 2)
MaskedKey(k) == Mask(tab[k].key, Len(word))
Sought == Mask(Packed(word), Len(word))

Halve ==
  /\ phase = "search" /\ low < high
  /\ IF MaskedKey(Middle) < Sought THEN low' = Middle + 1 /\ UNCHANGED high
                                ELSE high' = Middle /\ UNCHANGED low
  /\ UNCHANGED <<names, tab, phase, sorting, word, found>>

\* Mutant of Ambiguous: the first match is taken.
AmbiguousNever == FALSE

\* An ambiguous prefix: the entry after the first match matches as well.
Ambiguous == low + 1 <= N /\ MaskedKey(low + 1) = Sought

\* The first entry that is not below the word is the word, or has it as its prefix and
\* the next one has not, or nothing is found.
Decide ==
  /\ phase = "search" /\ low >= high
  /\ found' = IF low > N \/ MaskedKey(low) # Sought THEN None
              ELSE IF tab[low].key = Packed(word) THEN tab[low].val
              ELSE IF Ambiguous THEN None
              ELSE tab[low].val
  /\ phase' = "ready"
  /\ UNCHANGED <<names, tab, sorting, word, low, high>>

\* lookup has returned: what it worked on is gone.
Forget ==
  /\ word' = <<>> /\ low' = 1 /\ high' = 1 /\ found' = None
  /\ UNCHANGED <<names, tab, phase, sorting>>

Build == SortNext \/ Shift \/ Duplicate \/ Place
Search == Halve \/ Decide

TableNext == Build \/ Search \/ (\E w \in Seq(Byte) : Lookup(w)) \/ (phase = "ready" /\ Forget)
TableSpec == TableInit /\ [][TableNext]_lookupVars

-----------------------------------------------------------------------------
(* Properties. *)

Entries == [key : Nat, val : Nat]
TableTypeOK ==
  /\ names \in Tables
  /\ tab \in Seq(Entries) /\ Len(tab) = Len(names)
  /\ phase \in {"sort", "shift", "ready", "search", "panic"}
  /\ nth \in 1..(N + 1) /\ hole \in 1..N /\ moving \in Entries
  /\ word \in Seq(Byte) /\ low \in 1..(N + 1) /\ high \in 1..(N + 1)
  /\ found \in Nat

Begins(w, n) == Len(w) <= Len(n) /\ SubSeq(n, 1, Len(w)) = w

\* What the names say a word stands for: the name itself, or the one name it begins.
Meaning(w) ==
  LET begun == {k \in DOMAIN names : Begins(w, names[k])}
      same == {k \in DOMAIN names : names[k] = w}
  IN IF same # {} THEN CHOOSE k \in same : TRUE
     ELSE IF begun # {} /\ \A k, l \in begun : k = l THEN CHOOSE k \in begun : TRUE
     ELSE None

\* lookup finds the name, or the only name the word begins, and nothing else, for words of
\* every length and names that are prefixes of each other; a name given twice makes no table.
FoundAsNamed ==
  /\ phase = "ready" /\ word # <<>> => found = Meaning(word)
  /\ phase \in {"ready", "search"} => \A k, l \in DOMAIN names : names[k] = names[l] => k = l
=============================================================================
