---------------------------- MODULE Arguments_proofs ----------------------------
(***************************************************************************)
(* Proofs about IntLookup, which finds the handler of a call: a word finds *)
(* what it names, for any table and any word.  And about Arguments, which  *)
(* parses the words of a call around it: what a parse gives a handler is   *)
(* what the words say by what the handler declares, for any declarations,  *)
(* any words and any number of calls.                                      *)
(***************************************************************************)
EXTENDS Arguments, SequenceTheorems, FiniteSetTheorems, WellFoundedInduction, TLAPS

\* A set of numbers that is not empty has a least one.
LEMMA LeastNumber ==
  ASSUME NEW S \in SUBSET Nat, S # {}
  PROVE  \E i \in S : \A j \in S : i <= j
<1> DEFINE F == {0..i : i \in S}
           R == StrictSubsetOrdering(Nat)
<1>1. PICK t \in F : \A u \in F : <<u, t>> \notin R
  <2>1. F \subseteq FiniteSubsetsOf(Nat)
    <3> SUFFICES ASSUME NEW i \in S PROVE 0..i \in FiniteSubsetsOf(Nat)
      OBVIOUS
    <3>1. IsFiniteSet(0..i)
      BY FS_Interval
    <3> QED
      BY <3>1 DEF FiniteSubsetsOf
  <2>2. F # {}
    OBVIOUS
  <2>3. IsWellFoundedOn(R, FiniteSubsetsOf(Nat))
    BY FS_StrictSubsetOrderingWellFounded
  <2> HIDE DEF F, R
  <2> QED
    BY <2>1, <2>2, <2>3, WFMin
<1>2. PICK i \in S : t = 0..i
  BY <1>1
<1>3. ASSUME NEW j \in S, j < i PROVE FALSE
  <2>1. 0..j \subseteq 0..i /\ 0..j # 0..i
    <3>1. i \in 0..i /\ i \notin 0..j
      BY <1>3
    <3> QED
      BY <1>3, <3>1
  <2>2. <<0..j, 0..i>> \in (SUBSET Nat) \X (SUBSET Nat)
    OBVIOUS
  <2>3. <<0..j, 0..i>> \in R
    BY <2>1, <2>2 DEF StrictSubsetOrdering
  <2> QED
    BY <1>1, <1>2, <2>3
<1> QED
  BY <1>3

-----------------------------------------------------------------------------
(* IntLookup: induction and recursion up to a number. *)

LEMMA UpTo ==
  ASSUME NEW n \in Nat, NEW S, 0 \in S, \A k \in 0..n : k \in S /\ k < n => k + 1 \in S
  PROVE  \A k \in 0..n : k \in S
<1> DEFINE out == {k \in 0..n : k \notin S}
<1> SUFFICES ASSUME out # {} PROVE FALSE
  OBVIOUS
<1>1. out \in SUBSET Nat
  OBVIOUS
<1>2. PICK i \in out : \A j \in out : i <= j
  <2> HIDE DEF out
  <2> QED
    BY <1>1, LeastNumber
<1>3. i \in 1..n /\ i \notin S
  OBVIOUS
<1>4. i - 1 \in 0..n /\ i - 1 < n /\ ~(i <= i - 1) /\ (i - 1) + 1 = i
  BY <1>3
<1>5. i - 1 \in S
  BY <1>2, <1>4
<1> QED
  BY <1>3, <1>4, <1>5

Steps(G, n, S) == G \in [0..n -> [S -> S]]
Iterates(f, G, n, S, s) ==
  f \in [0..n -> S] /\ f[0] = s /\ \A k \in 1..n : f[k] = G[k][f[k - 1]]

\* A function defined by recursion over numbers exists.
LEMMA Recursion ==
  ASSUME NEW n \in Nat, NEW S, NEW s \in S, NEW G, Steps(G, n, S)
  PROVE  \E f : Iterates(f, G, n, S, s)
<1> DEFINE Upto(m, f) == /\ f \in [0..m -> S] /\ f[0] = s
                         /\ \A k \in 1..m : f[k] = G[k][f[k - 1]]
           M == {m \in 0..n : \E f : Upto(m, f)}
<1>0. G \in [0..n -> [S -> S]]
  BY DEF Steps
<1>1. 0 \in M
  <2>1. Upto(0, [k \in 0..0 |-> s])
    OBVIOUS
  <2>2. 0 \in 0..n
    OBVIOUS
  <2> QED
    BY <2>1, <2>2
<1>2. ASSUME NEW m \in 0..n, m \in M, m < n PROVE m + 1 \in M
  <2>1. PICK f : Upto(m, f)
    BY <1>2
  <2> DEFINE g == [k \in 0..(m + 1) |-> IF k = m + 1 THEN G[m + 1][f[m]] ELSE f[k]]
  <2>2. m + 1 \in 0..n /\ m \in 0..m /\ f[m] \in S
    BY <1>2, <2>1
  <2>3. G[m + 1][f[m]] \in S
    BY <1>0, <2>2
  <2>4. g \in [0..(m + 1) -> S]
    BY <2>1, <2>3
  <2>5. g[0] = s
    BY <2>1
  <2>6. ASSUME NEW k \in 1..(m + 1) PROVE g[k] = G[k][g[k - 1]]
    <3>1. CASE k = m + 1
      <4>1. k - 1 = m /\ m # m + 1 /\ k \in 0..(m + 1) /\ m \in 0..(m + 1)
        BY <3>1
      <4> QED
        BY <3>1, <4>1
    <3>2. CASE k # m + 1
      <4>1. k \in 1..m /\ k - 1 \in 0..(m + 1) /\ k - 1 # m + 1 /\ k \in 0..(m + 1)
        BY <3>2
      <4> QED
        BY <2>1, <3>2, <4>1
    <3> QED
      BY <3>1, <3>2
  <2> QED
    BY <2>2, <2>4, <2>5, <2>6
<1>3. n \in M
  <2> HIDE DEF M
  <2>1. n \in 0..n
    OBVIOUS
  <2> QED
    BY <1>1, <1>2, <2>1, UpTo
<1>4. PICK f : Upto(n, f)
  BY <1>3
<1> QED
  BY <1>4 DEF Iterates

-----------------------------------------------------------------------------
(* IntLookup: arithmetic. *)

LEMMA Products ==
  /\ \A a, b \in Nat : a * b \in Nat
  /\ \A a, b \in Nat \ {0} : a * b \in Nat \ {0}
  OBVIOUS

\* What is left of a division is less than the divisor, in one way only.
LEMMA DivisionUnique ==
  ASSUME NEW d \in Nat \ {0}, NEW a \in Nat, NEW b \in Nat, NEW r \in Nat, NEW q \in Nat,
         r < d, q < d, a * d + r = b * d + q
  PROVE  a = b /\ r = q
<1>1. ASSUME NEW x \in Nat, NEW y \in Nat, x < y, NEW u \in Nat, NEW v \in Nat, u < d
      PROVE  x * d + u # y * d + v
  <2>1. PICK m \in Nat : y = x + 1 + m
    <3>1. y - x - 1 \in Nat /\ y = x + 1 + (y - x - 1)
      BY <1>1
    <3> QED
      BY <3>1
  <2>2. y * d = x * d + d + m * d
    BY <2>1
  <2>3. x * d \in Nat /\ m * d \in Nat
    BY Products
  <2> QED
    BY <1>1, <2>2, <2>3
<1>2. ~(a < b)
  BY <1>1
<1>3. ~(b < a)
  BY <1>1
<1>4. a = b
  BY <1>2, <1>3
<1>5. a * d \in Nat
  BY Products
<1> QED
  BY <1>4, <1>5

LEMMA Division ==
  ASSUME NEW d \in Nat \ {0}, NEW x \in Nat
  PROVE  \E r \in Nat : x \div d \in Nat /\ x = (x \div d) * d + r /\ r < d
  OBVIOUS

LEMMA Divided ==
  ASSUME NEW d \in Nat \ {0}, NEW a \in Nat, NEW r \in Nat, r < d
  PROVE  (a * d + r) \div d = a
<1>1. a * d + r \in Nat
  BY Products
<1>2. PICK q \in Nat : /\ (a * d + r) \div d \in Nat
                       /\ a * d + r = ((a * d + r) \div d) * d + q /\ q < d
  BY <1>1, Division
<1> QED
  BY <1>2, DivisionUnique

LEMMA Monotone ==
  ASSUME NEW d \in Nat \ {0}, NEW x \in Nat, NEW y \in Nat, x <= y
  PROVE  x \div d <= y \div d
<1>1. PICK r \in Nat : x \div d \in Nat /\ x = (x \div d) * d + r /\ r < d
  BY Division
<1>2. PICK q \in Nat : y \div d \in Nat /\ y = (y \div d) * d + q /\ q < d
  BY Division
<1> DEFINE a == x \div d
           b == y \div d
<1> HIDE DEF a, b
<1>3. a \in Nat /\ b \in Nat /\ a * d + r <= b * d + q
  BY <1>1, <1>2 DEF a, b
<1>4. ASSUME b < a PROVE FALSE
  <2>1. PICK m \in Nat : a = b + 1 + m
    <3>1. a - b - 1 \in Nat /\ a = b + 1 + (a - b - 1)
      BY <1>3, <1>4
    <3> QED
      BY <3>1
  <2>2. a * d = b * d + d + m * d /\ b * d \in Nat /\ m * d \in Nat
    BY <1>3, <2>1, Products
  <2>3. a * d \in Nat
    BY <1>3, Products
  <2> QED
    BY <1>2, <1>3, <2>2, <2>3
<1>5. a <= b
  BY <1>3, <1>4
<1> QED
  BY <1>5 DEF a, b

-----------------------------------------------------------------------------
(* IntLookup: names as numbers. *)

LEMMA PowerType ==
  /\ Power \in [0..Width -> Nat \ {0}] /\ Power[0] = 1
  /\ \A n \in 1..Width : Power[n] = Power[n - 1] * Base
<1>0. Base \in Nat \ {0} /\ Width \in Nat
  BY IntLookupAssumption
<1> DEFINE G == [k \in 0..Width |-> [x \in Nat \ {0} |-> Base * x]]
<1>1. G \in [0..Width -> [Nat \ {0} -> Nat \ {0}]]
  BY <1>0, Products
<1>2. PICK f \in [0..Width -> Nat \ {0}] : f[0] = 1 /\ \A k \in 1..Width : f[k] = G[k][f[k - 1]]
  <2>1. 1 \in Nat \ {0}
    OBVIOUS
  <2> HIDE DEF G
  <2>2. \E f : Iterates(f, G, Width, Nat \ {0}, 1)
    BY <1>0, <1>1, <2>1, Recursion DEF Steps
  <2> QED
    BY <2>2 DEF Iterates
<1>3. \A k \in 0..Width : k # 0 => k - 1 \in 0..Width
  BY <1>0
<1>4. f = [k \in 0..Width |-> IF k = 0 THEN 1 ELSE Base * f[k - 1]]
  <2>1. ASSUME NEW k \in 1..Width PROVE f[k] = Base * f[k - 1]
    <3>1. k \in 0..Width /\ f[k - 1] \in Nat \ {0}
      BY <1>0, <1>3
    <3> QED
      BY <1>2, <3>1
  <2>2. \A k \in 0..Width : k = 0 \/ k \in 1..Width
    BY <1>0
  <2> HIDE DEF G
  <2>3. \A k \in 0..Width : f[k] = IF k = 0 THEN 1 ELSE Base * f[k - 1]
    BY <1>2, <2>1, <2>2
  <2> QED
    BY <2>3
<1>5. Power = [k \in 0..Width |-> IF k = 0 THEN 1 ELSE Base * Power[k - 1]]
  BY <1>4 DEF Power
<1> HIDE DEF G
<1> DEFINE S == {k \in 0..Width : Power[k] \in Nat \ {0}}
<1>6. \A k \in 0..Width : k \in S
  <2>1. 0 \in S
    BY <1>0, <1>5
  <2>2. ASSUME NEW k \in 0..Width, k \in S, k < Width PROVE k + 1 \in S
    <3>1. k + 1 \in 0..Width /\ k + 1 # 0 /\ (k + 1) - 1 = k
      BY <2>2, <1>0
    <3>2. Power[k + 1] = Base * Power[k]
      BY <1>5, <3>1
    <3> QED
      BY <1>0, <2>2, <3>1, <3>2, Products
  <2> HIDE DEF S
  <2> QED
    BY <1>0, <2>1, <2>2, UpTo
<1>7. \A k \in 0..Width : Power[k] \in Nat \ {0}
  BY <1>6
<1>8. Power \in [0..Width -> Nat \ {0}]
  BY <1>5, <1>7
<1>9. Power[0] = 1
  BY <1>0, <1>5
<1>10. ASSUME NEW n \in 1..Width PROVE Power[n] = Power[n - 1] * Base
  <2>1. n \in 0..Width /\ n # 0 /\ n - 1 \in 0..Width
    BY <1>0
  <2>2. Power[n] = Base * Power[n - 1]
    BY <1>5, <2>1
  <2> QED
    BY <1>0, <1>7, <2>1, <2>2
<1> QED
  BY <1>8, <1>9, <1>10

\* The k-th byte of a word, 0 after its end, and the number its first bytes are.
Digit(w, k) == IF k <= Len(w) THEN w[k] ELSE 0
Lead(w) == LET head[k \in 0..Width] == IF k = 0 THEN 0 ELSE head[k - 1] * Base + Digit(w, k) IN head

Words == {w \in Seq(Byte) : Len(w) \in 1..Width}

LEMMA DigitType == ASSUME NEW w \in Words, NEW k \in 1..Width PROVE Digit(w, k) \in 0..(Base - 1)
<1>1. Len(w) \in Nat /\ Base \in Nat /\ \A i \in 1..Len(w) : w[i] \in 1..(Base - 1)
  BY IntLookupAssumption DEF Words, Byte
<1>2. k <= Len(w) => k \in 1..Len(w)
  BY <1>1
<1> QED
  BY <1>1, <1>2, IntLookupAssumption DEF Digit

LEMMA LeadType ==
  ASSUME NEW w \in Words
  PROVE  /\ Lead(w) \in [0..Width -> Nat] /\ Lead(w)[0] = 0
         /\ \A k \in 1..Width : Lead(w)[k] = Lead(w)[k - 1] * Base + Digit(w, k)
<1>0. Base \in Nat /\ Width \in Nat
  BY IntLookupAssumption
<1> DEFINE G == [k \in 0..Width |-> [x \in Nat |-> IF k = 0 THEN x ELSE x * Base + Digit(w, k)]]
<1>1. G \in [0..Width -> [Nat -> Nat]]
  <2>1. ASSUME NEW k \in 0..Width, k # 0, NEW x \in Nat PROVE x * Base + Digit(w, k) \in Nat
    <3>1. Digit(w, k) \in Nat
      BY <1>0, <2>1, DigitType
    <3> QED
      BY <1>0, <3>1, Products
  <2> QED
    BY <2>1
<1>2. PICK f \in [0..Width -> Nat] : f[0] = 0 /\ \A k \in 1..Width : f[k] = G[k][f[k - 1]]
  <2> HIDE DEF G
  <2>1. \E f : Iterates(f, G, Width, Nat, 0)
    BY <1>0, <1>1, Recursion, 0 \in Nat DEF Steps
  <2> QED
    BY <2>1 DEF Iterates
<1>3. \A k \in 0..Width : k # 0 => k - 1 \in 0..Width
  BY <1>0
<1>4. f = [k \in 0..Width |-> IF k = 0 THEN 0 ELSE f[k - 1] * Base + Digit(w, k)]
  <2>1. ASSUME NEW k \in 1..Width PROVE f[k] = f[k - 1] * Base + Digit(w, k)
    <3>1. k \in 0..Width /\ k # 0 /\ f[k - 1] \in Nat
      BY <1>0, <1>3
    <3> QED
      BY <1>2, <3>1
  <2>2. \A k \in 0..Width : k = 0 \/ k \in 1..Width
    BY <1>0
  <2> HIDE DEF G
  <2>3. \A k \in 0..Width : f[k] = IF k = 0 THEN 0 ELSE f[k - 1] * Base + Digit(w, k)
    BY <1>2, <2>1, <2>2
  <2> QED
    BY <2>3
<1> HIDE DEF G
<1> DEFINE h == Lead(w)
<1>5. h = [k \in 0..Width |-> IF k = 0 THEN 0 ELSE h[k - 1] * Base + Digit(w, k)]
  BY <1>4 DEF Lead
<1> HIDE DEF h
<1> DEFINE S == {k \in 0..Width : h[k] \in Nat}
<1>6. \A k \in 0..Width : k \in S
  <2>1. 0 \in S
    BY <1>0, <1>5
  <2>2. ASSUME NEW k \in 0..Width, k \in S, k < Width PROVE k + 1 \in S
    <3>1. k + 1 \in 1..Width /\ k + 1 \in 0..Width /\ k + 1 # 0 /\ (k + 1) - 1 = k
      BY <2>2, <1>0
    <3>2. h[k + 1] = h[k] * Base + Digit(w, k + 1) /\ Digit(w, k + 1) \in Nat
      BY <1>0, <1>5, <3>1, DigitType
    <3>3. h[k] * Base \in Nat
      BY <1>0, <2>2, Products
    <3>4. h[k + 1] \in Nat
      BY <3>2, <3>3
    <3> QED
      BY <3>1, <3>4
  <2> HIDE DEF S
  <2> QED
    BY <1>0, <2>1, <2>2, UpTo
<1>7. h \in [0..Width -> Nat] /\ h[0] = 0
  BY <1>0, <1>5, <1>6
<1>8. \A k \in 1..Width : h[k] = h[k - 1] * Base + Digit(w, k)
  BY <1>0, <1>5
<1> QED
  BY <1>7, <1>8 DEF h

LEMMA Algebra ==
  /\ \A a, b, c, p \in Nat : a * (p * b) + c * p = (a * b + c) * p
  /\ \A b, c, p \in Nat : c < b => c * p + p <= p * b
<1>1. ASSUME NEW b \in Nat, NEW c \in Nat, NEW p \in Nat, c < b PROVE c * p + p <= p * b
  <2>1. PICK m \in Nat : b = c + 1 + m
    <3>1. b - c - 1 \in Nat /\ b = c + 1 + (b - c - 1)
      BY <1>1
    <3> QED
      BY <3>1
  <2>2. p * b = c * p + p + m * p
    BY <2>1
  <2>3. m * p \in Nat /\ c * p \in Nat
    BY Products
  <2> QED
    BY <2>2, <2>3
<1> QED
  BY <1>1

WordSteps(w) == [k \in 0..Width |-> [x \in Nat |-> IF k = 0 THEN x ELSE x + Digit(w, k) * Power[Width - k]]]

\* pack adds up one byte after the other, and nothing for the bytes that are missing.
LEMMA PackedSum ==
  ASSUME NEW w \in Words
  PROVE  \E s \in [0..Width -> Nat] :
           /\ s[0] = 0 /\ \A k \in 1..Width : s[k] = s[k - 1] + Digit(w, k) * Power[Width - k]
           /\ s[Len(w)] = Packed(w) /\ s[Width] = Packed(w)
<1>0. Base \in Nat /\ Width \in Nat /\ Len(w) \in 1..Width
  BY IntLookupAssumption DEF Words
<1>1. Steps(WordSteps(w), Width, Nat)
  <2>1. ASSUME NEW k \in 0..Width, k # 0, NEW x \in Nat PROVE x + Digit(w, k) * Power[Width - k] \in Nat
    <3>1. Digit(w, k) \in Nat /\ Width - k \in 0..Width
      BY <1>0, <2>1, DigitType
    <3>2. Digit(w, k) * Power[Width - k] \in Nat
      BY <3>1, PowerType, Products
    <3> QED
      BY <3>2
  <2> QED
    BY <2>1 DEF Steps, WordSteps
<1>2. PICK s : Iterates(s, WordSteps(w), Width, Nat, 0)
  BY <1>0, <1>1, Recursion, 0 \in Nat
<1>3. /\ s \in [0..Width -> Nat] /\ s[0] = 0
      /\ \A k \in 1..Width : s[k] = s[k - 1] + Digit(w, k) * Power[Width - k]
  <2>1. s \in [0..Width -> Nat] /\ s[0] = 0 /\ \A k \in 1..Width : s[k] = WordSteps(w)[k][s[k - 1]]
    BY <1>2 DEF Iterates
  <2>2. ASSUME NEW k \in 1..Width PROVE s[k] = s[k - 1] + Digit(w, k) * Power[Width - k]
    <3>1. k \in 0..Width /\ k # 0 /\ s[k - 1] \in Nat
      BY <1>0, <2>1
    <3> QED
      BY <2>1, <3>1 DEF WordSteps
  <2> QED
    BY <2>1, <2>2
<1> DEFINE Sums(f) == f = [k \in 0..Len(w) |-> IF k = 0 THEN 0 ELSE f[k - 1] + w[k] * Power[Width - k]]
           sum == CHOOSE f : Sums(f)
<1>4. \A k \in 0..Len(w) : /\ k \in 0..Width
                           /\ k # 0 => k \in 1..Width /\ k - 1 \in 0..Len(w) /\ Digit(w, k) = w[k]
  BY <1>0 DEF Digit
<1>5. Sums([k \in 0..Len(w) |-> s[k]])
  <2> DEFINE f == [k \in 0..Len(w) |-> s[k]]
  <2>1. \A k \in 0..Len(w) : f[k] = IF k = 0 THEN 0 ELSE f[k - 1] + w[k] * Power[Width - k]
    BY <1>3, <1>4
  <2>2. f = [k \in 0..Len(w) |-> f[k]]
    OBVIOUS
  <2> HIDE DEF f
  <2>3. Sums(f)
    BY <2>1, <2>2
  <2> QED
    BY <2>3 DEF f
<1>6. Sums(sum)
  <2> HIDE DEF Sums
  <2> QED
    BY <1>5
<1>7. Packed(w) = sum[Len(w)]
  BY DEF Packed
<1> HIDE DEF sum
<1> DEFINE S == {k \in 0..Len(w) : sum[k] = s[k]}
<1>8. \A k \in 0..Len(w) : k \in S
  <2>1. 0 \in S
    BY <1>0, <1>3, <1>6
  <2>2. ASSUME NEW k \in 0..Len(w), k \in S, k < Len(w) PROVE k + 1 \in S
    <3>1. k + 1 \in 0..Len(w) /\ k + 1 # 0 /\ (k + 1) - 1 = k
      BY <1>0, <2>2
    <3>2. sum[k + 1] = sum[k] + w[k + 1] * Power[Width - (k + 1)]
      BY <1>6, <3>1
    <3>3. s[k + 1] = s[k] + w[k + 1] * Power[Width - (k + 1)]
      BY <1>3, <1>4, <3>1
    <3> QED
      BY <2>2, <3>1, <3>2, <3>3
  <2>3. Len(w) \in Nat
    BY <1>0
  <2> HIDE DEF S
  <2> QED
    BY <2>1, <2>2, <2>3, UpTo
<1>9. s[Len(w)] = Packed(w)
  BY <1>0, <1>7, <1>8
<1> DEFINE E == {k \in 0..Width : k >= Len(w) => s[k] = s[Len(w)]}
<1>10. \A k \in 0..Width : k \in E
  <2>1. 0 \in E
    BY <1>0
  <2>2. ASSUME NEW k \in 0..Width, k \in E, k < Width PROVE k + 1 \in E
    <3>1. k + 1 \in 1..Width /\ (k + 1) - 1 = k /\ Width - (k + 1) \in 0..Width
      BY <1>0, <2>2
    <3>2. CASE k < Len(w)
      <4>1. k + 1 = Len(w) \/ k + 1 < Len(w)
        BY <1>0, <3>2
      <4> QED
        BY <1>0, <3>1, <4>1
    <3>3. CASE k >= Len(w)
      <4>1. Digit(w, k + 1) = 0
        BY <1>0, <3>3 DEF Digit
      <4>2. s[k + 1] = s[k] + 0 * Power[Width - (k + 1)]
        BY <1>3, <3>1, <4>1
      <4>3. s[k + 1] = s[k]
        BY <1>3, <3>1, <4>2, PowerType
      <4> QED
        BY <2>2, <3>1, <3>3, <4>3
    <3> QED
      BY <1>0, <3>2, <3>3
  <2> HIDE DEF E
  <2> QED
    BY <1>0, <2>1, <2>2, UpTo
<1>11. s[Width] = Packed(w)
  BY <1>0, <1>9, <1>10
<1> QED
  BY <1>3, <1>9, <1>11

\* MaskedKey, a packed word is its first bytes; what is masked out is less than one of them, and
\* nothing at all when the word is not longer.
LEMMA MaskIsLead ==
  ASSUME NEW w \in Words
  PROVE  /\ Packed(w) \in Nat
         /\ \A k \in 0..Width : Mask(Packed(w), k) = Lead(w)[k]
         /\ Packed(w) = Lead(w)[Len(w)] * Power[Width - Len(w)]
<1>0. Base \in Nat \ {0} /\ Width \in Nat /\ Len(w) \in 1..Width
  BY IntLookupAssumption DEF Words
<1>1. PICK s \in [0..Width -> Nat] :
        /\ s[0] = 0 /\ \A k \in 1..Width : s[k] = s[k - 1] + Digit(w, k) * Power[Width - k]
        /\ s[Len(w)] = Packed(w) /\ s[Width] = Packed(w)
  BY PackedSum
<1>2. ASSUME NEW k \in 1..Width
      PROVE  /\ Digit(w, k) \in Nat /\ Digit(w, k) < Base /\ Width - k \in 0..Width
             /\ Power[Width - k] \in Nat \ {0} /\ Power[Width - (k - 1)] = Power[Width - k] * Base
             /\ k \in 0..Width /\ k - 1 \in 0..Width
  <2>1. Digit(w, k) \in Nat /\ Digit(w, k) < Base
    BY <1>0, DigitType
  <2>2. Width - k \in 0..Width /\ Width - (k - 1) \in 1..Width /\ (Width - (k - 1)) - 1 = Width - k
    BY <1>0
  <2>3. Power[Width - (k - 1)] = Power[Width - k] * Base
    BY <2>2, PowerType
  <2> QED
    BY <1>0, <2>1, <2>2, <2>3, PowerType
<1> DEFINE S == {k \in 0..Width : s[k] = Lead(w)[k] * Power[Width - k]}
<1>3. \A k \in 0..Width : k \in S
  <2>1. 0 \in S
    <3>1. Power[Width - 0] \in Nat /\ Lead(w)[0] = 0
      BY <1>0, PowerType, LeadType
    <3> QED
      BY <1>0, <1>1, <3>1
  <2>2. ASSUME NEW k \in 0..Width, k \in S, k < Width PROVE k + 1 \in S
    <3>1. k + 1 \in 1..Width /\ (k + 1) - 1 = k /\ k + 1 \in 0..Width
      BY <1>0, <2>2
    <3> DEFINE p == Power[Width - (k + 1)]
               c == Digit(w, k + 1)
               a == Lead(w)[k]
    <3>2. p \in Nat /\ c \in Nat /\ a \in Nat /\ Power[Width - k] = p * Base
      BY <1>2, <3>1, LeadType
    <3>3. Lead(w)[k + 1] = a * Base + c
      BY <3>1, LeadType
    <3>4. s[k + 1] = s[k] + c * p /\ s[k] = a * Power[Width - k]
      BY <1>1, <2>2, <3>1
    <3> HIDE DEF p, c, a
    <3>5. s[k + 1] = a * (p * Base) + c * p
      BY <3>2, <3>4
    <3>6. s[k + 1] = (a * Base + c) * p
      BY <1>0, <3>2, <3>5, Algebra
    <3> QED
      BY <3>1, <3>3, <3>6 DEF p
  <2> HIDE DEF S
  <2> QED
    BY <1>0, <2>1, <2>2, UpTo
<1> DEFINE R == {m \in 0..Width : s[Width - m] <= s[Width] /\ s[Width] - s[Width - m] < Power[m]}
<1>4. \A m \in 0..Width : m \in R
  <2>1. 0 \in R
    <3>1. Width - 0 = Width /\ Width \in 0..Width /\ 0 \in 0..Width
      BY <1>0
    <3>2. s[Width] \in Nat
      BY <1>1, <3>1
    <3>3. s[Width] <= s[Width] /\ s[Width] - s[Width] = 0
      BY <3>2
    <3>4. Power[0] = 1
      BY PowerType
    <3> QED
      BY <3>1, <3>3, <3>4
  <2>2. ASSUME NEW m \in 0..Width, m \in R, m < Width PROVE m + 1 \in R
    <3> DEFINE k == Width - m
               p == Power[m]
               c == Digit(w, k)
    <3>1. k \in 1..Width /\ Width - k = m /\ k - 1 = Width - (m + 1) /\ Width - (k - 1) = m + 1
          /\ m + 1 \in 0..Width
      BY <1>0, <2>2
    <3>2. s[k] <= s[Width] /\ s[Width] - s[k] < p
      BY <2>2
    <3> HIDE DEF k
    <3>3. c \in Nat /\ c < Base /\ p \in Nat \ {0} /\ Power[m + 1] = p * Base
      BY <1>2, <3>1
    <3>4. s[k] = s[k - 1] + c * p /\ s[k] \in Nat /\ s[k - 1] \in Nat /\ s[Width] \in Nat
      BY <1>0, <1>1, <3>1
    <3> HIDE DEF p, c
    <3>5. c * p \in Nat /\ c * p + p <= p * Base
      BY <1>0, <3>3, Products, Algebra
    <3>6. p * Base \in Nat
      BY <1>0, <3>3, Products
    <3>7. s[k - 1] <= s[Width] /\ s[Width] - s[k - 1] < p * Base
      BY <3>2, <3>3, <3>4, <3>5, <3>6
    <3> QED
      BY <3>1, <3>3, <3>7
  <2> HIDE DEF R
  <2> QED
    BY <1>0, <2>1, <2>2, UpTo
<1>5. Packed(w) \in Nat
  BY <1>0, <1>1
<1>6. ASSUME NEW k \in 0..Width PROVE Mask(Packed(w), k) = Lead(w)[k]
  <2> DEFINE p == Power[Width - k]
             a == Lead(w)[k]
             r == s[Width] - s[k]
  <2>1. Width - k \in 0..Width /\ Width - (Width - k) = k
    BY <1>0
  <2>2. p \in Nat \ {0} /\ a \in Nat /\ s[k] \in Nat /\ s[Width] \in Nat
    <3>1. p \in Nat \ {0}
      BY <2>1, PowerType
    <3>2. a \in Nat
      BY LeadType
    <3>3. Width \in 0..Width
      BY <1>0
    <3> QED
      BY <1>1, <3>1, <3>2, <3>3
  <2>3. s[k] <= s[Width] /\ r < p /\ s[k] = a * p
    BY <1>3, <1>4, <2>1
  <2>4. r \in Nat /\ s[Width] = s[k] + r
    BY <2>2, <2>3
  <2>5. Packed(w) = a * p + r
    BY <1>1, <2>3, <2>4
  <2> HIDE DEF p, a, r
  <2>6. Packed(w) \div p = a
    BY <2>2, <2>3, <2>4, <2>5, Divided
  <2> QED
    BY <2>6 DEF Mask, p, a
<1>7. Len(w) \in 0..Width
  BY <1>0
<1>8. Packed(w) = Lead(w)[Len(w)] * Power[Width - Len(w)]
  BY <1>1, <1>3, <1>7
<1> QED
  BY <1>5, <1>6, <1>8

\* Two words have the same first bytes exactly when those bytes make the same number.
LEMMA SameLead ==
  ASSUME NEW v \in Words, NEW w \in Words, NEW n \in 0..Width
  PROVE  Lead(v)[n] = Lead(w)[n] <=> \A k \in 1..n : Digit(v, k) = Digit(w, k)
<1>0. Base \in Nat \ {0} /\ Width \in Nat
  BY IntLookupAssumption
<1> DEFINE S == {m \in 0..Width : Lead(v)[m] = Lead(w)[m] <=> \A k \in 1..m : Digit(v, k) = Digit(w, k)}
<1>1. 0 \in S
  BY <1>0, LeadType
<1>2. ASSUME NEW m \in 0..Width, m \in S, m < Width PROVE m + 1 \in S
  <2>1. m + 1 \in 1..Width /\ (m + 1) - 1 = m /\ m + 1 \in 0..Width
    BY <1>0, <1>2
  <2> DEFINE c == Digit(v, m + 1)
             d == Digit(w, m + 1)
             a == Lead(v)[m]
             b == Lead(w)[m]
  <2>2. c \in Nat /\ d \in Nat /\ c < Base /\ d < Base /\ a \in Nat /\ b \in Nat
    BY <1>0, <2>1, DigitType, LeadType
  <2>3. Lead(v)[m + 1] = a * Base + c /\ Lead(w)[m + 1] = b * Base + d
    BY <2>1, LeadType
  <2>4. a = b <=> \A k \in 1..m : Digit(v, k) = Digit(w, k)
    BY <1>2
  <2>5. (\A k \in 1..(m + 1) : Digit(v, k) = Digit(w, k))
          <=> c = d /\ \A k \in 1..m : Digit(v, k) = Digit(w, k)
    <3>1. \A k \in 1..(m + 1) : k = m + 1 \/ k \in 1..m
      BY <2>1
    <3>2. \A k \in 1..m : k \in 1..(m + 1)
      BY <2>1
    <3>3. m + 1 \in 1..(m + 1)
      BY <2>1
    <3> QED
      BY <3>1, <3>2, <3>3
  <2> HIDE DEF a, b, c, d
  <2>6. a * Base + c = b * Base + d <=> a = b /\ c = d
    BY <1>0, <2>2, DivisionUnique
  <2> QED
    BY <2>1, <2>3, <2>4, <2>5, <2>6
<1> HIDE DEF S
<1>3. \A m \in 0..Width : m \in S
  BY <1>0, <1>1, <1>2, UpTo
<1> QED
  BY <1>3 DEF S

\* A word is the beginning of a name when the digits agree as far as the word goes.
LEMMA PrefixDigits ==
  ASSUME NEW w \in Words, NEW n \in Words
  PROVE  Begins(w, n) <=> \A k \in 1..Len(w) : Digit(n, k) = Digit(w, k)
<1>0. /\ Len(w) \in 1..Width /\ Len(n) \in 1..Width /\ w \in Seq(Byte) /\ n \in Seq(Byte)
      /\ \A k \in 1..Len(w) : w[k] # 0 /\ Digit(w, k) = w[k]
  BY IntLookupAssumption DEF Words, Byte, Digit
<1>1. ASSUME Len(w) <= Len(n)
      PROVE  Begins(w, n) <=> \A k \in 1..Len(w) : n[k] = w[k]
  <2>1. /\ SubSeq(n, 1, Len(w)) \in Seq(Byte) /\ Len(SubSeq(n, 1, Len(w))) = Len(w)
        /\ \A k \in 1..Len(w) : SubSeq(n, 1, Len(w))[k] = n[k]
    BY <1>0, <1>1, IntLookupAssumption
  <2>2. (\A k \in 1..Len(w) : n[k] = w[k]) => SubSeq(n, 1, Len(w)) = w
    BY <1>0, <2>1, SeqEqual
  <2> QED
    BY <1>1, <2>1, <2>2 DEF Begins
<1>2. Len(w) <= Len(n) => \A k \in 1..Len(w) : Digit(n, k) = n[k]
  BY <1>0, IntLookupAssumption DEF Digit
<1>3. ~(Len(w) <= Len(n)) => Digit(n, Len(w)) = 0 /\ ~Begins(w, n)
  BY DEF Digit, Begins
<1>4. Len(w) \in 1..Len(w)
  BY <1>0, IntLookupAssumption
<1> QED
  BY <1>0, <1>1, <1>2, <1>3, <1>4

\* The comparison of lookup_shortest_unique_prefix.
LEMMA MaskMatches ==
  ASSUME NEW w \in Words, NEW n \in Words
  PROVE  Mask(Packed(n), Len(w)) = Mask(Packed(w), Len(w)) <=> Begins(w, n)
<1>1. Len(w) \in 0..Width
  BY DEF Words
<1>2. Mask(Packed(n), Len(w)) = Lead(n)[Len(w)] /\ Mask(Packed(w), Len(w)) = Lead(w)[Len(w)]
  BY <1>1, MaskIsLead
<1>3. Lead(n)[Len(w)] = Lead(w)[Len(w)] <=> \A k \in 1..Len(w) : Digit(n, k) = Digit(w, k)
  BY <1>1, SameLead
<1> QED
  BY <1>2, <1>3, PrefixDigits

\* Different words are different numbers.
LEMMA PackedDiffer ==
  ASSUME NEW w \in Words, NEW n \in Words, Packed(w) = Packed(n)
  PROVE  w = n
<1>0. Len(w) \in 1..Width /\ Len(n) \in 1..Width /\ w \in Seq(Byte) /\ n \in Seq(Byte)
  BY DEF Words
<1>1. Begins(w, n) /\ Begins(n, w)
  BY MaskMatches
<1>2. Len(w) = Len(n)
  <2>1. Len(w) <= Len(n) /\ Len(n) <= Len(w)
    BY <1>1 DEF Begins
  <2>2. Len(w) \in Nat /\ Len(n) \in Nat
    BY <1>0
  <2> QED
    BY <2>1, <2>2
<1>3. SubSeq(n, 1, Len(w)) = w /\ SubSeq(n, 1, Len(w)) = n
  <2>1. SubSeq(n, 1, Len(n)) = n
    BY <1>0
  <2> QED
    BY <1>1, <1>2, <2>1 DEF Begins
<1> QED
  BY <1>3

\* Among the names a word begins, none is a smaller number than the word.
LEMMA PackedLeast ==
  ASSUME NEW w \in Words, NEW n \in Words, Mask(Packed(n), Len(w)) = Mask(Packed(w), Len(w))
  PROVE  Packed(w) <= Packed(n)
<1>0. Len(w) \in 0..Width /\ Width - Len(w) \in 0..Width
  BY IntLookupAssumption DEF Words
<1> DEFINE p == Power[Width - Len(w)]
<1>1. p \in Nat \ {0} /\ Packed(n) \in Nat
  BY <1>0, PowerType, MaskIsLead
<1>2. Packed(w) = Mask(Packed(w), Len(w)) * p
  BY <1>0, MaskIsLead
<1>3. Mask(Packed(n), Len(w)) = Packed(n) \div p
  BY DEF Mask
<1> HIDE DEF p
<1>4. PICK r \in Nat : Packed(n) \div p \in Nat /\ Packed(n) = (Packed(n) \div p) * p + r
  BY <1>1, Division
<1>5. Packed(n) = Packed(w) + r /\ Packed(w) \in Nat
  BY <1>2, <1>3, <1>4, MaskIsLead
<1> QED
  BY <1>5

LEMMA MaskType ==
  ASSUME NEW n \in 0..Width
  PROVE  /\ \A x \in Nat : Mask(x, n) \in Nat
         /\ \A x, y \in Nat : x <= y => Mask(x, n) <= Mask(y, n)
<1>1. Width - n \in 0..Width
  BY IntLookupAssumption
<1>2. Power[Width - n] \in Nat \ {0}
  BY <1>1, PowerType
<1>3. \A x \in Nat : Mask(x, n) \in Nat
  BY <1>2, Division DEF Mask
<1>4. \A x, y \in Nat : x <= y => Mask(x, n) <= Mask(y, n)
  BY <1>2, Monotone DEF Mask
<1> QED
  BY <1>3, <1>4

-----------------------------------------------------------------------------
(* IntLookup: the table, sorted and searched. *)

\* The entry that belongs at a place, also while sort holds it.
Held(i) == IF phase = "shift" /\ i = hole THEN moving ELSE tab[i]

\* Every name has its entry, whatever sort has moved.
Complete ==
  /\ \A i \in 1..N : Held(i).val \in 1..N /\ Held(i).key = Packed(names[Held(i).val])
  /\ \A i, j \in 1..N : Held(i).val = Held(j).val => i = j
  /\ \A k \in 1..N : \E i \in 1..N : Held(i).val = k

\* The entries before nth are in order, around the hole while one is being inserted.
Ordered ==
  /\ phase = "sort" => \A i, j \in 1..N : i < j /\ j < nth => tab[i].key < tab[j].key
  /\ phase = "shift" =>
       /\ nth <= N /\ hole <= nth
       /\ \A i, j \in 1..N : i < j /\ j <= nth /\ i # hole /\ j # hole => tab[i].key < tab[j].key
       /\ \A j \in 1..N : hole < j /\ j <= nth => moving.key < tab[j].key
  /\ phase \in {"ready", "search"} => \A i, j \in 1..N : i < j => tab[i].key < tab[j].key

\* What lookup has excluded is excluded for a reason.
Bracketed ==
  phase = "search" =>
    /\ word \in Words /\ low <= high
    /\ \A k \in 1..N : k < low => MaskedKey(k) < Sought
    /\ \A k \in 1..N : k >= high => MaskedKey(k) >= Sought

Answered ==
  /\ phase \in {"sort", "shift"} => word = <<>>
  /\ phase = "ready" /\ word # <<>> => found = Meaning(word)

TableIInv ==
  /\ TableTypeOK
  /\ phase # "panic" => Complete /\ Ordered
  /\ Bracketed /\ Answered

LEMMA Given ==
  ASSUME names \in Tables
  PROVE  /\ Len(names) \in Nat \ {0} /\ DOMAIN names = 1..Len(names)
         /\ \A k \in 1..Len(names) : names[k] \in Words /\ Packed(names[k]) \in Nat
<1>1. names \in Seq(Seq(Byte)) /\ names # <<>> /\ \A i \in DOMAIN names : Len(names[i]) \in 1..Width
  BY IntLookupAssumption
<1>2. Len(names) \in Nat \ {0} /\ DOMAIN names = 1..Len(names)
  BY <1>1
<1>3. \A k \in 1..Len(names) : names[k] \in Words
  BY <1>1, <1>2 DEF Words
<1> QED
  BY <1>2, <1>3, MaskIsLead

LEMMA Typed ==
  ASSUME TableTypeOK
  PROVE  /\ N \in Nat \ {0} /\ N = Len(names) /\ names \in Tables
         /\ \A i \in 1..N : tab[i] \in Entries /\ tab[i].key \in Nat /\ tab[i].val \in Nat
         /\ moving \in Entries /\ moving.key \in Nat /\ moving.val \in Nat
<1>1. N \in Nat \ {0} /\ N = Len(names) /\ names \in Tables
  BY Given DEF TableTypeOK, N
<1>2. ASSUME NEW i \in 1..N PROVE tab[i] \in Entries
  BY <1>2 DEF TableTypeOK, N
<1>3. moving \in Entries
  BY DEF TableTypeOK
<1> QED
  BY <1>1, <1>2, <1>3 DEF Entries

\* When the table is in order, its places are those of the names, one each.
LEMMA EntryOf ==
  ASSUME TableTypeOK, Complete, Ordered, phase \in {"ready", "search"}
  PROVE  /\ \A i \in 1..N : tab[i].val \in 1..N /\ tab[i].key = Packed(names[tab[i].val])
         /\ \A i, j \in 1..N : tab[i].val = tab[j].val => i = j
         /\ \A k \in 1..N : \E i \in 1..N : tab[i].val = k
         /\ \A i, j \in 1..N : i < j => tab[i].key < tab[j].key
<1>1. \A i \in 1..N : Held(i) = tab[i]
  BY DEF Held
<1>2. \A i, j \in 1..N : i < j => tab[i].key < tab[j].key
  BY DEF Ordered
<1> QED
  BY <1>1, <1>2 DEF Complete

LEMMA Distinct ==
  ASSUME TableTypeOK, Complete, Ordered, phase \in {"ready", "search"},
         NEW k \in DOMAIN names, NEW l \in DOMAIN names, names[k] = names[l]
  PROVE  k = l
<1>1. k \in 1..N /\ l \in 1..N
  BY Given, Typed
<1>2. PICK i \in 1..N : tab[i].val = k
  BY <1>1, EntryOf
<1>3. PICK j \in 1..N : tab[j].val = l
  BY <1>1, EntryOf
<1>4. tab[i].key = tab[j].key /\ tab[i].key \in Nat
  <2>1. tab[i].key = Packed(names[k]) /\ tab[j].key = Packed(names[l])
    BY <1>2, <1>3, EntryOf
  <2> QED
    BY <2>1, Typed
<1>5. ~(i < j) /\ ~(j < i)
  BY <1>4, EntryOf
<1>6. i = j
  BY <1>5, Typed
<1> QED
  BY <1>2, <1>3, <1>6

\* What a word means, by what it begins.
LEMMA MeaningOf ==
  ASSUME NEW w
  PROVE  /\ \A k \in DOMAIN names :
              names[k] = w /\ (\A l \in DOMAIN names : names[l] = w => l = k) => Meaning(w) = k
         /\ (\A l \in DOMAIN names : names[l] # w /\ ~Begins(w, names[l])) => Meaning(w) = None
         /\ \A k \in DOMAIN names :
              /\ \A l \in DOMAIN names : names[l] # w
              /\ Begins(w, names[k])
              /\ \A l \in DOMAIN names : Begins(w, names[l]) => l = k
              => Meaning(w) = k
         /\ \A k, l \in DOMAIN names :
              /\ \A m \in DOMAIN names : names[m] # w
              /\ Begins(w, names[k]) /\ Begins(w, names[l]) /\ k # l
              => Meaning(w) = None
<1> DEFINE begun == {k \in DOMAIN names : Begins(w, names[k])}
           same == {k \in DOMAIN names : names[k] = w}
<1>0. Meaning(w) = IF same # {} THEN CHOOSE k \in same : TRUE
                   ELSE IF begun # {} /\ \A k, l \in begun : k = l THEN CHOOSE k \in begun : TRUE
                   ELSE None
  BY DEF Meaning
<1>1. \A k \in DOMAIN names : (k \in same <=> names[k] = w) /\ (k \in begun <=> Begins(w, names[k]))
  OBVIOUS
<1>2. same \subseteq DOMAIN names /\ begun \subseteq DOMAIN names
  OBVIOUS
<1> HIDE DEF begun, same
<1>3. ASSUME NEW k \in DOMAIN names, names[k] = w, \A l \in DOMAIN names : names[l] = w => l = k
      PROVE  Meaning(w) = k
  <2>1. k \in same /\ \A l \in same : l = k
    BY <1>1, <1>2, <1>3
  <2> QED
    BY <1>0, <2>1
<1>4. ASSUME \A l \in DOMAIN names : names[l] # w PROVE same = {}
  BY <1>1, <1>2, <1>4
<1>5. ASSUME \A l \in DOMAIN names : names[l] # w /\ ~Begins(w, names[l]) PROVE Meaning(w) = None
  <2>1. begun = {}
    BY <1>1, <1>2, <1>5
  <2> QED
    BY <1>0, <1>4, <1>5, <2>1
<1>6. ASSUME NEW k \in DOMAIN names, \A l \in DOMAIN names : names[l] # w, Begins(w, names[k]),
             \A l \in DOMAIN names : Begins(w, names[l]) => l = k
      PROVE  Meaning(w) = k
  <2>1. k \in begun /\ \A l \in begun : l = k
    BY <1>1, <1>2, <1>6
  <2> QED
    BY <1>0, <1>4, <1>6, <2>1
<1>7. ASSUME NEW k \in DOMAIN names, NEW l \in DOMAIN names, \A m \in DOMAIN names : names[m] # w,
             Begins(w, names[k]), Begins(w, names[l]), k # l
      PROVE  Meaning(w) = None
  <2>1. k \in begun /\ l \in begun
    BY <1>1, <1>7
  <2> QED
    BY <1>0, <1>4, <1>7, <2>1
<1> QED
  BY <1>3, <1>5, <1>6, <1>7

LEMMA Itself == ASSUME NEW w \in Seq(Byte) PROVE Begins(w, w)
<1>1. Len(w) \in Nat /\ SubSeq(w, 1, Len(w)) = w
  OBVIOUS
<1> QED
  BY <1>1 DEF Begins

\* A word that does not fit the integer begins no name.
LEMMA TooLong ==
  ASSUME names \in Tables, NEW w \in Seq(Byte), ~(Len(w) <= Width)
  PROVE  Meaning(w) = None
<1>1. Len(w) \in Nat /\ Width \in Nat
  BY IntLookupAssumption
<1>2. ASSUME NEW l \in DOMAIN names PROVE names[l] # w /\ ~Begins(w, names[l])
  <2>1. Len(names[l]) \in 1..Width
    BY Given DEF Words
  <2>2. Len(names[l]) # Len(w) /\ ~(Len(w) <= Len(names[l]))
    BY <1>1, <2>1
  <2> QED
    BY <2>2 DEF Begins
<1> QED
  BY <1>2, MeaningOf

\* What masking the keys says about the names, while a word is looked up.
LEMMA MaskedKeys ==
  ASSUME TableTypeOK, Complete, Ordered, phase = "search", word \in Words
  PROVE  /\ Sought \in Nat /\ Packed(word) \in Nat /\ Len(word) \in 0..Width
         /\ \A i \in 1..N : /\ MaskedKey(i) \in Nat
                            /\ tab[i].val \in 1..N /\ names[tab[i].val] \in Words
                            /\ MaskedKey(i) = Sought <=> Begins(word, names[tab[i].val])
                            /\ MaskedKey(i) = Sought => Packed(word) <= tab[i].key
         /\ \A i, j \in 1..N : i <= j => MaskedKey(i) <= MaskedKey(j)
<1>1. Packed(word) \in Nat /\ Len(word) \in 0..Width
  BY MaskIsLead DEF Words
<1>2. Sought \in Nat
  BY <1>1, MaskType DEF Sought
<1>3. ASSUME NEW i \in 1..N
      PROVE  /\ MaskedKey(i) \in Nat
             /\ tab[i].val \in 1..N /\ names[tab[i].val] \in Words
             /\ MaskedKey(i) = Sought <=> Begins(word, names[tab[i].val])
             /\ MaskedKey(i) = Sought => Packed(word) <= tab[i].key
  <2>1. tab[i].val \in 1..N /\ tab[i].key = Packed(names[tab[i].val])
    BY EntryOf
  <2>2. names[tab[i].val] \in Words
    BY <2>1, Given, Typed
  <2>3. MaskedKey(i) = Mask(Packed(names[tab[i].val]), Len(word)) /\ Sought = Mask(Packed(word), Len(word))
    BY <2>1 DEF MaskedKey, Sought
  <2>4. MaskedKey(i) \in Nat
    BY <1>1, MaskType, Typed DEF MaskedKey
  <2> QED
    BY <2>1, <2>2, <2>3, <2>4, MaskMatches, PackedLeast
<1>4. ASSUME NEW i \in 1..N, NEW j \in 1..N, i <= j PROVE MaskedKey(i) <= MaskedKey(j)
  <2>1. tab[i].key \in Nat /\ tab[j].key \in Nat
    BY Typed
  <2>2. tab[i].key <= tab[j].key
    <3>1. i = j \/ i < j
      BY <1>4, Typed
    <3> QED
      BY <2>1, <3>1, EntryOf
  <2> QED
    BY <1>1, <2>1, <2>2, MaskType DEF MaskedKey
<1> QED
  BY <1>1, <1>2, <1>3, <1>4

\* What Decide answers is what the word means.
Answer == IF low > N \/ MaskedKey(low) # Sought THEN None
          ELSE IF tab[low].key = Packed(word) THEN tab[low].val
          ELSE IF Ambiguous THEN None
          ELSE tab[low].val

LEMMA Resolved ==
  ASSUME TableIInv, phase = "search", low >= high
  PROVE  Answer = Meaning(word)
<1>0. /\ TableTypeOK /\ Complete /\ Ordered /\ Bracketed /\ N \in Nat
      /\ word \in Words /\ word \in Seq(Byte) /\ low \in 1..(N + 1)
      /\ \A k \in 1..N : k < low => MaskedKey(k) < Sought
      /\ \A k \in 1..N : k >= low => MaskedKey(k) >= Sought
  <2>1. TableTypeOK /\ Complete /\ Ordered /\ Bracketed /\ N \in Nat
    BY Typed DEF TableIInv
  <2>2. low \in 1..(N + 1) /\ high \in 1..(N + 1) /\ low <= high
    BY <2>1 DEF TableTypeOK, Bracketed
  <2>3. low = high
    BY <2>1, <2>2
  <2> QED
    BY <2>1, <2>2, <2>3 DEF Bracketed, Words
<1>d. DOMAIN names = 1..N
  <2>1. names \in Tables /\ N = Len(names)
    BY <1>0, Typed
  <2> QED
    BY <2>1, Given
<1>e. /\ \A i \in 1..N : tab[i].val \in 1..N
      /\ \A k \in 1..N : \E i \in 1..N : tab[i].val = k
  BY <1>0, EntryOf
<1>1. \A k \in DOMAIN names : k \in 1..N /\ \E i \in 1..N : tab[i].val = k
  BY <1>d, <1>e
<1>2. \A i \in 1..N : tab[i].val \in DOMAIN names
  BY <1>d, <1>e
<1>3. CASE low > N \/ MaskedKey(low) # Sought
  <2>1. ASSUME NEW i \in 1..N PROVE MaskedKey(i) # Sought
    <3>1. MaskedKey(i) \in Nat /\ Sought \in Nat
      BY <1>0, MaskedKeys
    <3>2. CASE i < low
      BY <1>0, <3>1, <3>2
    <3>3. CASE ~(i < low)
      <4>1. low \in 1..N /\ low <= i
        BY <1>0, <3>3
      <4>2. MaskedKey(low) \in Nat /\ MaskedKey(low) # Sought /\ MaskedKey(low) >= Sought
        BY <1>0, <1>3, <4>1, MaskedKeys
      <4>3. MaskedKey(low) <= MaskedKey(i)
        BY <1>0, <4>1, MaskedKeys
      <4> QED
        BY <3>1, <4>2, <4>3
    <3> QED
      BY <3>2, <3>3
  <2>2. ASSUME NEW l \in DOMAIN names PROVE names[l] # word /\ ~Begins(word, names[l])
    <3>1. PICK i \in 1..N : tab[i].val = l
      BY <1>1
    <3>2. ~Begins(word, names[l])
      BY <1>0, <2>1, <3>1, MaskedKeys
    <3> QED
      BY <1>0, <3>2, Itself
  <2>3. Answer = None
    BY <1>3 DEF Answer
  <2> QED
    BY <2>2, <2>3, MeaningOf
<1>4. CASE ~(low > N \/ MaskedKey(low) # Sought)
  <2>1. low \in 1..N /\ MaskedKey(low) = Sought
    BY <1>0, <1>4
  <2> DEFINE v == tab[low].val
  <2>2. v \in DOMAIN names /\ Begins(word, names[v]) /\ names[v] \in Words
    BY <1>0, <1>2, <2>1, MaskedKeys
  <2>3. CASE tab[low].key = Packed(word)
    <3>1. tab[low].key = Packed(names[v])
      BY <1>0, <2>1, EntryOf
    <3>2. names[v] = word
      BY <1>0, <2>2, <2>3, <3>1, PackedDiffer
    <3>3. \A l \in DOMAIN names : names[l] = word => l = v
      BY <1>0, <2>2, <3>2, Distinct
    <3>4. Answer = v
      BY <1>4, <2>3 DEF Answer
    <3> QED
      BY <2>2, <3>2, <3>3, <3>4, MeaningOf
  <2>4. CASE tab[low].key # Packed(word)
    <3>1. ASSUME NEW l \in DOMAIN names, names[l] = word PROVE FALSE
      <4>1. PICK i \in 1..N : tab[i].val = l
        BY <1>1
      <4>2. MaskedKey(i) = Sought /\ tab[i].key = Packed(word)
        BY <1>0, <3>1, <4>1, Itself, MaskedKeys, EntryOf
      <4>3. Sought \in Nat /\ Packed(word) \in Nat /\ tab[low].key \in Nat
        BY <1>0, <2>1, MaskedKeys, Typed
      <4>4. ~(i < low) /\ i # low
        BY <1>0, <2>4, <4>2, <4>3
      <4>5. low < i
        BY <1>0, <4>4
      <4>6. tab[low].key < Packed(word)
        BY <1>0, <2>1, <4>2, <4>5, EntryOf
      <4>7. Packed(word) <= tab[low].key
        BY <1>0, <2>1, MaskedKeys
      <4> QED
        BY <4>3, <4>6, <4>7
    <3>2. CASE Ambiguous
      <4>1. low + 1 \in 1..N /\ MaskedKey(low + 1) = Sought
        BY <1>0, <2>1, <3>2 DEF Ambiguous
      <4> DEFINE u == tab[low + 1].val
      <4>2. u \in DOMAIN names /\ Begins(word, names[u])
        BY <1>0, <1>2, <4>1, MaskedKeys
      <4>3. u # v
        <5>1. low + 1 # low
          BY <1>0
        <5> QED
          BY <1>0, <2>1, <4>1, <5>1, EntryOf
      <4>4. Answer = None
        BY <1>4, <2>4, <3>2 DEF Answer
      <4> HIDE DEF u, v
      <4> QED
        BY <2>2, <3>1, <4>2, <4>3, <4>4, MeaningOf
    <3>3. CASE ~Ambiguous
      <4>1. ASSUME NEW l \in DOMAIN names, Begins(word, names[l]) PROVE l = v
        <5>1. PICK i \in 1..N : tab[i].val = l
          BY <1>1
        <5>2. MaskedKey(i) = Sought /\ Sought \in Nat
          BY <1>0, <4>1, <5>1, MaskedKeys
        <5>3. ~(i < low)
          BY <1>0, <5>2
        <5>4. ASSUME low < i PROVE FALSE
          <6>1. low + 1 \in 1..N /\ low + 1 <= i /\ low <= low + 1
            BY <1>0, <5>4
          <6>2. MaskedKey(low + 1) \in Nat /\ MaskedKey(low + 1) <= MaskedKey(i) /\ MaskedKey(low) <= MaskedKey(low + 1)
            BY <1>0, <2>1, <6>1, MaskedKeys
          <6>3. MaskedKey(low + 1) = Sought
            BY <2>1, <5>2, <6>2
          <6> QED
            BY <1>0, <3>3, <6>1, <6>3 DEF Ambiguous
        <5>5. i = low
          BY <1>0, <5>3, <5>4
        <5> QED
          BY <5>1, <5>5
      <4>2. Answer = v
        BY <1>4, <2>4, <3>3 DEF Answer
      <4> HIDE DEF v
      <4> QED
        BY <2>2, <3>1, <4>1, <4>2, MeaningOf
    <3> QED
      BY <3>2, <3>3
  <2> QED
    BY <2>3, <2>4
<1> QED
  BY <1>3, <1>4

-----------------------------------------------------------------------------
(* IntLookup: every step keeps its invariant. *)

LEMMA TableBegins == TableInit => TableIInv
<1> SUFFICES ASSUME TableInit PROVE TableIInv
  OBVIOUS
<1>1. /\ names \in Tables /\ Len(names) \in Nat \ {0} /\ DOMAIN names = 1..Len(names)
      /\ \A k \in 1..Len(names) : Packed(names[k]) \in Nat
  BY Given DEF TableInit
<1>2. /\ tab = [k \in 1..Len(names) |-> [key |-> Packed(names[k]), val |-> k]]
      /\ phase = "sort" /\ nth = 1 /\ hole = 1 /\ moving = tab[1]
      /\ word = <<>> /\ low = 1 /\ high = 1 /\ found = None
  BY <1>1 DEF TableInit
<1>3. \A k \in 1..Len(names) : [key |-> Packed(names[k]), val |-> k] \in Entries
  BY <1>1 DEF Entries
<1>4. tab \in Seq(Entries) /\ Len(tab) = Len(names)
  BY <1>1, <1>2, <1>3
<1>5. N = Len(names) /\ 1 \in 1..N /\ 1 \in 1..(N + 1)
  BY <1>1, <1>4 DEF N
<1>6. moving \in Entries
  BY <1>2, <1>3, <1>5
<1>7. TableTypeOK
  BY <1>1, <1>2, <1>4, <1>5, <1>6 DEF TableTypeOK, None
<1>8. \A i \in 1..N : Held(i) = tab[i] /\ tab[i].val = i /\ tab[i].key = Packed(names[i])
  BY <1>2, <1>5 DEF Held
<1>9. Complete
  BY <1>8 DEF Complete
<1>10. Ordered
  <2>1. \A j \in 1..N : ~(j < 1)
    BY <1>1, <1>5
  <2> QED
    BY <1>2, <2>1 DEF Ordered
<1> QED
  BY <1>2, <1>7, <1>9, <1>10 DEF TableIInv, Bracketed, Answered

\* Where the entries are: a step that moves none of them keeps them complete.
LEMMA CompleteStays ==
  ASSUME Complete, N' = N, names' = names, \A i \in 1..N : Held(i)' = Held(i)
  PROVE  Complete'
  BY DEF Complete

LEMMA TypedStays ==
  ASSUME TableTypeOK, NEW i \in 1..N, NEW e \in Entries, tab' = [tab EXCEPT ![i] = e], names' = names
  PROVE  /\ tab' \in Seq(Entries) /\ Len(tab') = Len(names') /\ N' = N
         /\ \A j \in 1..N : tab'[j] = IF j = i THEN e ELSE tab[j]
<1>1. tab \in Seq(Entries) /\ i \in 1..Len(tab) /\ Len(tab) = Len(names)
  BY DEF TableTypeOK, N
<1>2. tab' \in Seq(Entries) /\ Len(tab') = Len(tab)
  BY <1>1
<1> QED
  BY <1>1, <1>2 DEF N

LEMMA SortNextKeeps == TableIInv /\ SortNext => TableIInv'
<1> SUFFICES ASSUME TableIInv, SortNext PROVE TableIInv'
  OBVIOUS
<1>1. /\ TableTypeOK /\ Complete /\ Ordered /\ phase = "sort" /\ word = <<>>
      /\ names' = names /\ tab' = tab /\ nth' = nth
      /\ word' = word /\ low' = low /\ high' = high /\ found' = found
  BY DEF TableIInv, Answered, SortNext, searching
<1>2. N' = N /\ N \in Nat \ {0} /\ nth \in 1..(N + 1)
  BY <1>1, Typed DEF N, TableTypeOK
<1>3. CASE nth <= N
  <2>1. phase' = "shift" /\ hole' = nth /\ moving' = tab[nth] /\ nth \in 1..N
    BY <1>2, <1>3 DEF SortNext
  <2>2. moving' \in Entries
    BY <1>1, <2>1, Typed
  <2>3. TableTypeOK'
    BY <1>1, <1>2, <2>1, <2>2 DEF TableTypeOK
  <2>4. \A i \in 1..N : Held(i)' = Held(i)
    BY <1>1, <2>1 DEF Held
  <2>5. Complete'
    BY <1>1, <1>2, <2>4, CompleteStays
  <2>6. Ordered'
    <3>1. ASSUME NEW i \in 1..N, NEW j \in 1..N, i < j, j <= nth, j # nth
          PROVE  tab[i].key < tab[j].key
      <4>1. j < nth
        BY <1>2, <3>1
      <4> QED
        BY <1>1, <3>1, <4>1 DEF Ordered
    <3>2. \A j \in 1..N : ~(nth < j /\ j <= nth)
      BY <1>2
    <3>3. nth <= nth
      BY <1>2
    <3> QED
      BY <1>1, <1>2, <1>3, <2>1, <3>1, <3>2, <3>3 DEF Ordered
  <2> QED
    BY <1>1, <2>1, <2>3, <2>5, <2>6 DEF TableIInv, Bracketed, Answered
<1>4. CASE ~(nth <= N)
  <2>1. phase' = "ready" /\ hole' = hole /\ moving' = moving
    BY <1>4 DEF SortNext
  <2>2. TableTypeOK'
    BY <1>1, <1>2, <2>1 DEF TableTypeOK
  <2>3. \A i \in 1..N : Held(i)' = Held(i)
    BY <1>1, <2>1 DEF Held
  <2>4. Complete'
    BY <1>1, <1>2, <2>3, CompleteStays
  <2>5. \A j \in 1..N : j < nth
    BY <1>2, <1>4
  <2>6. Ordered'
    BY <1>1, <1>2, <2>1, <2>5 DEF Ordered
  <2> QED
    BY <1>1, <2>1, <2>2, <2>4, <2>6 DEF TableIInv, Bracketed, Answered
<1> QED
  BY <1>3, <1>4

\* The entry before the hole moves into it: the two change places.
LEMMA ShiftKeeps == TableIInv /\ Shift => TableIInv'
<1> SUFFICES ASSUME TableIInv, Shift PROVE TableIInv'
  OBVIOUS
<1> DEFINE g == hole - 1
<1>1. /\ TableTypeOK /\ Complete /\ Ordered /\ phase = "shift" /\ word = <<>>
      /\ moving.key < tab[g].key /\ tab' = [tab EXCEPT ![hole] = tab[g]] /\ hole' = g
      /\ names' = names /\ phase' = phase /\ nth' = nth /\ moving' = moving
      /\ word' = word /\ low' = low /\ high' = high /\ found' = found
  BY DEF TableIInv, Answered, Shift, searching
<1>2. /\ N \in Nat \ {0} /\ hole \in 1..N /\ g \in 1..N /\ hole # g /\ g < hole
      /\ \A i \in 1..N : i < hole /\ i # g => i < g
      /\ \A i \in 1..N : g < i /\ i # hole => hole < i
  BY <1>1, Typed DEF Shift, TableTypeOK
<1> HIDE DEF g
<1>3. /\ tab' \in Seq(Entries) /\ Len(tab') = Len(names') /\ N' = N
      /\ \A j \in 1..N : tab'[j] = IF j = hole THEN tab[g] ELSE tab[j]
  BY <1>1, <1>2, Typed, TypedStays
<1>4. TableTypeOK'
  BY <1>1, <1>2, <1>3 DEF TableTypeOK
<1> DEFINE turn == [n \in 1..N |-> IF n = hole THEN g ELSE IF n = g THEN hole ELSE n]
<1>5. \A i \in 1..N : turn[i] \in 1..N /\ Held(i)' = Held(turn[i]) /\ turn[turn[i]] = i
  BY <1>1, <1>2, <1>3 DEF Held
<1> HIDE DEF turn
<1>6. Complete'
  <2>1. \A i \in 1..N : Held(i)'.val \in 1..N /\ Held(i)'.key = Packed(names[Held(i)'.val])
    BY <1>1, <1>5 DEF Complete
  <2>2. ASSUME NEW i \in 1..N, NEW j \in 1..N, Held(i)'.val = Held(j)'.val PROVE i = j
    <3>1. /\ turn[i] \in 1..N /\ turn[j] \in 1..N /\ turn[turn[i]] = i /\ turn[turn[j]] = j
          /\ Held(turn[i]).val = Held(turn[j]).val
      BY <1>5, <2>2
    <3>2. turn[i] = turn[j]
      BY <1>1, <3>1 DEF Complete
    <3> QED
      BY <3>1, <3>2
  <2>3. ASSUME NEW k \in 1..N PROVE \E i \in 1..N : Held(i)'.val = k
    <3>1. PICK i \in 1..N : Held(i).val = k
      BY <1>1 DEF Complete
    <3>2. PICK m \in 1..N : m = turn[i] /\ turn[m] = i
      BY <1>5
    <3>3. Held(m)' = Held(i)
      BY <1>5, <3>2
    <3> QED
      BY <3>1, <3>3
  <2> QED
    BY <1>1, <1>3, <2>1, <2>2, <2>3 DEF Complete
<1>7. Ordered'
  <2>1. /\ nth <= N /\ hole <= nth /\ nth \in Nat
        /\ \A i, j \in 1..N : i < j /\ j <= nth /\ i # hole /\ j # hole => tab[i].key < tab[j].key
        /\ \A j \in 1..N : hole < j /\ j <= nth => moving.key < tab[j].key
    BY <1>1, <1>2 DEF Ordered, TableTypeOK
  <2>2. ASSUME NEW i \in 1..N, NEW j \in 1..N, i < j, j <= nth, i # g, j # g
        PROVE  tab'[i].key < tab'[j].key
    <3>1. CASE i = hole
      <4>1. tab'[i] = tab[g] /\ tab'[j] = tab[j] /\ j # hole /\ g < j
        BY <1>2, <1>3, <2>2, <3>1
      <4> QED
        BY <1>2, <2>1, <2>2, <4>1
    <3>2. CASE j = hole
      <4>1. tab'[j] = tab[g] /\ tab'[i] = tab[i] /\ i # hole /\ i < g /\ g <= nth
        BY <1>2, <1>3, <2>1, <2>2, <3>2
      <4> QED
        BY <1>2, <2>1, <2>2, <4>1
    <3>3. CASE i # hole /\ j # hole
      BY <1>3, <2>1, <2>2, <3>3
    <3> QED
      BY <3>1, <3>2, <3>3
  <2>3. ASSUME NEW j \in 1..N, g < j, j <= nth PROVE moving.key < tab'[j].key
    <3>1. CASE j = hole
      BY <1>1, <1>3, <3>1
    <3>2. CASE j # hole
      BY <1>2, <1>3, <2>1, <2>3, <3>2
    <3> QED
      BY <3>1, <3>2
  <2>4. g <= nth
    BY <1>2, <2>1
  <2> QED
    BY <1>1, <1>3, <2>1, <2>2, <2>3, <2>4 DEF Ordered
<1> QED
  BY <1>1, <1>4, <1>6, <1>7 DEF TableIInv, Bracketed, Answered

LEMMA PlaceKeeps == TableIInv /\ Place => TableIInv'
<1> SUFFICES ASSUME TableIInv, Place PROVE TableIInv'
  OBVIOUS
<1>1. /\ TableTypeOK /\ Complete /\ Ordered /\ phase = "shift" /\ word = <<>>
      /\ (hole > 1 => moving.key > tab[hole - 1].key)
      /\ tab' = [tab EXCEPT ![hole] = moving] /\ phase' = "sort" /\ nth' = nth + 1
      /\ names' = names /\ hole' = hole /\ moving' = moving
      /\ word' = word /\ low' = low /\ high' = high /\ found' = found
  BY DEF TableIInv, Answered, Place, searching
<1>2. /\ N \in Nat \ {0} /\ hole \in 1..N /\ nth \in 1..N /\ hole <= nth
      /\ \A i, j \in 1..N : i < j /\ j <= nth /\ i # hole /\ j # hole => tab[i].key < tab[j].key
      /\ \A j \in 1..N : hole < j /\ j <= nth => moving.key < tab[j].key
  <2>1. N \in Nat \ {0} /\ hole \in 1..N /\ nth \in 1..(N + 1)
    BY <1>1, Typed DEF TableTypeOK
  <2> QED
    BY <1>1, <2>1 DEF Ordered
<1>3. /\ tab' \in Seq(Entries) /\ Len(tab') = Len(names') /\ N' = N
      /\ \A j \in 1..N : tab'[j] = IF j = hole THEN moving ELSE tab[j]
  BY <1>1, <1>2, Typed, TypedStays
<1>4. TableTypeOK'
  <2>1. nth + 1 \in 1..(N + 1)
    BY <1>2
  <2> QED
    BY <1>1, <1>3, <2>1 DEF TableTypeOK
<1>5. \A i \in 1..N : Held(i)' = Held(i)
  BY <1>1, <1>3 DEF Held
<1>6. Complete'
  BY <1>1, <1>3, <1>5, CompleteStays
<1>7. Ordered'
  <2>1. ASSUME NEW i \in 1..N, NEW j \in 1..N, i < j, j < nth + 1
        PROVE  tab'[i].key < tab'[j].key
    <3>0. j <= nth
      BY <1>2, <2>1
    <3>1. CASE i = hole
      <4>1. tab'[i] = moving /\ tab'[j] = tab[j]
        BY <1>2, <1>3, <2>1, <3>1
      <4> QED
        BY <1>2, <2>1, <3>0, <3>1, <4>1
    <3>2. CASE j = hole
      <4> DEFINE g == hole - 1
      <4>1. hole > 1 /\ g \in 1..N /\ i # hole /\ (i = g \/ i < g) /\ g <= nth /\ g # hole
        BY <1>2, <2>1, <3>2
      <4>2. tab[g].key < moving.key
        <5>1. tab[g].key \in Nat /\ moving.key \in Nat /\ moving.key > tab[g].key
          BY <1>1, <4>1, Typed
        <5> QED
          BY <5>1
      <4>3. tab'[j] = moving /\ tab'[i] = tab[i]
        BY <1>3, <3>2, <4>1
      <4> HIDE DEF g
      <4>4. i = g \/ tab[i].key < tab[g].key
        BY <1>2, <4>1
      <4>5. tab[i].key \in Nat /\ tab[g].key \in Nat /\ moving.key \in Nat
        BY <1>1, <4>1, Typed
      <4> QED
        BY <4>2, <4>3, <4>4, <4>5
    <3>3. CASE i # hole /\ j # hole
      BY <1>2, <1>3, <2>1, <3>0, <3>3
    <3> QED
      BY <3>1, <3>2, <3>3
  <2> QED
    BY <1>1, <1>3, <2>1 DEF Ordered
<1> QED
  BY <1>1, <1>4, <1>6, <1>7 DEF TableIInv, Bracketed, Answered

LEMMA HalveKeeps == TableIInv /\ Halve => TableIInv'
<1> SUFFICES ASSUME TableIInv, Halve PROVE TableIInv'
  OBVIOUS
<1>1. /\ TableTypeOK /\ Complete /\ Ordered /\ Bracketed /\ phase = "search" /\ low < high
      /\ names' = names /\ tab' = tab /\ phase' = phase /\ nth' = nth /\ hole' = hole
      /\ moving' = moving /\ word' = word /\ found' = found
  BY DEF TableIInv, Halve, sorting
<1>2. N \in Nat /\ N' = N /\ low \in 1..(N + 1) /\ high \in 1..(N + 1)
  BY <1>1, Typed DEF TableTypeOK, N
<1> DEFINE m == Middle
<1>3. m \in 1..N /\ low <= m /\ m < high
  BY <1>1, <1>2 DEF Middle
<1>4. /\ word \in Words /\ \A k \in 1..N : k < low => MaskedKey(k) < Sought
      /\ \A k \in 1..N : k >= high => MaskedKey(k) >= Sought
  BY <1>1 DEF Bracketed
<1>5. /\ Sought \in Nat /\ \A k \in 1..N : MaskedKey(k) \in Nat
      /\ \A i, j \in 1..N : i <= j => MaskedKey(i) <= MaskedKey(j)
  BY <1>1, <1>4, MaskedKeys
<1>6. Sought' = Sought /\ \A k \in 1..N : MaskedKey(k)' = MaskedKey(k)
  BY <1>1 DEF Sought, MaskedKey
<1>7. Complete' /\ Ordered' /\ Answered'
  <2>1. \A i \in 1..N : Held(i)' = Held(i)
    BY <1>1 DEF Held
  <2>2. Complete'
    BY <1>1, <1>2, <2>1, CompleteStays
  <2> QED
    BY <1>1, <1>2, <2>2 DEF Ordered, Answered
<1>8. CASE MaskedKey(m) < Sought
  <2> HIDE DEF m
  <2>1. low' = m + 1 /\ high' = high
    BY <1>8 DEF Halve, m
  <2>2. m + 1 \in 1..(N + 1) /\ m + 1 <= high
    BY <1>2, <1>3
  <2>3. TableTypeOK'
    BY <1>1, <1>2, <2>1, <2>2 DEF TableTypeOK
  <2>4. ASSUME NEW k \in 1..N, k < m + 1 PROVE MaskedKey(k) < Sought
    <3>1. k <= m /\ MaskedKey(k) \in Nat /\ MaskedKey(m) \in Nat
      BY <1>3, <1>5, <2>4
    <3>2. MaskedKey(k) <= MaskedKey(m)
      BY <1>3, <1>5, <3>1
    <3> QED
      BY <1>5, <1>8, <3>1, <3>2
  <2>5. Bracketed'
    <3>1. word' \in Words /\ low' <= high'
      BY <1>1, <1>4, <2>1, <2>2
    <3>2. \A k \in 1..N : k < low' => MaskedKey(k)' < Sought'
      BY <1>6, <2>1, <2>4
    <3>3. \A k \in 1..N : k >= high' => MaskedKey(k)' >= Sought'
      BY <1>4, <1>6, <2>1
    <3> QED
      BY <1>2, <3>1, <3>2, <3>3 DEF Bracketed
  <2> QED
    BY <1>7, <2>3, <2>5 DEF TableIInv
<1>9. CASE ~(MaskedKey(m) < Sought)
  <2> HIDE DEF m
  <2>1. high' = m /\ low' = low
    BY <1>9 DEF Halve, m
  <2>2. m \in 1..(N + 1) /\ low <= m
    BY <1>2, <1>3
  <2>3. TableTypeOK'
    BY <1>1, <1>2, <2>1, <2>2 DEF TableTypeOK
  <2>4. ASSUME NEW k \in 1..N, k >= m PROVE MaskedKey(k) >= Sought
    <3>1. m <= k /\ MaskedKey(k) \in Nat /\ MaskedKey(m) \in Nat
      BY <1>3, <1>5, <2>4
    <3>2. MaskedKey(m) <= MaskedKey(k)
      BY <1>3, <1>5, <3>1
    <3> QED
      BY <1>5, <1>9, <3>1, <3>2
  <2>5. Bracketed'
    <3>1. word' \in Words /\ low' <= high'
      BY <1>1, <1>4, <2>1, <2>2
    <3>2. \A k \in 1..N : k < low' => MaskedKey(k)' < Sought'
      BY <1>4, <1>6, <2>1
    <3>3. \A k \in 1..N : k >= high' => MaskedKey(k)' >= Sought'
      BY <1>6, <2>1, <2>4
    <3> QED
      BY <1>2, <3>1, <3>2, <3>3 DEF Bracketed
  <2> QED
    BY <1>7, <2>3, <2>5 DEF TableIInv
<1> QED
  BY <1>8, <1>9

LEMMA DecideKeeps == TableIInv /\ Decide => TableIInv'
<1> SUFFICES ASSUME TableIInv, Decide PROVE TableIInv'
  OBVIOUS
<1>1. /\ TableTypeOK /\ Complete /\ Ordered /\ phase = "search" /\ low >= high
      /\ names' = names /\ tab' = tab /\ phase' = "ready" /\ nth' = nth /\ hole' = hole
      /\ moving' = moving /\ word' = word /\ low' = low /\ high' = high /\ found' = Answer
  BY DEF TableIInv, Decide, sorting, Answer
<1>2. N \in Nat /\ N' = N /\ low \in 1..(N + 1)
  BY <1>1, Typed DEF TableTypeOK, N
<1>3. Answer = Meaning(word)
  BY <1>1, Resolved
<1>4. Meaning(word)' = Meaning(word)
  BY <1>1 DEF Meaning
<1>5. Answer \in Nat
  <2>1. low > N \/ low \in 1..N
    BY <1>2
  <2> QED
    BY <1>1, <2>1, Typed DEF Answer, None
<1>6. TableTypeOK'
  BY <1>1, <1>2, <1>5 DEF TableTypeOK
<1>7. Complete'
  <2>1. \A i \in 1..N : Held(i)' = Held(i)
    BY <1>1 DEF Held
  <2> QED
    BY <1>1, <1>2, <2>1, CompleteStays
<1>8. Ordered'
  BY <1>1, <1>2 DEF Ordered
<1> QED
  BY <1>1, <1>3, <1>4, <1>6, <1>7, <1>8 DEF TableIInv, Bracketed, Answered

LEMMA LookupKeeps == ASSUME TableIInv, NEW w \in Seq(Byte), Lookup(w) PROVE TableIInv'
<1>1. /\ TableTypeOK /\ Complete /\ Ordered /\ phase = "ready"
      /\ names' = names /\ tab' = tab /\ nth' = nth /\ hole' = hole /\ moving' = moving
      /\ word' = w /\ low' = 1 /\ high' = N + 1 /\ found' = None
      /\ phase' = IF w = <<>> THEN "panic" ELSE IF Len(w) > Width THEN "ready" ELSE "search"
  BY DEF TableIInv, Lookup, sorting
<1>2. N \in Nat \ {0} /\ N' = N /\ Len(w) \in Nat /\ Width \in Nat
  BY <1>1, Typed, IntLookupAssumption DEF N
<1>3. TableTypeOK'
  BY <1>1, <1>2 DEF TableTypeOK, None
<1>4. Complete'
  <2>1. \A i \in 1..N : Held(i)' = Held(i)
    BY <1>1 DEF Held
  <2> QED
    BY <1>1, <1>2, <2>1, CompleteStays
<1>5. Ordered'
  BY <1>1, <1>2 DEF Ordered
<1>6. CASE w = <<>>
  BY <1>1, <1>3, <1>6 DEF TableIInv, Bracketed, Answered
<1>7. CASE w # <<>> /\ Len(w) > Width
  <2>1. Meaning(w) = None
    BY <1>1, <1>2, <1>7, TooLong, Typed
  <2>2. Meaning(w)' = Meaning(w)
    BY <1>1 DEF Meaning
  <2>3. Answered'
    BY <1>1, <1>7, <2>1, <2>2 DEF Answered, Meaning
  <2> QED
    BY <1>1, <1>3, <1>4, <1>5, <1>7, <2>3 DEF TableIInv, Bracketed
<1>8. CASE w # <<>> /\ ~(Len(w) > Width)
  <2>1. w \in Words
    <3>1. Len(w) # 0
      BY <1>8
    <3> QED
      BY <1>2, <1>8, <3>1 DEF Words
  <2>2. /\ 1 <= N + 1 /\ \A k \in 1..N : ~(k < 1) /\ ~(k >= N + 1)
    BY <1>2
  <2>3. Bracketed'
    BY <1>1, <1>2, <1>8, <2>1, <2>2 DEF Bracketed
  <2> QED
    BY <1>1, <1>3, <1>4, <1>5, <1>8, <2>3 DEF TableIInv, Answered
<1> QED
  BY <1>6, <1>7, <1>8

LEMMA TableStep == TableIInv /\ [TableNext]_lookupVars => TableIInv'
<1> SUFFICES ASSUME TableIInv, [TableNext]_lookupVars PROVE TableIInv'
  OBVIOUS
<1>1. CASE Duplicate
  <2>1. /\ TableTypeOK /\ phase' = "panic" /\ names' = names /\ tab' = tab /\ nth' = nth
        /\ hole' = hole /\ moving' = moving /\ word' = word /\ low' = low /\ high' = high
        /\ found' = found
    BY <1>1 DEF TableIInv, Duplicate, sorting, searching
  <2>2. TableTypeOK'
    BY <2>1 DEF TableTypeOK, N
  <2> QED
    BY <2>1, <2>2 DEF TableIInv, Bracketed, Answered
<1>2. CASE phase = "ready" /\ Forget
  <2>1. /\ TableTypeOK /\ Complete /\ Ordered /\ phase' = phase /\ names' = names /\ tab' = tab
        /\ nth' = nth /\ hole' = hole /\ moving' = moving
        /\ word' = <<>> /\ low' = 1 /\ high' = 1 /\ found' = None
    BY <1>2 DEF TableIInv, Forget, sorting
  <2>2. N' = N /\ N \in Nat
    BY <2>1, Typed DEF N
  <2>3. TableTypeOK'
    BY <2>1, <2>2 DEF TableTypeOK, None
  <2>4. \A i \in 1..N : Held(i)' = Held(i)
    BY <2>1 DEF Held
  <2>5. Complete'
    BY <2>1, <2>2, <2>4, CompleteStays
  <2>6. Ordered'
    BY <2>1, <2>2 DEF Ordered
  <2> QED
    BY <1>2, <2>1, <2>3, <2>5, <2>6 DEF TableIInv, Bracketed, Answered
<1>3. CASE UNCHANGED lookupVars
  <2>1. /\ names' = names /\ tab' = tab /\ phase' = phase /\ nth' = nth /\ hole' = hole
        /\ moving' = moving /\ word' = word /\ low' = low /\ high' = high /\ found' = found
    BY <1>3 DEF lookupVars
  <2>2. N' = N /\ Sought' = Sought /\ Meaning(word)' = Meaning(word)
    BY <2>1 DEF N, Sought, Meaning
  <2>3. \A i \in 1..N : Held(i)' = Held(i) /\ MaskedKey(i)' = MaskedKey(i)
    BY <2>1 DEF Held, MaskedKey
  <2>4. TableTypeOK'
    BY <2>1, <2>2 DEF TableIInv, TableTypeOK
  <2>5. phase # "panic" => Complete' /\ Ordered'
    BY <2>1, <2>2, <2>3, CompleteStays DEF TableIInv, Ordered
  <2>6. Bracketed'
    BY <2>1, <2>2, <2>3 DEF TableIInv, Bracketed
  <2>7. Answered'
    BY <2>1, <2>2 DEF TableIInv, Answered
  <2> QED
    BY <2>1, <2>4, <2>5, <2>6, <2>7 DEF TableIInv
<1> QED
  BY <1>1, <1>2, <1>3, SortNextKeeps, ShiftKeeps, PlaceKeeps, HalveKeeps, DecideKeeps, LookupKeeps
     DEF TableNext, Build, Search

\* The table is what the names make it, while it is sorted and while it is searched.
THEOREM LookupInvariant == TableSpec => []TableIInv
  BY TableBegins, TableStep, PTL DEF TableSpec

\* Every variable keeps its range.
THEOREM LookupTyped == TableSpec => []TableTypeOK
<1>1. TableIInv => TableTypeOK
  BY DEF TableIInv
<1> QED
  BY <1>1, LookupInvariant, PTL

\* lookup answers with the name, or with the only name the word begins, and with nothing else,
\* and a table in use has no name twice, for every table of names and every word.
THEOREM LookupFinds == TableSpec => []FoundAsNamed
<1>1. TableIInv => FoundAsNamed
  BY Distinct DEF TableIInv, Answered, FoundAsNamed
<1> QED
  BY <1>1, LookupInvariant, PTL

-----------------------------------------------------------------------------
(* Arguments: the invariant. *)

\* The letters in front of a place.
Before(u, c, s) == u[1] < c \/ (u[1] = c /\ u[2] < s)
PastIn(d, ws, c, s) == {u \in Used(d, ws) : Before(u, c, s)}

\* internal_getopt may be at byte s of word c: it has passed options and their values only, it is
\* not at a word that is a value, and inside a word no letter before took the rest of it.
Scanned(d, ws, c, s) ==
  /\ c \in 1..(Len(ws) + 1) /\ s \in Nat /\ s >= 2
  /\ \A k \in 1..(c - 1) : /\ Roles(d, ws)[k] \notin {"dashes", "operand"}
                           /\ Roles(d, ws)[k] = "letters" => ws[k] # Help
  /\ Roles(d, ws)[c - 1] # "wants"
  /\ s > 2 => /\ c <= Len(ws) /\ IsOption(ws[c]) /\ ws[c] \notin {TwoDashes, Help}
              /\ s <= Len(ws[c])
              /\ \A l \in 2..(s - 1) : ws[c][l] \notin d.opts

\* The letters in S are applied, with the last value of each option, and nothing else.
IsLast(u, S, ws) == \A t \in S : LetterAt(ws, t) = LetterAt(ws, u) => t[1] <= u[1]
Known(d, ws, u) == /\ LetterAt(ws, u) \in d.flags \cup d.opts
                   /\ LetterAt(ws, u) \in d.opts => Converts(d.value[LetterAt(ws, u)], ValueAt(d, ws, u))
Taken(S, g, v, d, ws) ==
  /\ g = {LetterAt(ws, u) : u \in S}
  /\ \A u \in S : Known(d, ws, u)
  /\ \A b \in Byte : b \notin d.opts => v[b] = NoWord
  /\ \A u \in S : IsLast(u, S, ws) => v[LetterAt(ws, u)] = ValueAt(d, ws, u)

\* The options of a list are read: all of them, none lacks its value, none asks for help.
Read(d, ws, g, v) ==
  /\ Taken(Used(d, ws), g, v, d, ws)
  /\ Roles(d, ws)[Len(ws)] # "wants" /\ ~AsksHelp(d, ws)

\* The types; what is declared leaves -h alone, and no letter is both flag and option.
ArgsTyped ==
  /\ declared \in Declarations /\ LetterH \notin declared.flags \cup declared.opts
  /\ declared.flags \cap declared.opts = {}
  /\ words \in Seq(Seq(Byte)) /\ getopt \in [cur : Nat, sp : Nat, end : Nat]
  /\ given \subseteq Byte /\ values \in [Byte -> Seq(Byte)]
  /\ operands \in Seq(Seq(Byte)) /\ rest \in Seq(Seq(Byte))
  /\ step \in {"idle", "options", "operands", "post", "lookup", "done"}
  /\ outcome \in {"none", "help", "usage", "unknown", "ok"}
  /\ step # "done" => outcome = "none"

\* While options are read: all the letters passed are applied, and no others.
Scanning ==
  step = "options" =>
    /\ Scanned(declared, words, getopt.cur, getopt.sp)
    /\ Taken(PastIn(declared, words, getopt.cur, getopt.sp), given, values, declared, words)

\* When the options have ended, loptend is at the operands.
Filling ==
  step = "operands" =>
    /\ Read(declared, words, given, values)
    /\ getopt.end \in 1..(Len(words) + 1)
    /\ SubSeq(words, getopt.end, Len(words)) = Operands(declared, words)

\* A parse has succeeded.
Filled ==
  step \in {"post", "lookup"} \/ outcome \in {"ok", "unknown"} =>
    /\ Read(declared, words, given, values) /\ Fits(declared, words)
    /\ operands \o rest = Operands(declared, words)
    /\ Len(operands) >= Len(declared.need)

\* A parse has failed.
Failed ==
  /\ outcome = "usage" => ~Fits(declared, words)
  /\ outcome = "help" => AsksHelp(declared, words)

\* Where a call is, and where the table is.
InStep ==
  /\ step = "idle" => phase # "search" /\ word = <<>>
  /\ step = "lookup" => phase \in {"search", "ready", "panic"} /\ (phase = "ready" => word # <<>>)
  /\ step \notin {"idle", "lookup"} => phase = "ready"
  /\ step \in {"options", "operands", "post"} /\ IsOuter => declared = Outer

\* What is known of the parse, and of the whole call.
Reading == ArgsTyped /\ Scanning /\ Filling /\ Filled /\ Failed
ArgsInv == Reading /\ InStep

-----------------------------------------------------------------------------
(* Arguments: what words mean. *)

\* The parts a word can have, and which one it has after a word with another.
Kinds == {"value", "dashes", "operand", "wants", "letters"}
RoleAfter(d, w, before) ==
  IF before \in {"dashes", "operand"} THEN "operand"
  ELSE IF before = "wants" THEN "value"
  ELSE IF ~IsOption(w) THEN "operand"
  ELSE IF w = TwoDashes THEN "dashes"
  ELSE IF Wants(d, w) THEN "wants" ELSE "letters"

\* The part of a word follows from the part of the word before it.
LEMMA RolesAre ==
  ASSUME NEW d, NEW ws, Len(ws) \in Nat
  PROVE  /\ Roles(d, ws) \in [0..Len(ws) -> Kinds] /\ Roles(d, ws)[0] = "value"
         /\ \A k \in 1..Len(ws) : Roles(d, ws)[k] = RoleAfter(d, ws[k], Roles(d, ws)[k - 1])
<1> DEFINE n == Len(ws)
           G == [k \in 0..n |-> [x \in Kinds |-> RoleAfter(d, ws[k], x)]]
<1>1. G \in [0..n -> [Kinds -> Kinds]]
  <2>1. \A k \in 0..n : \A x \in Kinds : RoleAfter(d, ws[k], x) \in Kinds
    BY DEF RoleAfter, Kinds
  <2> QED
    BY <2>1
<1>2. PICK f \in [0..n -> Kinds] : f[0] = "value" /\ \A k \in 1..n : f[k] = G[k][f[k - 1]]
  <2>1. "value" \in Kinds
    BY DEF Kinds
  <2> HIDE DEF G
  <2>2. \E f : Iterates(f, G, n, Kinds, "value")
    BY <1>1, <2>1, Recursion DEF Steps
  <2> QED
    BY <2>2 DEF Iterates
<1> DEFINE Follows(g) == g = [k \in 0..n |-> IF k = 0 THEN "value" ELSE RoleAfter(d, ws[k], g[k - 1])]
<1>3. ASSUME NEW k \in 1..n PROVE k \in 0..n /\ k - 1 \in 0..n /\ k # 0 /\ f[k] = RoleAfter(d, ws[k], f[k - 1])
  <2>1. k \in 0..n /\ k - 1 \in 0..n /\ k # 0
    OBVIOUS
  <2>2. f[k - 1] \in Kinds /\ f[k] = G[k][f[k - 1]]
    BY <1>2, <2>1
  <2> QED
    BY <2>1, <2>2
<1>4. \A k \in 0..n : k # 0 => k \in 1..n
  OBVIOUS
<1>5. Follows(f)
  <2>1. \A k \in 0..n : f[k] = IF k = 0 THEN "value" ELSE RoleAfter(d, ws[k], f[k - 1])
    BY <1>2, <1>3, <1>4
  <2> HIDE DEF G
  <2> QED
    BY <1>2, <2>1
<1> DEFINE h == Roles(d, ws)
<1>6. Follows(h)
  <2>1. h = CHOOSE g : Follows(g)
    BY DEF Roles, RoleAfter
  <2> HIDE DEF h, Follows
  <2> QED
    BY <1>5, <2>1
<1> HIDE DEF h, G
<1>7. h[0] = "value" /\ \A k \in 1..n : h[k] = RoleAfter(d, ws[k], h[k - 1])
  BY <1>3, <1>6
<1>8. \A k \in 0..n : h[k] \in Kinds
  <2>1. \A k \in 0..n : h[k] = "value" \/ \E x : h[k] = RoleAfter(d, ws[k], x)
    BY <1>4, <1>7
  <2> QED
    BY <2>1 DEF RoleAfter, Kinds
<1> QED
  BY <1>6, <1>7, <1>8 DEF h

\* Options come first: what is in front of one is no operand, what follows an operand is one.
LEMMA OperandsLast ==
  ASSUME NEW d, NEW ws, Len(ws) \in Nat, NEW c \in 1..Len(ws), Roles(d, ws)[c] \in {"dashes", "operand"}
  PROVE  \A k \in (c + 1)..Len(ws) : Roles(d, ws)[k] = "operand"
<1> DEFINE S == {m \in 0..Len(ws) : m >= c => Roles(d, ws)[m] \in {"dashes", "operand"}}
<1>1. 0 \in S
  OBVIOUS
<1>2. ASSUME NEW m \in 0..Len(ws), m \in S, m < Len(ws) PROVE m + 1 \in S
  <2>1. m + 1 \in 1..Len(ws) /\ (m + 1) - 1 = m /\ m + 1 \in 0..Len(ws)
    BY <1>2
  <2>2. Roles(d, ws)[m + 1] = RoleAfter(d, ws[m + 1], Roles(d, ws)[m])
    BY <2>1, RolesAre
  <2>3. CASE m >= c
    BY <1>2, <2>1, <2>2, <2>3 DEF RoleAfter
  <2>4. CASE m + 1 = c
    BY <2>1, <2>4
  <2>5. CASE m + 1 < c
    BY <2>1, <2>5
  <2> QED
    BY <1>2, <2>3, <2>4, <2>5
<1> HIDE DEF S
<1>3. \A m \in 0..Len(ws) : m \in S
  BY <1>1, <1>2, UpTo
<1>4. ASSUME NEW k \in (c + 1)..Len(ws) PROVE Roles(d, ws)[k] = "operand"
  <2>1. k \in 1..Len(ws) /\ k - 1 \in 0..Len(ws) /\ k - 1 >= c
    BY <1>4
  <2>2. Roles(d, ws)[k - 1] \in {"dashes", "operand"}
    BY <1>3, <2>1 DEF S
  <2> QED
    BY <2>1, <2>2, RolesAre DEF RoleAfter
<1> QED
  BY <1>4

\* The operands are what comes after the last word that is none.
LEMMA OperandsAre ==
  ASSUME NEW d, NEW ws \in Seq(Seq(Byte)), NEW c \in 0..Len(ws),
         \A k \in 1..Len(ws) : Roles(d, ws)[k] # "operand" <=> k <= c
  PROVE  Operands(d, ws) = SubSeq(ws, c + 1, Len(ws))
<1>1. Len(ws) \in Nat /\ DOMAIN ws = 1..Len(ws)
  OBVIOUS
<1>2. {k \in DOMAIN ws : Roles(d, ws)[k] # "operand"} = 1..c
  <2>1. \A k \in 1..c : k \in 1..Len(ws) /\ k <= c
    BY <1>1
  <2>2. \A k \in 1..Len(ws) : k <= c => k \in 1..c
    BY <1>1
  <2> QED
    BY <1>1, <2>1, <2>2
<1>3. Cardinality(1..c) = c
  <2>1. 1 \in Int /\ c \in Int /\ Cardinality(1..c) = IF 1 > c THEN 0 ELSE c - 1 + 1
    BY FS_Interval
  <2> QED
    BY <2>1
<1>4. 1 + c = c + 1
  OBVIOUS
<1> QED
  BY <1>2, <1>3, <1>4 DEF Operands

\* What it is to be a letter of the options.
LEMMA UsedAre ==
  ASSUME NEW d, NEW ws \in Seq(Seq(Byte))
  PROVE  /\ \A u \in Used(d, ws) :
              /\ u = <<u[1], u[2]>> /\ u[1] \in 1..Len(ws) /\ u[2] \in 2..Len(ws[u[1]])
              /\ Roles(d, ws)[u[1]] \in {"wants", "letters"}
              /\ \A l \in 2..(u[2] - 1) : ws[u[1]][l] \notin d.opts
              /\ LetterAt(ws, u) \in Byte
         /\ \A k \in 1..Len(ws) : \A l \in 2..Len(ws[k]) :
              /\ Roles(d, ws)[k] \in {"wants", "letters"}
              /\ \A m \in 2..(l - 1) : ws[k][m] \notin d.opts
              => <<k, l>> \in Used(d, ws)
<1>1. DOMAIN ws = 1..Len(ws) /\ \A k \in 1..Len(ws) : ws[k] \in Seq(Byte) /\ Len(ws[k]) \in Nat
  OBVIOUS
<1>2. ASSUME NEW u \in Used(d, ws)
      PROVE  /\ u = <<u[1], u[2]>> /\ u[1] \in 1..Len(ws) /\ u[2] \in 2..Len(ws[u[1]])
             /\ Roles(d, ws)[u[1]] \in {"wants", "letters"}
             /\ \A l \in 2..(u[2] - 1) : ws[u[1]][l] \notin d.opts
             /\ LetterAt(ws, u) \in Byte
  <2>1. PICK k \in DOMAIN ws : u \in {k} \X (2..Len(ws[k]))
    BY DEF Used
  <2>2. u = <<u[1], u[2]>> /\ u[1] = k /\ u[2] \in 2..Len(ws[k])
    BY <2>1
  <2>3. ws[k] \in Seq(Byte) /\ u[2] \in 1..Len(ws[k])
    BY <1>1, <2>2
  <2>4. LetterAt(ws, u) \in Byte
    BY <2>2, <2>3 DEF LetterAt
  <2> QED
    BY <1>1, <2>2, <2>4 DEF Used
<1>3. ASSUME NEW k \in 1..Len(ws), NEW l \in 2..Len(ws[k]), Roles(d, ws)[k] \in {"wants", "letters"},
             \A m \in 2..(l - 1) : ws[k][m] \notin d.opts
      PROVE  <<k, l>> \in Used(d, ws)
  <2>1. <<k, l>> \in {k} \X (2..Len(ws[k])) /\ <<k, l>>[1] = k /\ <<k, l>>[2] = l
    OBVIOUS
  <2>2. <<k, l>> \in UNION {{j} \X (2..Len(ws[j])) : j \in DOMAIN ws}
    BY <1>1, <2>1
  <2> HIDE <1>3
  <2> QED
    BY <1>3, <2>1, <2>2 DEF Used
<1> QED
  BY <1>2, <1>3

\* internal_getopt at a letter: the letter is one that the word uses, and is not yet applied.
At(d, ws, c, s) ==
  /\ Scanned(d, ws, c, s)
  /\ c <= Len(ws) /\ IsOption(ws[c]) /\ (s = 2 => ws[c] \notin {TwoDashes, Help})

OptionRole(d, w) == IF Wants(d, w) THEN "wants" ELSE "letters"

LEMMA AtLetter ==
  ASSUME NEW d, NEW ws \in Seq(Seq(Byte)), NEW c, NEW s, At(d, ws, c, s)
  PROVE  /\ c \in 1..Len(ws) /\ s \in 2..Len(ws[c]) /\ ws[c] \notin {TwoDashes, Help}
         /\ ws[c] \in Seq(Byte) /\ Len(ws[c]) \in Nat /\ ws[c][s] \in Byte
         /\ \A l \in 2..(s - 1) : ws[c][l] \notin d.opts
<1>1. c \in 1..Len(ws) /\ s \in Nat /\ s >= 2 /\ ws[c] \in Seq(Byte) /\ Len(ws[c]) \in Nat
  BY DEF At, Scanned
<1>2. CASE s = 2
  BY <1>1, <1>2 DEF At, IsOption
<1>3. CASE s > 2
  BY <1>1, <1>3 DEF At, Scanned
<1>4. s = 2 \/ s > 2
  BY <1>1
<1> QED
  BY <1>2, <1>3, <1>4

LEMMA AtRole ==
  ASSUME NEW d, NEW ws \in Seq(Seq(Byte)), NEW c, NEW s, At(d, ws, c, s)
  PROVE  Roles(d, ws)[c] = OptionRole(d, ws[c])
<1>1. c \in 1..Len(ws) /\ Len(ws) \in Nat /\ c - 1 \in 0..Len(ws) /\ ws[c] # TwoDashes
  <2>1. c \in 1..Len(ws) /\ ws[c] # TwoDashes
    BY AtLetter
  <2> QED
    BY <2>1
<1>2. Roles(d, ws)[c] = RoleAfter(d, ws[c], Roles(d, ws)[c - 1])
  BY <1>1, RolesAre
<1>3. Roles(d, ws)[c - 1] \notin {"dashes", "operand", "wants"}
  <2>1. CASE c = 1
    BY <2>1, <1>1, RolesAre
  <2>2. CASE c # 1
    <3>1. c - 1 \in 1..(c - 1)
      BY <1>1, <2>2
    <3> QED
      BY <3>1 DEF At, Scanned
  <2> QED
    BY <2>1, <2>2
<1> QED
  BY <1>1, <1>2, <1>3 DEF RoleAfter, At, OptionRole

LEMMA AtUsed ==
  ASSUME NEW d, NEW ws \in Seq(Seq(Byte)), NEW c, NEW s, At(d, ws, c, s)
  PROVE  <<c, s>> \in Used(d, ws) /\ LetterAt(ws, <<c, s>>) = ws[c][s]
<1>1. c \in 1..Len(ws) /\ s \in 2..Len(ws[c]) /\ \A l \in 2..(s - 1) : ws[c][l] \notin d.opts
  BY AtLetter
<1>2. Roles(d, ws)[c] \in {"wants", "letters"}
  BY AtRole DEF OptionRole
<1>3. <<c, s>> \in Used(d, ws)
  BY <1>1, <1>2, UsedAre
<1>4. LetterAt(ws, <<c, s>>) = ws[c][s]
  BY DEF LetterAt
<1> QED
  BY <1>3, <1>4

\* The next place with a letter is after the letter here.
Onto(d, ws, c, s, e, t) == \A u \in Used(d, ws) : Before(u, e, t) <=> Before(u, c, s + 1)

\* What is past the next place is what was past this one, and the letter here.
LEMMA PastGrows ==
  ASSUME NEW d, NEW ws \in Seq(Seq(Byte)), NEW c, NEW s, At(d, ws, c, s),
         NEW e, NEW t, Onto(d, ws, c, s, e, t)
  PROVE  PastIn(d, ws, e, t) = PastIn(d, ws, c, s) \cup {<<c, s>>}
<1>1. c \in Nat /\ s \in Nat /\ <<c, s>> \in Used(d, ws) /\ <<c, s>>[1] = c /\ <<c, s>>[2] = s
  <2>1. c \in 1..Len(ws) /\ s \in 2..Len(ws[c]) /\ <<c, s>> \in Used(d, ws)
    BY AtLetter, AtUsed
  <2> QED
    BY <2>1
<1>2. ASSUME NEW u \in Used(d, ws)
      PROVE  u \in PastIn(d, ws, e, t) <=> u \in PastIn(d, ws, c, s) \/ u = <<c, s>>
  <2>1. u = <<u[1], u[2]>> /\ u[1] \in Nat /\ u[2] \in Nat
    BY UsedAre
  <2>2. u = <<c, s>> <=> u[1] = c /\ u[2] = s
    BY <2>1
  <2>3. u[2] < s + 1 <=> u[2] < s \/ u[2] = s
    BY <1>1, <2>1
  <2>4. Before(u, c, s + 1) <=> Before(u, c, s) \/ u = <<c, s>>
    BY <2>2, <2>3 DEF Before
  <2> QED
    BY <2>4 DEF PastIn, Onto
<1>3. PastIn(d, ws, e, t) \subseteq Used(d, ws) /\ PastIn(d, ws, c, s) \subseteq Used(d, ws)
  BY DEF PastIn
<1>4. \A u : u \in PastIn(d, ws, e, t) <=> u \in PastIn(d, ws, c, s) \cup {<<c, s>>}
  BY <1>1, <1>2, <1>3
<1> QED
  BY <1>4

\* The next place in a list, after the letter at this one.
NextIs(d, ws, c, s, e, t) ==
  Scanned(d, ws, e, t) /\ PastIn(d, ws, e, t) = PastIn(d, ws, c, s) \cup {<<c, s>>}

\* The first place of the next word is past everything in this one.
LEMMA NextWord ==
  ASSUME NEW d, NEW ws \in Seq(Seq(Byte)), NEW c \in Nat, NEW s \in Nat,
         \A u \in Used(d, ws) : u[1] = c => u[2] <= s
  PROVE  Onto(d, ws, c, s, c + 1, 2)
<1>1. ASSUME NEW u \in Used(d, ws)
      PROVE  Before(u, c + 1, 2) <=> Before(u, c, s + 1)
  <2>1. u[1] \in Nat /\ u[2] \in Nat /\ u[2] >= 2
    <3>1. u[1] \in 1..Len(ws) /\ u[2] \in 2..Len(ws[u[1]])
      BY UsedAre
    <3> QED
      BY <3>1
  <2>2. u[1] < c + 1 <=> u[1] < c \/ u[1] = c
    BY <2>1
  <2>3. u[1] = c => u[2] < s + 1
    BY <2>1
  <2>4. ~(u[2] < 2)
    BY <2>1
  <2> QED
    BY <2>2, <2>3, <2>4 DEF Before
<1> QED
  BY <1>1 DEF Onto

\* After a flag.
LEMMA FlagNext ==
  ASSUME NEW d, NEW ws \in Seq(Seq(Byte)), NEW c, NEW s, At(d, ws, c, s), ws[c][s] \notin d.opts
  PROVE  /\ s < Len(ws[c]) => NextIs(d, ws, c, s, c, s + 1)
         /\ ~(s < Len(ws[c])) => NextIs(d, ws, c, s, c + 1, 2)
<1>1. /\ c \in 1..Len(ws) /\ s \in 2..Len(ws[c]) /\ ws[c] \notin {TwoDashes, Help}
      /\ \A l \in 2..(s - 1) : ws[c][l] \notin d.opts
      /\ Roles(d, ws)[c] = OptionRole(d, ws[c])
      /\ Len(ws[c]) \in Nat
  BY AtLetter, AtRole
<1>2. c \in Nat /\ s \in Nat /\ s <= Len(ws[c]) /\ Len(ws) \in Nat
  BY <1>1
<1>3. \A k \in 1..(c - 1) : /\ Roles(d, ws)[k] \notin {"dashes", "operand"}
                            /\ Roles(d, ws)[k] = "letters" => ws[k] # Help
  BY DEF At, Scanned
<1>4. ASSUME s < Len(ws[c])
      PROVE  NextIs(d, ws, c, s, c, s + 1)
  <2>1. \A l \in 2..((s + 1) - 1) : ws[c][l] \notin d.opts
    <3>1. \A l \in 2..((s + 1) - 1) : l = s \/ l \in 2..(s - 1)
      BY <1>2, <1>4
    <3> QED
      BY <1>1, <3>1
  <2>2. Roles(d, ws)[c - 1] # "wants" /\ IsOption(ws[c])
    BY DEF At, Scanned
  <2>3. s + 1 \in Nat /\ s + 1 >= 2 /\ s + 1 <= Len(ws[c]) /\ c \in 1..(Len(ws) + 1) /\ c <= Len(ws)
    BY <1>1, <1>2, <1>4
  <2>4. Scanned(d, ws, c, s + 1)
    BY <1>1, <1>2, <1>3, <2>1, <2>2, <2>3 DEF Scanned
  <2>5. Onto(d, ws, c, s, c, s + 1)
    BY DEF Onto
  <2>6. PastIn(d, ws, c, s + 1) = PastIn(d, ws, c, s) \cup {<<c, s>>}
    BY <2>5, PastGrows
  <2> QED
    BY <2>4, <2>6 DEF NextIs
<1>5. ASSUME ~(s < Len(ws[c]))
      PROVE  NextIs(d, ws, c, s, c + 1, 2)
  <2>1. s = Len(ws[c]) /\ (c + 1) - 1 = c /\ c + 1 \in 1..(Len(ws) + 1)
    BY <1>1, <1>2, <1>5
  <2>2. Roles(d, ws)[c] = "letters"
    BY <1>1, <2>1 DEF Wants, OptionRole
  <2>3. \A k \in 1..((c + 1) - 1) : k = c \/ k \in 1..(c - 1)
    BY <1>2, <2>1
  <2>4. Scanned(d, ws, c + 1, 2)
    BY <1>1, <1>3, <2>1, <2>2, <2>3 DEF Scanned
  <2>5. Onto(d, ws, c, s, c + 1, 2)
    <3>1. \A u \in Used(d, ws) : u[1] = c => u[2] <= s
      <4>1. \A u \in Used(d, ws) : u[2] \in 2..Len(ws[u[1]])
        BY UsedAre
      <4> QED
        BY <2>1, <4>1
    <3> QED
      BY <1>2, <3>1, NextWord
  <2>6. PastIn(d, ws, c + 1, 2) = PastIn(d, ws, c, s) \cup {<<c, s>>}
    BY <2>5, PastGrows
  <2> QED
    BY <2>4, <2>6 DEF NextIs
<1> QED
  BY <1>4, <1>5

\* After an option that takes a value: the rest of the word is past, and the next word if the
\* value is there; if there is none, the list ends with a word that wants it.
LEMMA OptionNext ==
  ASSUME NEW d, NEW ws \in Seq(Seq(Byte)), NEW c, NEW s, At(d, ws, c, s), ws[c][s] \in d.opts
  PROVE  /\ s < Len(ws[c]) =>
              NextIs(d, ws, c, s, c + 1, 2)
         /\ ~(s < Len(ws[c])) /\ c < Len(ws) =>
              NextIs(d, ws, c, s, c + 2, 2)
         /\ ~(s < Len(ws[c])) /\ ~(c < Len(ws)) => Roles(d, ws)[Len(ws)] = "wants"
<1>1. /\ c \in 1..Len(ws) /\ s \in 2..Len(ws[c]) /\ ws[c] \notin {TwoDashes, Help}
      /\ \A l \in 2..(s - 1) : ws[c][l] \notin d.opts
      /\ Roles(d, ws)[c] = OptionRole(d, ws[c])
      /\ Len(ws[c]) \in Nat
  BY AtLetter, AtRole
<1>2. c \in Nat /\ s \in Nat /\ s <= Len(ws[c]) /\ Len(ws) \in Nat /\ c <= Len(ws) /\ 1 <= c /\ 2 <= s
  BY <1>1
<1>3. \A k \in 1..(c - 1) : /\ Roles(d, ws)[k] \notin {"dashes", "operand"}
                            /\ Roles(d, ws)[k] = "letters" => ws[k] # Help
  BY DEF At, Scanned
<1>4. \A u \in Used(d, ws) : u[1] = c => u[2] <= s
  <2>1. ASSUME NEW u \in Used(d, ws), u[1] = c PROVE u[2] <= s
    <3>1. u[2] \in 2..Len(ws[c]) /\ \A l \in 2..(u[2] - 1) : ws[c][l] \notin d.opts
      BY <2>1, UsedAre
    <3>2. ~(s \in 2..(u[2] - 1))
      BY <3>1
    <3>3. u[2] \in Nat
      BY <3>1
    <3> QED
      BY <1>2, <3>2, <3>3
  <2> QED
    BY <2>1
<1>5. Onto(d, ws, c, s, c + 1, 2)
  BY <1>2, <1>4, NextWord
<1>6. ASSUME s < Len(ws[c])
      PROVE  NextIs(d, ws, c, s, c + 1, 2)
  <2>1. (c + 1) - 1 = c /\ c + 1 \in 1..(Len(ws) + 1)
    BY <1>2
  <2>2. Roles(d, ws)[c] = "letters"
    <3>1. s \in 2..(Len(ws[c]) - 1)
      BY <1>1, <1>2, <1>6
    <3>2. ~Wants(d, ws[c])
      BY <3>1 DEF Wants
    <3> QED
      BY <1>1, <3>2 DEF OptionRole
  <2>3. \A k \in 1..((c + 1) - 1) : k = c \/ k \in 1..(c - 1)
    BY <1>2
  <2>4. Scanned(d, ws, c + 1, 2)
    BY <1>1, <1>3, <2>1, <2>2, <2>3 DEF Scanned
  <2> QED
    BY <2>4, <1>5, PastGrows DEF NextIs
<1>7. ASSUME ~(s < Len(ws[c])) PROVE Roles(d, ws)[c] = "wants"
  <2>1. s = Len(ws[c])
    BY <1>2, <1>1, <1>7
  <2>2. Wants(d, ws[c])
    BY <1>1, <2>1 DEF Wants
  <2> QED
    BY <1>1, <2>2 DEF OptionRole
<1>8. ASSUME ~(s < Len(ws[c])), c < Len(ws)
      PROVE  NextIs(d, ws, c, s, c + 2, 2)
  <2>1. (c + 2) - 1 = c + 1 /\ c + 2 \in 1..(Len(ws) + 1) /\ c + 1 \in 1..Len(ws) /\ (c + 1) - 1 = c
    BY <1>2, <1>8
  <2>2. Roles(d, ws)[c] = "wants"
    BY <1>7, <1>8
  <2>3. Roles(d, ws)[c + 1] = "value"
    <3>1. Roles(d, ws)[c + 1] = RoleAfter(d, ws[c + 1], Roles(d, ws)[c])
      BY <1>2, <2>1, RolesAre
    <3> QED
      BY <2>2, <3>1 DEF RoleAfter
  <2>4. \A k \in 1..((c + 2) - 1) : k = c + 1 \/ k = c \/ k \in 1..(c - 1)
    BY <1>2
  <2>5. Scanned(d, ws, c + 2, 2)
    <3>1. \A k \in 1..((c + 2) - 1) : /\ Roles(d, ws)[k] \notin {"dashes", "operand"}
                                      /\ Roles(d, ws)[k] = "letters" => ws[k] # Help
      BY <1>3, <2>2, <2>3, <2>4
    <3>2. Roles(d, ws)[(c + 2) - 1] # "wants"
      BY <2>1, <2>3
    <3> QED
      BY <1>2, <2>1, <3>1, <3>2 DEF Scanned
  <2>6. ASSUME NEW u \in Used(d, ws) PROVE Before(u, c + 2, 2) <=> Before(u, c + 1, 2)
    <3>1. u[1] \in 1..Len(ws) /\ u[2] \in 2..Len(ws[u[1]])
          /\ Roles(d, ws)[u[1]] \in {"wants", "letters"}
      BY UsedAre
    <3>2. u[1] # c + 1
      BY <2>3, <3>1
    <3>3. u[1] \in Nat /\ u[2] \in Nat /\ ~(u[2] < 2)
      BY <3>1
    <3>4. u[1] < c + 2 <=> u[1] < c + 1
      BY <1>2, <3>2, <3>3
    <3> QED
      BY <3>3, <3>4 DEF Before
  <2>7. Onto(d, ws, c, s, c + 2, 2)
    BY <1>5, <2>6 DEF Onto
  <2> QED
    BY <2>5, <2>7, PastGrows DEF NextIs
<1>9. ASSUME ~(s < Len(ws[c])), ~(c < Len(ws)) PROVE Roles(d, ws)[Len(ws)] = "wants"
  <2>1. c = Len(ws)
    BY <1>2, <1>9
  <2> QED
    BY <1>7, <1>9, <2>1
<1> QED
  BY <1>6, <1>8, <1>9

\* One more letter is applied: a flag.
LEMMA TakenFlag ==
  ASSUME NEW S, NEW g, NEW v, NEW d, NEW ws, NEW n, Taken(S, g, v, d, ws),
         LetterAt(ws, n) \in d.flags, LetterAt(ws, n) \notin d.opts, LetterAt(ws, n) \in Byte
  PROVE  Taken(S \cup {n}, g \cup {LetterAt(ws, n)}, v, d, ws)
<1>1. g \cup {LetterAt(ws, n)} = {LetterAt(ws, u) : u \in S \cup {n}}
  BY DEF Taken
<1>2. \A u \in S \cup {n} : Known(d, ws, u)
  BY DEF Taken, Known
<1>3. \A b \in Byte : b \notin d.opts => v[b] = NoWord
  BY DEF Taken
<1>4. ASSUME NEW u \in S \cup {n}, IsLast(u, S \cup {n}, ws)
      PROVE  v[LetterAt(ws, u)] = ValueAt(d, ws, u)
  <2>1. CASE u \in S
    <3>1. IsLast(u, S, ws)
      BY <1>4 DEF IsLast
    <3> QED
      BY <2>1, <3>1 DEF Taken
  <2>2. CASE u = n
    BY <1>3, <2>2 DEF ValueAt
  <2> QED
    BY <2>1, <2>2
<1> QED
  BY <1>1, <1>2, <1>3, <1>4 DEF Taken

\* An option with its value, which is the last of its letter so far.
LEMMA TakenOption ==
  ASSUME NEW S, NEW g, NEW v \in [Byte -> Seq(Byte)], NEW d, NEW ws, NEW n, Taken(S, g, v, d, ws),
         LetterAt(ws, n) \in d.opts, LetterAt(ws, n) \in Byte,
         \A u \in S : LetterAt(ws, u) \in Byte,
         Converts(d.value[LetterAt(ws, n)], ValueAt(d, ws, n)),
         \A u \in S : LetterAt(ws, u) = LetterAt(ws, n) => ~(n[1] <= u[1])
  PROVE  Taken(S \cup {n}, g \cup {LetterAt(ws, n)}, [v EXCEPT ![LetterAt(ws, n)] = ValueAt(d, ws, n)], d, ws)
<1> DEFINE w == [v EXCEPT ![LetterAt(ws, n)] = ValueAt(d, ws, n)]
<1>1. g \cup {LetterAt(ws, n)} = {LetterAt(ws, u) : u \in S \cup {n}}
  BY DEF Taken
<1>2. \A u \in S \cup {n} : Known(d, ws, u)
  BY DEF Taken, Known
<1>3. w[LetterAt(ws, n)] = ValueAt(d, ws, n) /\ \A b \in Byte : b # LetterAt(ws, n) => w[b] = v[b]
  OBVIOUS
<1> HIDE DEF w
<1>4. \A b \in Byte : b \notin d.opts => w[b] = NoWord
  BY <1>3 DEF Taken
<1>5. ASSUME NEW u \in S \cup {n}, IsLast(u, S \cup {n}, ws)
      PROVE  w[LetterAt(ws, u)] = ValueAt(d, ws, u)
  <2>1. CASE u = n
    BY <1>3, <2>1
  <2>2. CASE u \in S
    <3>1. LetterAt(ws, n) # LetterAt(ws, u)
      BY <1>5, <2>2 DEF IsLast
    <3>2. IsLast(u, S, ws)
      BY <1>5 DEF IsLast
    <3>3. v[LetterAt(ws, u)] = ValueAt(d, ws, u)
      BY <2>2, <3>2 DEF Taken
    <3> QED
      BY <1>3, <2>2, <3>1, <3>3
  <2> QED
    BY <2>1, <2>2
<1>6. Taken(S \cup {n}, g \cup {LetterAt(ws, n)}, w, d, ws)
  BY <1>1, <1>2, <1>4, <1>5 DEF Taken
<1> QED
  BY <1>6 DEF w

\* Where the options stop: at a word that is none, at the end, or after --.
Stops(ws, c, e) ==
  \/ e = c /\ (c <= Len(ws) => ~IsOption(ws[c]))
  \/ e = c + 1 /\ c <= Len(ws) /\ ws[c] = TwoDashes

\* What a word is when internal_getopt comes to it.
LEMMA RoleHere ==
  ASSUME NEW d, NEW ws \in Seq(Seq(Byte)), NEW c \in 1..Len(ws), Scanned(d, ws, c, 2)
  PROVE  /\ ~IsOption(ws[c]) => Roles(d, ws)[c] = "operand"
         /\ ws[c] = TwoDashes => Roles(d, ws)[c] = "dashes"
         /\ LetterH \notin d.opts /\ ws[c] = Help => Roles(d, ws)[c] = "letters"
<1>1. Len(ws) \in Nat /\ c - 1 \in 0..Len(ws)
  OBVIOUS
<1>2. Roles(d, ws)[c] = RoleAfter(d, ws[c], Roles(d, ws)[c - 1])
  BY <1>1, RolesAre
<1>3. Roles(d, ws)[c - 1] \notin {"dashes", "operand", "wants"}
  <2>1. CASE c = 1
    BY <2>1, <1>1, RolesAre
  <2>2. CASE c # 1
    <3>1. c - 1 \in 1..(c - 1)
      BY <2>2
    <3> QED
      BY <3>1 DEF Scanned
  <2> QED
    BY <2>1, <2>2
<1>4. IsOption(TwoDashes) /\ IsOption(Help) /\ Help # TwoDashes
  BY DEF IsOption, TwoDashes, Help
<1>5. LetterH \notin d.opts => ~Wants(d, Help)
  BY DEF Wants, Help
<1> QED
  BY <1>2, <1>3, <1>4, <1>5 DEF RoleAfter

\* When the options end, all of them are read, and what is left is the operands.
LEMMA OptionsRead ==
  ASSUME NEW d, NEW ws \in Seq(Seq(Byte)), NEW c, NEW e, NEW g, NEW v,
         Scanned(d, ws, c, 2), Stops(ws, c, e), LetterH \notin d.flags \cup d.opts,
         Taken(PastIn(d, ws, c, 2), g, v, d, ws)
  PROVE  /\ Read(d, ws, g, v)
         /\ e \in 1..(Len(ws) + 1) /\ SubSeq(ws, e, Len(ws)) = Operands(d, ws)
<1>1. /\ Len(ws) \in Nat /\ c \in 1..(Len(ws) + 1) /\ Roles(d, ws)[c - 1] # "wants"
      /\ \A k \in 1..(c - 1) : /\ Roles(d, ws)[k] \notin {"dashes", "operand"}
                               /\ Roles(d, ws)[k] = "letters" => ws[k] # Help
  BY DEF Scanned
<1>2. c \in Nat /\ 1 <= c /\ c <= Len(ws) + 1 /\ \A k \in 1..Len(ws) : k \in Nat /\ (k < c => k \in 1..(c - 1))
  BY <1>1
<1>3. \/ e = c /\ (c <= Len(ws) => Roles(d, ws)[c] = "operand")
      \/ e = c + 1 /\ c <= Len(ws) /\ Roles(d, ws)[c] = "dashes"
  <2>1. c <= Len(ws) => c \in 1..Len(ws)
    BY <1>2
  <2> QED
    BY <2>1, RoleHere DEF Stops
<1>4. \A k \in 1..Len(ws) : k > c => Roles(d, ws)[k] = "operand"
  <2>1. ASSUME NEW k \in 1..Len(ws), k > c PROVE Roles(d, ws)[k] = "operand"
    <3>1. c \in 1..Len(ws) /\ k \in (c + 1)..Len(ws)
      BY <1>1, <1>2, <2>1
    <3>2. Roles(d, ws)[c] \in {"dashes", "operand"}
      BY <1>3, <3>1
    <3> QED
      BY <1>1, <3>1, <3>2, OperandsLast
  <2> QED
    BY <2>1
<1>5. e \in 1..(Len(ws) + 1) /\ e - 1 \in 0..Len(ws) /\ (e - 1) + 1 = e
  BY <1>1, <1>2, <1>3
<1>6. \A k \in 1..Len(ws) : Roles(d, ws)[k] # "operand" <=> k <= e - 1
  <2>1. ASSUME NEW k \in 1..Len(ws) PROVE Roles(d, ws)[k] # "operand" <=> k <= e - 1
    <3>1. CASE k < c
      <4>1. Roles(d, ws)[k] # "operand"
        BY <1>1, <1>2, <3>1
      <4>2. k <= e - 1
        BY <1>2, <1>3, <3>1
      <4> QED
        BY <4>1, <4>2
    <3>2. CASE k > c
      <4>1. ~(k <= e - 1)
        BY <1>2, <1>3, <3>2
      <4> QED
        BY <1>4, <3>2, <4>1
    <3>3. CASE k = c
      <4>1. c <= Len(ws) /\ (e = c => ~(k <= e - 1)) /\ (e = c + 1 => k <= e - 1)
        BY <1>2, <3>3
      <4> QED
        BY <1>3, <3>3, <4>1
    <3> QED
      BY <1>2, <3>1, <3>2, <3>3
  <2> QED
    BY <2>1
<1>7. SubSeq(ws, e, Len(ws)) = Operands(d, ws)
  BY <1>5, <1>6, OperandsAre
<1>8. \A k \in 1..Len(ws) : Roles(d, ws)[k] \in {"wants", "letters"} => k < c
  <2>1. ASSUME NEW k \in 1..Len(ws), ~(k < c) PROVE Roles(d, ws)[k] \in {"dashes", "operand"}
    <3>1. k = c \/ k > c
      BY <1>2, <2>1
    <3>2. c <= Len(ws)
      BY <1>1, <1>2, <2>1
    <3> QED
      BY <1>3, <1>4, <3>1, <3>2
  <2> QED
    BY <2>1
<1>9. PastIn(d, ws, c, 2) = Used(d, ws)
  <2>1. \A u \in Used(d, ws) : Before(u, c, 2)
    BY <1>8, UsedAre DEF Before
  <2> QED
    BY <2>1 DEF PastIn
<1>10. Roles(d, ws)[Len(ws)] # "wants"
  <2>1. CASE c = Len(ws) + 1
    BY <1>1, <2>1
  <2>2. CASE c # Len(ws) + 1
    <3>1. Len(ws) \in 1..Len(ws) /\ ~(Len(ws) < c)
      BY <1>1, <1>2, <2>2
    <3> QED
      BY <1>8, <3>1
  <2> QED
    BY <2>1, <2>2
<1>11. ~AsksHelp(d, ws)
  <2>1. \A u \in Used(d, ws) : LetterAt(ws, u) # LetterH
    BY <1>9 DEF Taken, Known
  <2>2. DOMAIN ws = 1..Len(ws)
    OBVIOUS
  <2>3. \A k \in 1..Len(ws) : Roles(d, ws)[k] = "letters" => ws[k] # Help
    BY <1>1, <1>2, <1>8
  <2> QED
    BY <2>1, <2>2, <2>3 DEF AsksHelp
<1> QED
  BY <1>5, <1>7, <1>9, <1>10, <1>11 DEF Read

\* What the positionals are bound to is a list cut in two.
LEMMA Cut ==
  ASSUME NEW S, NEW l \in Seq(S), NEW b \in 0..Len(l)
  PROVE  /\ SubSeq(l, 1, b) \in Seq(S) /\ SubSeq(l, b + 1, Len(l)) \in Seq(S)
         /\ Len(SubSeq(l, 1, b)) = b
         /\ SubSeq(l, 1, b) \o SubSeq(l, b + 1, Len(l)) = l
<1>1. SubSeq(l, 1, b) \in Seq(S) /\ Len(SubSeq(l, 1, b)) = b /\ SubSeq(l, b + 1, Len(l)) \in Seq(S)
  OBVIOUS
<1>2. /\ 1 \in 1..(Len(l) + 1) /\ b \in (1 - 1)..Len(l) /\ Len(l) \in b..Len(l)
  OBVIOUS
<1>3. SubSeq(l, 1, b) \o SubSeq(l, b + 1, Len(l)) = SubSeq(l, 1, Len(l))
  BY <1>2, ConcatAdjacentSubSeq
<1> QED
  BY <1>1, <1>3, SubSeqFull

-----------------------------------------------------------------------------
(* Arguments: the steps of a parse. *)

\* The statics of internal_getopt are numbers.
Numbers == getopt.cur \in Nat /\ getopt.sp \in Nat /\ getopt.end \in Nat

\* SubCommandCallerArgs declares one positional and a rest of any words.
LEMMA OuterDeclares ==
  /\ Outer \in Declarations /\ Len(Outer.need) = 1
  /\ LetterH \notin Outer.flags \cup Outer.opts /\ Outer.flags \cap Outer.opts = {}
<1>1. "word" \in Takes
  BY DEF Takes
<1>2. Outer \in Declarations
  <2> DEFINE v == [b \in Byte |-> "word"]
             F == [Byte -> Takes]
             S == Seq(Takes)
             one == <<"word">>
             no == <<>>
  <2>1. v \in F
    BY <1>1
  <2>2. one \in S /\ no \in S
    BY <1>1
  <2> HIDE DEF v, F, S, one, no
  <2>3. [flags |-> {}, opts |-> {}, value |-> v, need |-> one, may |-> no, rest |-> "word", apart |-> {}]
          \in [flags : SUBSET Byte, opts : SUBSET Byte, value : F,
               need : S, may : S, rest : Takes \cup {"none"}, apart : SUBSET Byte]
    BY <1>1, <2>1, <2>2
  <2> QED
    BY <2>3 DEF Outer, Declarations, v, F, S, one, no
<1>3. Outer.need = <<"word">> /\ Outer.flags = {} /\ Outer.opts = {}
  BY DEF Outer
<1> QED
  BY <1>2, <1>3

\* A parse that begins has read nothing.
LEMMA ParseBegins ==
  ASSUME NEW d \in Declarations, LetterH \notin d.flags \cup d.opts, d.flags \cap d.opts = {},
         NEW ws \in Seq(Seq(Byte)), Parse(d, ws)
  PROVE  Reading'
<1>1. /\ declared' = d /\ words' = ws /\ getopt' = StartOfList
      /\ given' = {} /\ values' = [b \in Byte |-> NoWord] /\ operands' = <<>> /\ rest' = <<>>
      /\ outcome' = "none" /\ step' = "options"
  BY DEF Parse, ResetGetopt
<1>2. getopt' = [cur |-> 1, sp |-> 2, end |-> 0] /\ getopt'.cur = 1 /\ getopt'.sp = 2
  BY <1>1 DEF StartOfList
<1>3. ArgsTyped'
  <2>1. values' \in [Byte -> Seq(Byte)]
    BY <1>1 DEF NoWord
  <2>2. getopt' \in [cur : Nat, sp : Nat, end : Nat]
    BY <1>2
  <2> QED
    BY <1>1, <2>1, <2>2 DEF ArgsTyped
<1>4. Scanned(d, ws, 1, 2)
  <2>1. Len(ws) \in Nat /\ 1 \in 1..(Len(ws) + 1) /\ 1 - 1 = 0 /\ 1..(1 - 1) = {}
    OBVIOUS
  <2>2. Roles(d, ws)[0] = "value"
    BY <2>1, RolesAre
  <2> QED
    BY <2>1, <2>2 DEF Scanned
<1>5. PastIn(d, ws, 1, 2) = {}
  <2>1. ASSUME NEW u \in Used(d, ws) PROVE ~Before(u, 1, 2)
    <3>1. u[1] \in 1..Len(ws) /\ u[2] \in 2..Len(ws[u[1]])
      BY UsedAre
    <3>2. ~(u[1] < 1) /\ ~(u[2] < 2)
      BY <3>1
    <3> QED
      BY <3>2 DEF Before
  <2> QED
    BY <2>1 DEF PastIn
<1>6. Taken({}, {}, values', d, ws)
  BY <1>1 DEF Taken
<1>7. Scanning'
  BY <1>1, <1>2, <1>4, <1>5, <1>6 DEF Scanning
<1> QED
  BY <1>1, <1>3, <1>7 DEF Reading, Filling, Filled, Failed

\* At a letter.
LEMMA LetterHere ==
  ASSUME ArgsTyped, Scanning, step = "options", AtOption
  PROVE  /\ Numbers /\ At(declared, words, getopt.cur, getopt.sp)
         /\ <<getopt.cur, getopt.sp>> \in Used(declared, words)
         /\ LetterAt(words, <<getopt.cur, getopt.sp>>) = Letter /\ Letter \in Byte
         /\ words[getopt.cur][getopt.sp] = Letter
<1>1. Numbers /\ words \in Seq(Seq(Byte))
  BY DEF ArgsTyped, Numbers
<1>2. At(declared, words, getopt.cur, getopt.sp)
  BY DEF At, AtOption, Scanning, Here, Between
<1>3. words[getopt.cur][getopt.sp] = Letter
  BY DEF Letter, Here
<1>4. /\ <<getopt.cur, getopt.sp>> \in Used(declared, words)
      /\ LetterAt(words, <<getopt.cur, getopt.sp>>) = words[getopt.cur][getopt.sp]
      /\ words[getopt.cur][getopt.sp] \in Byte
  <2>1. words[getopt.cur][getopt.sp] \in Byte
    BY <1>1, <1>2, AtLetter
  <2> QED
    <3>1. /\ <<getopt.cur, getopt.sp>> \in Used(declared, words)
          /\ LetterAt(words, <<getopt.cur, getopt.sp>>) = words[getopt.cur][getopt.sp]
      <4>1. LetterAt(words, <<getopt.cur, getopt.sp>>) = words[getopt.cur][getopt.sp]
        BY DEF LetterAt
      <4>2. <<getopt.cur, getopt.sp>> \in Used(declared, words)
        <5> DEFINE c == getopt.cur
                   s == getopt.sp
        <5>1. words \in Seq(Seq(Byte)) /\ At(declared, words, c, s)
          BY <1>1, <1>2
        <5> HIDE DEF c, s
        <5>2. <<c, s>> \in Used(declared, words)
          BY <5>1, AtUsed
        <5> QED
          BY <5>2 DEF c, s
      <4> QED
        BY <4>1, <4>2
    <3> QED
      BY <2>1, <3>1
<1> QED
  BY <1>1, <1>2, <1>3, <1>4

\* The value of the option is what the words say it is.
LEMMA ValueHere ==
  ASSUME ArgsTyped, Scanning, AtValue, HasValue
  PROVE  Value = ValueAt(declared, words, <<getopt.cur, getopt.sp>>) /\ Value \in Seq(Byte)
<1>1. /\ step = "options" /\ AtOption /\ Letter \in declared.opts
      /\ Attached <=> getopt.sp < Len(words[getopt.cur])
  BY DEF AtValue, Attached, Here
<1>2. /\ Numbers /\ At(declared, words, getopt.cur, getopt.sp)
      /\ LetterAt(words, <<getopt.cur, getopt.sp>>) = Letter /\ words \in Seq(Seq(Byte))
  BY <1>1, LetterHere DEF ArgsTyped
<1>3. getopt.cur \in 1..Len(words) /\ words[getopt.cur] \in Seq(Byte)
  BY <1>2, AtLetter
<1>4. CASE Attached
  <2>1. Value = SubSeq(words[getopt.cur], getopt.sp + 1, Len(words[getopt.cur]))
    BY <1>4 DEF Value, Here
  <2>2. Value \in Seq(Byte)
    BY <1>2, <1>3, <2>1 DEF Numbers
  <2>3. Value = ValueAt(declared, words, <<getopt.cur, getopt.sp>>)
    BY <1>1, <1>2, <1>4, <2>1 DEF ValueAt
  <2> QED
    BY <2>2, <2>3
<1>5. CASE ~Attached
  <2>1. Value = words[getopt.cur + 1] /\ getopt.cur < Len(words)
    BY <1>5 DEF Value, HasValue
  <2>2. Value \in Seq(Byte)
    <3>1. getopt.cur + 1 \in 1..Len(words)
      BY <1>2, <1>3, <2>1 DEF Numbers
    <3> QED
      BY <1>2, <2>1, <3>1
  <2>3. Value = ValueAt(declared, words, <<getopt.cur, getopt.sp>>)
    BY <1>1, <1>2, <1>5, <2>1 DEF ValueAt
  <2> QED
    BY <2>2, <2>3
<1> QED
  BY <1>4, <1>5

\* Where internal_getopt goes on.
Statics == [cur : Nat, sp : Nat, end : Nat]

LEMMA OnwardGoes ==
  ASSUME ArgsTyped
  PROVE  /\ Onward \in Statics
         /\ getopt.sp < Len(Here) => Onward.cur = getopt.cur /\ Onward.sp = getopt.sp + 1
         /\ ~(getopt.sp < Len(Here)) => Onward.cur = getopt.cur + 1 /\ Onward.sp = 2
<1>1. getopt \in Statics
  BY DEF ArgsTyped, Statics
<1>2. CASE getopt.sp < Len(Here)
  <2>1. Onward = [getopt EXCEPT !.sp = getopt.sp + 1]
    BY <1>2 DEF Onward
  <2> QED
    BY <1>1, <1>2, <2>1 DEF Statics
<1>3. CASE ~(getopt.sp < Len(Here))
  <2>1. Onward = [getopt EXCEPT !.cur = getopt.cur + 1, !.sp = 2]
    BY <1>3 DEF Onward
  <2>2. Onward = [cur |-> getopt.cur + 1, sp |-> 2, end |-> getopt.end]
    BY <1>1, <2>1 DEF Statics
  <2>3. getopt.cur \in Nat /\ getopt.end \in Nat
    BY <1>1 DEF Statics
  <2>4. getopt.cur + 1 \in Nat /\ 2 \in Nat
    BY <2>3
  <2> QED
    BY <1>3, <2>2, <2>3, <2>4 DEF Statics
<1> QED
  BY <1>2, <1>3

LEMMA PastValueGoes ==
  ASSUME ArgsTyped
  PROVE  /\ PastValue \in Statics /\ PastValue.sp = 2
         /\ Attached => PastValue.cur = getopt.cur + 1
         /\ ~Attached => PastValue.cur = getopt.cur + 2
<1>1. getopt \in Statics
  BY DEF ArgsTyped, Statics
<1>2. CASE Attached
  <2>1. PastValue = [getopt EXCEPT !.cur = getopt.cur + 1, !.sp = 2]
    BY <1>2 DEF PastValue
  <2>2. PastValue = [cur |-> getopt.cur + 1, sp |-> 2, end |-> getopt.end]
    BY <1>1, <2>1 DEF Statics
  <2>3. getopt.cur \in Nat /\ getopt.end \in Nat
    BY <1>1 DEF Statics
  <2>4. getopt.cur + 1 \in Nat /\ 2 \in Nat
    BY <2>3
  <2> QED
    BY <1>2, <2>2, <2>3, <2>4 DEF Statics
<1>3. CASE ~Attached
  <2>1. PastValue = [getopt EXCEPT !.cur = getopt.cur + 2, !.sp = 2]
    BY <1>3 DEF PastValue
  <2>2. PastValue = [cur |-> getopt.cur + 2, sp |-> 2, end |-> getopt.end]
    BY <1>1, <2>1 DEF Statics
  <2>3. getopt.cur \in Nat /\ getopt.end \in Nat
    BY <1>1 DEF Statics
  <2>4. getopt.cur + 2 \in Nat /\ 2 \in Nat
    BY <2>3
  <2> QED
    BY <1>3, <2>2, <2>3, <2>4 DEF Statics
<1> QED
  BY <1>2, <1>3

LEMMA OptionsEndKeeps ==
  ASSUME Reading, OptionsEnd
  PROVE  Reading'
<1>1. PICK e : /\ getopt' = [getopt EXCEPT !.end = e] /\ Stops(words, getopt.cur, e)
               /\ getopt.sp = 2 /\ step = "options" /\ step' = "operands"
               /\ declared' = declared /\ words' = words /\ given' = given /\ values' = values
               /\ operands' = operands /\ rest' = rest /\ outcome' = outcome
  BY DEF OptionsEnd, Stops, Here, Between, call, fields
<1>2. /\ Read(declared, words, given, values)
      /\ e \in 1..(Len(words) + 1) /\ SubSeq(words, e, Len(words)) = Operands(declared, words)
  <2>1. /\ words \in Seq(Seq(Byte)) /\ LetterH \notin declared.flags \cup declared.opts
        /\ Scanned(declared, words, getopt.cur, 2)
        /\ Taken(PastIn(declared, words, getopt.cur, 2), given, values, declared, words)
    BY <1>1 DEF Reading, ArgsTyped, Scanning
  <2> QED
    BY <1>1, <2>1, OptionsRead
<1>3. getopt \in Statics /\ e \in Nat /\ outcome = "none"
  BY <1>1, <1>2 DEF Reading, ArgsTyped, Statics
<1>4. getopt' \in Statics /\ getopt'.end = e
  BY <1>1, <1>3 DEF Statics
<1>5. ArgsTyped'
  BY <1>1, <1>4 DEF Reading, ArgsTyped, Statics
<1>6. Filling'
  BY <1>1, <1>2, <1>4 DEF Filling
<1> QED
  BY <1>1, <1>3, <1>5, <1>6 DEF Reading, Scanning, Filled, Failed

\* A parse that fails says what is wrong.
LEMMA FailsRightly ==
  ASSUME ArgsTyped, getopt' \in Statics, UNCHANGED <<call, fields>>, step' = "done",
         outcome' \in {"usage", "help"},
         outcome' = "usage" => ~Fits(declared, words),
         outcome' = "help" => AsksHelp(declared, words)
  PROVE  Reading'
<1>1. declared' = declared /\ words' = words /\ given' = given /\ values' = values
      /\ operands' = operands /\ rest' = rest
  BY DEF call, fields
<1>2. ArgsTyped'
  BY <1>1 DEF ArgsTyped, Statics
<1>3. Failed'
  BY <1>1 DEF Failed
<1> QED
  BY <1>2, <1>3 DEF Reading, Scanning, Filling, Filled

LEMMA HelpAskedKeeps ==
  ASSUME Reading, HelpAsked
  PROVE  Reading'
<1>1. ArgsTyped /\ Scanning /\ step = "options" /\ words \in Seq(Seq(Byte)) /\ getopt \in Statics
      /\ step' = "done" /\ outcome' = "help" /\ UNCHANGED <<call, fields>>
  BY DEF Reading, ArgsTyped, Statics, HelpAsked, Ends
<1>2. CASE Between /\ getopt.cur <= Len(words) /\ Here = Help /\ getopt' = [getopt EXCEPT !.end = getopt.cur]
  <2>1. getopt' \in Statics
    BY <1>1, <1>2 DEF Statics
  <2>2. AsksHelp(declared, words)
    <3>1. Scanned(declared, words, getopt.cur, 2) /\ words[getopt.cur] = Help
      BY <1>1, <1>2 DEF Scanning, Between, Here
    <3>2. getopt.cur \in 1..Len(words) /\ LetterH \notin declared.opts
      BY <1>1, <1>2, <3>1 DEF Scanned, ArgsTyped
    <3>3. Roles(declared, words)[getopt.cur] = "letters"
      BY <1>1, <3>1, <3>2, RoleHere
    <3>4. getopt.cur \in DOMAIN words
      BY <1>1, <3>2
    <3> QED
      BY <3>1, <3>3, <3>4 DEF AsksHelp
  <2> QED
    BY <1>1, <2>1, <2>2, FailsRightly
<1>3. CASE AtOption /\ Letter = LetterH /\ getopt' = Onward
  <2>1. getopt' \in Statics
    BY <1>1, <1>3, OnwardGoes
  <2>2. AsksHelp(declared, words)
    BY <1>1, <1>3, LetterHere DEF AsksHelp
  <2> QED
    BY <1>1, <2>1, <2>2, FailsRightly
<1> QED
  BY <1>2, <1>3 DEF HelpAsked

LEMMA UnknownOptionKeeps ==
  ASSUME Reading, UnknownOption
  PROVE  Reading'
<1>1. ArgsTyped /\ Scanning /\ step = "options" /\ AtOption /\ Letter \notin declared.flags \cup declared.opts
      /\ getopt' = Onward /\ step' = "done" /\ outcome' = "usage" /\ UNCHANGED <<call, fields>>
  BY DEF Reading, UnknownOption, Ends, Letters
<1>2. getopt' \in Statics
  BY <1>1, OnwardGoes
<1>3. ~Fits(declared, words)
  BY <1>1, LetterHere DEF Fits
<1> QED
  BY <1>1, <1>2, <1>3, FailsRightly

LEMMA MissingValueKeeps ==
  ASSUME Reading, MissingValue
  PROVE  Reading'
<1>1. ArgsTyped /\ Scanning /\ step = "options" /\ AtOption /\ Letter \in declared.opts
      /\ ~(getopt.sp < Len(words[getopt.cur])) /\ ~(getopt.cur < Len(words))
      /\ getopt' = getopt /\ step' = "done" /\ outcome' = "usage" /\ UNCHANGED <<call, fields>>
  BY DEF Reading, MissingValue, AtValue, HasValue, Attached, Here, Ends, fields
<1>2. getopt' \in Statics /\ words \in Seq(Seq(Byte))
  BY <1>1 DEF ArgsTyped, Statics
<1>3. At(declared, words, getopt.cur, getopt.sp) /\ words[getopt.cur][getopt.sp] \in declared.opts
  BY <1>1, LetterHere
<1>4. Roles(declared, words)[Len(words)] = "wants"
  BY <1>1, <1>2, <1>3, OptionNext
<1>5. ~Fits(declared, words)
  BY <1>4 DEF Fits
<1> QED
  BY <1>1, <1>2, <1>5, FailsRightly

LEMMA BadValueKeeps ==
  ASSUME Reading, BadValue
  PROVE  Reading'
<1>1. ArgsTyped /\ Scanning /\ AtValue /\ HasValue /\ step = "options" /\ AtOption /\ Letter \in declared.opts
      /\ ~Converts(declared.value[Letter], Value)
      /\ getopt' = PastValue /\ step' = "done" /\ outcome' = "usage" /\ UNCHANGED <<call, fields>>
  BY DEF Reading, BadValue, AtValue, Ends
<1>2. getopt' \in Statics
  BY <1>1, PastValueGoes
<1>3. Value = ValueAt(declared, words, <<getopt.cur, getopt.sp>>)
  BY <1>1, ValueHere
<1>4. ~Fits(declared, words)
  BY <1>1, <1>3, LetterHere DEF Fits
<1> QED
  BY <1>1, <1>2, <1>4, FailsRightly

LEMMA FlagKeeps ==
  ASSUME Reading, Flag
  PROVE  Reading'
<1> DEFINE c == getopt.cur
           s == getopt.sp
           n == <<c, s>>
           past == PastIn(declared, words, c, s)
<1>1. /\ ArgsTyped /\ Scanning /\ step = "options" /\ AtOption /\ Letter \in declared.flags
      /\ given' = given \cup {Letter} /\ getopt' = Onward
      /\ declared' = declared /\ words' = words /\ step' = step /\ values' = values
      /\ operands' = operands /\ rest' = rest /\ outcome' = outcome
  BY DEF Reading, Flag, call
<1>2. words \in Seq(Seq(Byte)) /\ Letter \notin declared.opts /\ outcome = "none"
  BY <1>1 DEF ArgsTyped
<1>3. At(declared, words, c, s) /\ LetterAt(words, n) = Letter /\ Letter \in Byte /\ words[c][s] = Letter
      /\ c \in Nat /\ s \in Nat
  BY <1>1, LetterHere DEF Numbers
<1>4. Taken(past, given, values, declared, words)
  BY <1>1 DEF Scanning
<1>5. Onward \in Statics
      /\ (s < Len(words[c]) => Onward.cur = c /\ Onward.sp = s + 1)
      /\ (~(s < Len(words[c])) => Onward.cur = c + 1 /\ Onward.sp = 2)
  BY <1>1, OnwardGoes DEF Here
<1> HIDE DEF c, s, n
<1>6. Taken(past \cup {n}, given', values', declared, words)
  <2> HIDE DEF past
  <2> QED
    BY <1>1, <1>2, <1>3, <1>4, TakenFlag
<1>7. Scanned(declared, words, getopt'.cur, getopt'.sp)
      /\ PastIn(declared, words, getopt'.cur, getopt'.sp) = past \cup {n}
  <2>1. words[c][s] \notin declared.opts
    BY <1>2, <1>3
  <2>2. CASE s < Len(words[c])
    <3>1. NextIs(declared, words, c, s, c, s + 1)
      BY <1>2, <1>3, <2>1, <2>2, FlagNext
    <3>2. getopt'.cur = c /\ getopt'.sp = s + 1
      BY <1>1, <1>5, <2>2
    <3> QED
      BY <3>1, <3>2 DEF n, NextIs
  <2>3. CASE ~(s < Len(words[c]))
    <3>1. NextIs(declared, words, c, s, c + 1, 2)
      BY <1>2, <1>3, <2>1, <2>3, FlagNext
    <3>2. getopt'.cur = c + 1 /\ getopt'.sp = 2
      BY <1>1, <1>5, <2>3
    <3> QED
      BY <3>1, <3>2 DEF n, NextIs
  <2> QED
    BY <2>2, <2>3
<1>8. Scanning'
  <2> HIDE DEF past
  <2> QED
    BY <1>1, <1>6, <1>7 DEF Scanning
<1>9. ArgsTyped'
  <2>1. given' \subseteq Byte
    BY <1>1, <1>3 DEF ArgsTyped
  <2> QED
    BY <1>1, <1>5, <2>1 DEF ArgsTyped, Statics
<1> QED
  BY <1>1, <1>2, <1>8, <1>9 DEF Reading, Filling, Filled, Failed

LEMMA OptionKeeps ==
  ASSUME Reading, Option
  PROVE  Reading'
<1> DEFINE c == getopt.cur
           s == getopt.sp
           n == <<c, s>>
           past == PastIn(declared, words, c, s)
<1>1. /\ ArgsTyped /\ Scanning /\ AtValue /\ HasValue
      /\ step = "options" /\ AtOption /\ Letter \in declared.opts
      /\ Converts(declared.value[Letter], Value)
      /\ given' = given \cup {Letter} /\ values' = [values EXCEPT ![Letter] = Value]
      /\ getopt' = PastValue
      /\ declared' = declared /\ words' = words /\ step' = step
      /\ operands' = operands /\ rest' = rest /\ outcome' = outcome
  BY DEF Reading, Option, AtValue, call
<1>2. words \in Seq(Seq(Byte)) /\ outcome = "none" /\ values \in [Byte -> Seq(Byte)]
  BY <1>1 DEF ArgsTyped
<1>3. At(declared, words, c, s) /\ LetterAt(words, n) = Letter /\ Letter \in Byte /\ words[c][s] = Letter
      /\ c \in Nat /\ s \in Nat
  BY <1>1, LetterHere DEF Numbers
<1>4. Taken(past, given, values, declared, words)
  BY <1>1 DEF Scanning
<1>5. PastValue \in Statics /\ PastValue.sp = 2
      /\ (s < Len(words[c]) => PastValue.cur = c + 1)
      /\ (~(s < Len(words[c])) => PastValue.cur = c + 2 /\ c < Len(words))
  BY <1>1, PastValueGoes DEF Here, Attached, HasValue
<1>6. Value = ValueAt(declared, words, n) /\ Value \in Seq(Byte)
  BY <1>1, ValueHere
<1> HIDE DEF c, s
<1>7. \A u \in past : LetterAt(words, u) \in Byte
  BY <1>2, UsedAre DEF PastIn
<1>8. \A u \in past : LetterAt(words, u) = LetterAt(words, n) => ~(n[1] <= u[1])
  <2>1. ASSUME NEW u \in past, LetterAt(words, u) = LetterAt(words, n) PROVE ~(c <= u[1])
    <3>1. u \in Used(declared, words) /\ Before(u, c, s)
      BY <2>1 DEF PastIn
    <3>2. u[1] \in 1..Len(words) /\ u[2] \in 2..Len(words[u[1]])
      BY <1>2, <3>1, UsedAre
    <3>3. c \in 1..Len(words) /\ s \in 2..Len(words[c]) /\ Len(words[c]) \in Nat
          /\ \A l \in 2..(s - 1) : words[c][l] \notin declared.opts
      BY <1>2, <1>3, AtLetter
    <3>4. ~(u[1] = c /\ u[2] < s)
      <4>1. ASSUME u[1] = c, u[2] < s PROVE FALSE
        <5>1. u[2] \in 2..(s - 1)
          BY <3>2, <3>3, <4>1
        <5>2. LetterAt(words, u) = words[c][u[2]]
          BY <4>1 DEF LetterAt
        <5> QED
          BY <1>1, <1>3, <2>1, <3>3, <5>1, <5>2
      <4> QED
        BY <4>1
    <3>5. u[1] < c
      BY <3>1, <3>4 DEF Before
    <3> QED
      BY <3>2, <3>3, <3>5
  <2>2. n[1] = c
    OBVIOUS
  <2> QED
    BY <2>1, <2>2
<1> HIDE DEF n
<1>9. Taken(past \cup {n}, given', values', declared, words)
  <2> HIDE DEF past
  <2>1. /\ LetterAt(words, n) \in declared.opts /\ LetterAt(words, n) \in Byte
        /\ Converts(declared.value[LetterAt(words, n)], ValueAt(declared, words, n))
    BY <1>1, <1>3, <1>6
  <2>2. /\ given' = given \cup {LetterAt(words, n)}
        /\ values' = [values EXCEPT ![LetterAt(words, n)] = ValueAt(declared, words, n)]
    BY <1>1, <1>3, <1>6
  <2>3. Taken(past \cup {n}, given \cup {LetterAt(words, n)},
              [values EXCEPT ![LetterAt(words, n)] = ValueAt(declared, words, n)], declared, words)
    BY <1>2, <1>4, <1>7, <1>8, <2>1, TakenOption
  <2> QED
    BY <2>2, <2>3
<1>10. Scanned(declared, words, getopt'.cur, getopt'.sp)
       /\ PastIn(declared, words, getopt'.cur, getopt'.sp) = past \cup {n}
  <2>1. words[c][s] \in declared.opts
    BY <1>1, <1>3
  <2>2. CASE s < Len(words[c])
    <3>1. NextIs(declared, words, c, s, c + 1, 2)
      BY <1>2, <1>3, <1>5, <2>1, <2>2, OptionNext
    <3>2. getopt'.cur = c + 1 /\ getopt'.sp = 2
      BY <1>1, <1>5, <2>2
    <3> QED
      BY <3>1, <3>2 DEF n, NextIs
  <2>3. CASE ~(s < Len(words[c]))
    <3>1. NextIs(declared, words, c, s, c + 2, 2)
      BY <1>2, <1>3, <1>5, <2>1, <2>3, OptionNext
    <3>2. getopt'.cur = c + 2 /\ getopt'.sp = 2
      BY <1>1, <1>5, <2>3
    <3> QED
      BY <3>1, <3>2 DEF n, NextIs
  <2> QED
    BY <2>2, <2>3
<1>11. Scanning'
  <2> HIDE DEF past
  <2> QED
    BY <1>1, <1>9, <1>10 DEF Scanning
<1>12. ArgsTyped'
  <2>1. given' \subseteq Byte
    BY <1>1, <1>3 DEF ArgsTyped
  <2>2. values' \in [Byte -> Seq(Byte)]
    BY <1>1, <1>2, <1>3, <1>6
  <2> QED
    BY <1>1, <1>5, <2>1, <2>2 DEF ArgsTyped, Statics
<1> QED
  BY <1>1, <1>2, <1>11, <1>12 DEF Reading, Filling, Filled, Failed

LEMMA LeftOver ==
  ASSUME NEW S, NEW l \in Seq(S), NEW e \in 1..(Len(l) + 1)
  PROVE  SubSeq(l, e, Len(l)) \in Seq(S)
OBVIOUS

LEMMA BoundIs ==
  ASSUME NEW l \in Nat, NEW b \in 0..l, NEW n \in Nat, NEW t \in Nat, n <= t,
         b <= t, b = l \/ b = t
  PROVE  /\ \A k \in 1..l : k \in 1..b <=> k <= t
         /\ \A k \in 1..l : k \in (b + 1)..l <=> ~(k <= t)
         /\ l >= n => n <= b
         /\ 1..b \subseteq 1..l /\ (b + 1)..l \subseteq 1..l
OBVIOUS

\* The positionals of a structure are its required ones and then its optional ones.
LEMMA AreTakes ==
  ASSUME NEW d \in Declarations
  PROVE  Len(d.need) \in Nat /\ Len(Positionals(d)) \in Nat /\ Len(d.need) <= Len(Positionals(d))
<1>1. d.need \in Seq(Takes) /\ d.may \in Seq(Takes)
  BY DEF Declarations
<1> DEFINE p == d.need
           q == d.may
<1> HIDE DEF p, q
<1>2. Len(p) \in Nat /\ Len(q) \in Nat /\ Len(p \o q) = Len(p) + Len(q)
  BY <1>1 DEF p, q
<1>3. Len(p) \in Nat /\ Len(p \o q) \in Nat /\ Len(p) <= Len(p \o q)
  <2> DEFINE a == Len(p)
             b == Len(q)
             c == Len(p \o q)
  <2>1. a \in Nat /\ b \in Nat /\ c = a + b
    BY <1>2
  <2> HIDE DEF a, b, c
  <2>2. a \in Nat /\ c \in Nat /\ a <= c
    BY <2>1
  <2> QED
    BY <2>2 DEF a, b, c
<1>4. Positionals(d) = p \o q /\ d.need = p
  BY DEF Positionals, p, q
<1> QED
  BY <1>3, <1>4

\* The positionals can be bound when the words fit what is declared, and then they are all the
\* words that are left, with the rest.
LEMMA Fills ==
  ASSUME Reading, step = "operands"
  PROVE  /\ Fillable <=> Fits(declared, words)
         /\ Bound \in 0..Len(Left) /\ (Fillable => Len(declared.need) <= Bound)
         /\ Left \in Seq(Seq(Byte)) /\ Left = Operands(declared, words)
<1>1. /\ Read(declared, words, given, values) /\ Left = Operands(declared, words)
      /\ declared \in Declarations /\ words \in Seq(Seq(Byte))
      /\ getopt.end \in 1..(Len(words) + 1)
  BY DEF Reading, ArgsTyped, Filling, Left
<1>2. Left \in Seq(Seq(Byte)) /\ Len(Left) \in Nat /\ DOMAIN Left = 1..Len(Left)
  <2>1. Left \in Seq(Seq(Byte))
    BY <1>1, LeftOver DEF Left
  <2> QED
    BY <2>1
<1> DEFINE n == Len(declared.need)
           t == Len(Positionals(declared))
<1>3. n \in Nat /\ t \in Nat /\ n <= t
  BY <1>1, AreTakes
<1>4. /\ \A u \in Used(declared, words) :
           /\ LetterAt(words, u) \in declared.flags \cup declared.opts
           /\ LetterAt(words, u) \in declared.opts
                => Converts(declared.value[LetterAt(words, u)], ValueAt(declared, words, u))
      /\ Roles(declared, words)[Len(words)] # "wants"
  BY <1>1 DEF Read, Taken, Known
<1>5. Bound \in 0..Len(Left) /\ Bound <= t /\ (Bound = Len(Left) \/ Bound = t)
  BY <1>2, <1>3 DEF Bound, Least
<1>6. /\ \A k \in 1..Len(Left) : k \in 1..Bound <=> k <= t
      /\ \A k \in 1..Len(Left) : k \in (Bound + 1)..Len(Left) <=> ~(k <= t)
      /\ Len(Left) >= n => n <= Bound
      /\ 1..Bound \subseteq 1..Len(Left) /\ (Bound + 1)..Len(Left) \subseteq 1..Len(Left)
  <2> DEFINE l == Len(Left)
             b == Bound
  <2>1. l \in Nat /\ b \in 0..l /\ n \in Nat /\ t \in Nat /\ n <= t /\ b <= t /\ (b = l \/ b = t)
    BY <1>2, <1>3, <1>5
  <2> HIDE DEF l, b, n, t
  <2>2. /\ \A k \in 1..l : k \in 1..b <=> k <= t
        /\ \A k \in 1..l : k \in (b + 1)..l <=> ~(k <= t)
        /\ l >= n => n <= b
        /\ 1..b \subseteq 1..l /\ (b + 1)..l \subseteq 1..l
    BY <2>1, BoundIs
  <2> QED
    BY <2>2 DEF l, b
<1> DEFINE most == \A k \in 1..Bound : Converts(Positionals(declared)[k], Left[k])
           others == \A k \in (Bound + 1)..Len(Left) : declared.rest # "none" /\ Converts(declared.rest, Left[k])
           all == \A k \in 1..Len(Left) : Suits(declared, k, Left[k])
<1>7. most /\ others <=> all
  <2>1. ASSUME NEW k \in 1..Len(Left)
        PROVE  Suits(declared, k, Left[k]) <=>
                 /\ k \in 1..Bound => Converts(Positionals(declared)[k], Left[k])
                 /\ k \in (Bound + 1)..Len(Left) => declared.rest # "none" /\ Converts(declared.rest, Left[k])
    BY <1>6 DEF Suits
  <2>2. all => most /\ others
    BY <1>6, <2>1
  <2>3. most /\ others => all
    BY <2>1
  <2> QED
    BY <2>2, <2>3
<1>8. Fits(declared, words) <=> Len(Left) >= n /\ all
  BY <1>1, <1>2, <1>4 DEF Fits
<1>9. Fillable <=> Len(Left) >= n /\ most /\ others
  BY DEF Fillable
<1> HIDE DEF most, others, all
<1>10. Fillable => n <= Bound
  BY <1>6, <1>9
<1> QED
  BY <1>1, <1>2, <1>5, <1>7, <1>8, <1>9, <1>10

LEMMA FillPositionalsKeeps ==
  ASSUME Reading, FillPositionals
  PROVE  Reading'
<1>1. /\ ArgsTyped /\ step = "operands" /\ Fillable
      /\ operands' = SubSeq(Left, 1, Bound) /\ rest' = SubSeq(Left, Bound + 1, Len(Left))
      /\ step' = "post"
      /\ declared' = declared /\ words' = words /\ getopt' = getopt /\ given' = given
      /\ values' = values /\ outcome' = outcome
      /\ Read(declared, words, given, values)
  BY DEF Reading, FillPositionals, call, Filling
<1>2. /\ Fits(declared, words) /\ Bound \in 0..Len(Left) /\ Len(declared.need) <= Bound
      /\ Left \in Seq(Seq(Byte)) /\ Left = Operands(declared, words)
  BY <1>1, Fills
<1>3. /\ operands' \in Seq(Seq(Byte)) /\ rest' \in Seq(Seq(Byte)) /\ Len(operands') = Bound
      /\ operands' \o rest' = Left
  BY <1>1, <1>2, Cut
<1>4. ArgsTyped'
  BY <1>1, <1>3 DEF ArgsTyped
<1>5. Len(operands') >= Len(declared.need)
  <2>1. Len(declared.need) \in Nat /\ Bound \in Int
    BY <1>1, <1>2, AreTakes DEF ArgsTyped
  <2> QED
    BY <1>2, <1>3, <2>1
<1>6. Filled'
  BY <1>1, <1>2, <1>3, <1>5 DEF Filled
<1>7. outcome = "none"
  BY <1>1 DEF ArgsTyped
<1> QED
  BY <1>1, <1>4, <1>6, <1>7 DEF Reading, Scanning, Filling, Failed

LEMMA FillFailsKeeps ==
  ASSUME Reading, FillFails
  PROVE  Reading'
<1>1. /\ ArgsTyped /\ step = "operands" /\ ~Fillable /\ getopt' = getopt
      /\ step' = "done" /\ outcome' = "usage" /\ UNCHANGED <<call, fields>>
  BY DEF Reading, FillFails, Ends
<1>2. getopt' \in Statics
  BY <1>1 DEF ArgsTyped, Statics
<1>3. ~Fits(declared, words)
  BY <1>1, Fills
<1> QED
  BY <1>1, <1>2, <1>3, FailsRightly

\* A parse that has succeeded is kept while its result is used.
LEMMA ResultKept ==
  ASSUME Reading, step \in {"post", "lookup"}, UNCHANGED <<call, getopt, fields>>,
         \/ step' = "lookup" /\ outcome' = "none"
         \/ step' = "done" /\ outcome' \in {"ok", "unknown"}
  PROVE  Reading'
<1>1. /\ declared' = declared /\ words' = words /\ given' = given /\ values' = values
      /\ operands' = operands /\ rest' = rest /\ getopt' = getopt
  BY DEF call, fields
<1>2. ArgsTyped'
  BY <1>1 DEF Reading, ArgsTyped
<1>3. Filled'
  BY <1>1 DEF Reading, Filled
<1> QED
  BY <1>2, <1>3 DEF Reading, Scanning, Filling, Failed

LEMMA Untouched ==
  ASSUME Reading, UNCHANGED <<step, call, getopt, fields, outcome>>
  PROVE  Reading'
<1>1. /\ declared' = declared /\ words' = words /\ given' = given /\ values' = values
      /\ operands' = operands /\ rest' = rest /\ getopt' = getopt /\ step' = step /\ outcome' = outcome
  BY DEF call, fields
<1> QED
  BY <1>1 DEF Reading, ArgsTyped, Scanning, Filling, Filled, Failed

LEMMA ReturnKeeps ==
  ASSUME Reading, Return
  PROVE  Reading'
<1>1. /\ step' = "idle" /\ outcome' = "none" /\ declared' = Outer /\ words' = <<>>
      /\ given' = {} /\ values' = [b \in Byte |-> NoWord] /\ operands' = <<>> /\ rest' = <<>>
      /\ getopt' = getopt
  BY DEF Return
<1>2. Outer \in Declarations /\ LetterH \notin Outer.flags \cup Outer.opts
      /\ Outer.flags \cap Outer.opts = {}
  BY OuterDeclares
<1>3. values' \in [Byte -> Seq(Byte)]
  BY <1>1 DEF NoWord
<1>4. ArgsTyped'
  BY <1>1, <1>2, <1>3 DEF Reading, ArgsTyped
<1> QED
  BY <1>1, <1>4 DEF Reading, Scanning, Filling, Filled, Failed

-----------------------------------------------------------------------------
(* Arguments: the call. *)

\* Which name a word means is the place of a name, and so of a handler.
LEMMA MeansHandler ==
  ASSUME names \in Tables, NEW w, Meaning(w) # None
  PROVE  Meaning(w) \in DOMAIN Handler
<1>1. Meaning(w) \in DOMAIN names
  BY DEF Meaning
<1> QED
  BY <1>1, ArgumentsAssumption

LEMMA DispatchKeeps ==
  ASSUME Reading, InStep, TableIInv, Dispatch
  PROVE  Reading' /\ InStep'
<1>1. step = "lookup" /\ phase = "ready" /\ found # None /\ Parse(Handler[found], rest) /\ UNCHANGED lookupVars
  BY DEF Dispatch
<1>2. word # <<>> /\ word' = word /\ phase' = "ready" /\ step' = "options"
  BY <1>1 DEF InStep, lookupVars, Parse
<1>3. found \in DOMAIN Handler
  <2>1. found = Meaning(word) /\ names \in Tables
    BY <1>1, <1>2 DEF TableIInv, Answered, TableTypeOK
  <2> QED
    BY <1>1, <2>1, MeansHandler
<1>4. /\ Handler[found] \in Declarations /\ LetterH \notin Handler[found].flags \cup Handler[found].opts
      /\ Handler[found].flags \cap Handler[found].opts = {} /\ rest \in Seq(Seq(Byte))
  BY <1>3, ArgumentsAssumption DEF Reading, ArgsTyped
<1>5. Reading'
  BY <1>1, <1>4, ParseBegins
<1>6. InStep'
  BY <1>2 DEF InStep, IsOuter
<1> QED
  BY <1>5, <1>6

LEMMA CallKeeps ==
  ASSUME Reading, InStep, NEW ws \in Calls, Call(ws)
  PROVE  Reading' /\ InStep'
<1>1. step = "idle" /\ phase = "ready" /\ Parse(Outer, ws) /\ UNCHANGED lookupVars
  BY DEF Call
<1>2. declared' = Outer /\ phase' = "ready" /\ step' = "options"
  BY <1>1 DEF lookupVars, Parse
<1>3. /\ Outer \in Declarations /\ LetterH \notin Outer.flags \cup Outer.opts
      /\ Outer.flags \cap Outer.opts = {} /\ ws \in Seq(Seq(Byte))
  BY ArgumentsAssumption, OuterDeclares
<1>4. Reading'
  BY <1>1, <1>3, ParseBegins
<1>5. InStep'
  BY <1>2 DEF InStep, IsOuter
<1> QED
  BY <1>4, <1>5

\* The name that is looked up is there: SubCommandCallerArgs requires it.
LEMMA PostLooksUp ==
  ASSUME Reading, InStep, Post
  PROVE  \E w \in Seq(Byte) : Lookup(w)
<1>1. step = "post" /\ declared = Outer /\ Lookup(operands[1])
  BY DEF Post, InStep
<1>2. operands \in Seq(Seq(Byte)) /\ Len(operands) >= 1
  <2>1. Len(operands) >= Len(declared.need) /\ operands \in Seq(Seq(Byte))
    BY <1>1 DEF Reading, ArgsTyped, Filled
  <2> QED
    BY <1>1, <2>1, OuterDeclares
<1>3. operands[1] \in Seq(Byte)
  BY <1>2
<1> QED
  BY <1>1, <1>3

LEMMA PostKeeps ==
  ASSUME Reading, InStep, Post
  PROVE  Reading' /\ InStep'
<1>1. step = "post" /\ step' = "lookup" /\ UNCHANGED <<call, getopt, fields, outcome>> /\ outcome = "none"
  BY DEF Post, Reading, ArgsTyped
<1>2. Reading'
  BY <1>1, ResultKept
<1>3. /\ phase' \in {"search", "ready", "panic"} /\ (phase' = "ready" => word' # <<>>)
  <2>1. /\ word' = operands[1]
        /\ phase' = IF word' = <<>> THEN "panic" ELSE IF Len(word') > Width THEN "ready" ELSE "search"
    BY DEF Post, Lookup
  <2> QED
    BY <2>1
<1>4. InStep'
  BY <1>1, <1>3 DEF InStep
<1> QED
  BY <1>2, <1>4

\* Steps of the table: it is built before the first call, and searched between the two parses.
LEMMA BuildTableKeeps ==
  ASSUME Reading, InStep, BuildTable
  PROVE  Reading' /\ InStep'
<1>1. UNCHANGED <<step, call, getopt, fields, outcome>> /\ step' = step /\ declared' = declared
  BY DEF BuildTable, call
<1>2. /\ phase \in {"sort", "shift"} /\ phase' \in {"sort", "shift", "ready", "panic"}
      /\ word' = word
  BY DEF BuildTable, Build, SortNext, Shift, Duplicate, Place, searching
<1>3. step = "idle"
  BY <1>2 DEF InStep
<1>4. InStep'
  BY <1>1, <1>2, <1>3 DEF InStep
<1> QED
  BY <1>1, <1>4, Untouched

LEMMA SearchTableKeeps ==
  ASSUME Reading, InStep, TableIInv, SearchTable
  PROVE  Reading' /\ InStep'
<1>1. UNCHANGED <<step, call, getopt, fields, outcome>> /\ step' = step /\ declared' = declared
  BY DEF SearchTable, call
<1>2. phase = "search" /\ phase' \in {"search", "ready"} /\ word' = word
  BY DEF SearchTable, Search, Halve, Decide
<1>3. step = "lookup"
  BY <1>2 DEF InStep, Reading, ArgsTyped
<1>4. word # <<>>
  BY <1>2 DEF TableIInv, Bracketed, Words
<1>5. InStep'
  BY <1>1, <1>2, <1>3, <1>4 DEF InStep
<1> QED
  BY <1>1, <1>5, Untouched

\* A step of the parse leaves the table alone.
LEMMA ParseStays ==
  ASSUME Reading, InStep, UNCHANGED <<lookupVars, call>>,
         step \in {"options", "operands", "post"}, step' \in {"options", "operands", "post", "done"}
  PROVE  InStep'
<1>1. word' = word /\ phase' = phase /\ declared' = declared /\ phase = "ready"
  BY DEF InStep, lookupVars, call
<1> QED
  BY <1>1 DEF InStep, IsOuter

\* Every step keeps the invariant.
LEMMA ArgsStep == ArgsInv /\ TableIInv /\ [Next]_vars => ArgsInv'
<1> SUFFICES ASSUME Reading, InStep, TableIInv, [Next]_vars PROVE Reading' /\ InStep'
  BY DEF ArgsInv
<1>1. CASE BuildTable
  BY <1>1, BuildTableKeeps
<1>2. CASE SearchTable
  BY <1>2, SearchTableKeeps
<1>3. CASE OptionsEnd
  <2>1. InStep'
    BY <1>3, ParseStays DEF OptionsEnd
  <2> QED
    BY <1>3, <2>1, OptionsEndKeeps
<1>4. CASE HelpAsked
  <2>1. InStep'
    BY <1>4, ParseStays DEF HelpAsked, Ends
  <2> QED
    BY <1>4, <2>1, HelpAskedKeeps
<1>5. CASE UnknownOption
  <2>1. InStep'
    BY <1>5, ParseStays DEF UnknownOption, Ends
  <2> QED
    BY <1>5, <2>1, UnknownOptionKeeps
<1>6. CASE Flag
  <2>1. InStep'
    BY <1>6, ParseStays DEF Flag
  <2> QED
    BY <1>6, <2>1, FlagKeeps
<1>7. CASE MissingValue
  <2>1. InStep'
    BY <1>7, ParseStays DEF MissingValue, AtValue, Ends
  <2> QED
    BY <1>7, <2>1, MissingValueKeeps
<1>8. CASE Option
  <2>1. InStep'
    BY <1>8, ParseStays DEF Option, AtValue
  <2> QED
    BY <1>8, <2>1, OptionKeeps
<1>9. CASE BadValue
  <2>1. InStep'
    BY <1>9, ParseStays DEF BadValue, AtValue, Ends
  <2> QED
    BY <1>9, <2>1, BadValueKeeps
<1>10. CASE FillPositionals
  <2>1. InStep'
    BY <1>10, ParseStays DEF FillPositionals
  <2> QED
    BY <1>10, <2>1, FillPositionalsKeeps
<1>11. CASE FillFails
  <2>1. InStep'
    BY <1>11, ParseStays DEF FillFails, Ends
  <2> QED
    BY <1>11, <2>1, FillFailsKeeps
<1>12. CASE Post
  BY <1>12, PostKeeps
<1>13. CASE PostInner
  <2>1. InStep'
    BY <1>13, ParseStays DEF PostInner
  <2>2. step \in {"post", "lookup"} /\ UNCHANGED <<call, getopt, fields>> /\ step' = "done" /\ outcome' = "ok"
    BY <1>13 DEF PostInner
  <2> QED
    BY <2>1, <2>2, ResultKept
<1>14. CASE Unknown
  <2>1. step \in {"post", "lookup"} /\ UNCHANGED <<call, getopt, fields>> /\ step' = "done" /\ outcome' = "unknown"
    BY <1>14 DEF Unknown, Ends
  <2>2. phase' = "ready"
    BY <1>14 DEF Unknown, Ends, lookupVars
  <2> QED
    BY <2>1, <2>2, ResultKept DEF InStep
<1>15. CASE Dispatch
  BY <1>15, DispatchKeeps
<1>16. CASE Return
  <2>1. step = "done" /\ step' = "idle" /\ word' = <<>> /\ phase' = phase
    BY <1>16 DEF Return, Forget
  <2>2. InStep'
    BY <2>1 DEF InStep
  <2> QED
    BY <1>16, <2>2, ReturnKeeps
<1>17. ASSUME NEW ws \in Calls, Call(ws) PROVE Reading' /\ InStep'
  BY <1>17, CallKeeps
<1>18. CASE UNCHANGED vars
  <2>1. UNCHANGED <<step, call, getopt, fields, outcome>>
    BY <1>18 DEF vars, call, fields
  <2>2. InStep'
    BY <1>18 DEF vars, lookupVars, InStep, IsOuter
  <2> QED
    BY <2>1, <2>2, Untouched
<1> QED
  BY <1>1, <1>2, <1>3, <1>4, <1>5, <1>6, <1>7, <1>8, <1>9, <1>10, <1>11, <1>12, <1>13, <1>14,
     <1>15, <1>16, <1>17, <1>18 DEF Next, Progress

LEMMA ArgsBegin == Init => ArgsInv
<1> SUFFICES ASSUME Init PROVE ArgsInv
  OBVIOUS
<1>1. /\ step = "idle" /\ declared = Outer /\ words = <<>> /\ getopt = StartOfList
      /\ given = {} /\ values = [b \in Byte |-> NoWord] /\ operands = <<>> /\ rest = <<>>
      /\ outcome = "none" /\ phase = "sort" /\ word = <<>>
  BY DEF Init, TableInit
<1>2. Outer \in Declarations /\ LetterH \notin Outer.flags \cup Outer.opts
      /\ Outer.flags \cap Outer.opts = {}
  BY OuterDeclares
<1>3. values \in [Byte -> Seq(Byte)] /\ getopt \in [cur : Nat, sp : Nat, end : Nat]
  BY <1>1 DEF NoWord, StartOfList
<1>4. ArgsTyped
  BY <1>1, <1>2, <1>3 DEF ArgsTyped
<1> QED
  BY <1>1, <1>4 DEF ArgsInv, Reading, Scanning, Filling, Filled, Failed, InStep

\* What a call does to the table is what the table allows.
LEMMA TableUsed ==
  ASSUME ArgsInv, [Next]_vars
  PROVE  [TableNext]_lookupVars
<1>1. CASE BuildTable \/ SearchTable
  BY <1>1 DEF BuildTable, SearchTable, TableNext
<1>2. CASE OptionsEnd \/ HelpAsked \/ UnknownOption \/ Flag \/ MissingValue \/ Option \/ BadValue
           \/ FillPositionals \/ FillFails \/ PostInner \/ Unknown \/ Dispatch
  <2>1. UNCHANGED lookupVars
    BY <1>2 DEF OptionsEnd, HelpAsked, UnknownOption, Flag, MissingValue, Option, BadValue,
         FillPositionals, FillFails, PostInner, Unknown, Dispatch, Ends
  <2> QED
    BY <2>1
<1>3. CASE Post
  BY <1>3, PostLooksUp DEF ArgsInv, TableNext
<1>4. CASE Return
  <2>1. Forget /\ phase = "ready"
    BY <1>4 DEF Return, ArgsInv, InStep
  <2> QED
    BY <2>1 DEF TableNext
<1>5. CASE \E ws \in Calls : Call(ws)
  BY <1>5 DEF Call
<1>6. CASE UNCHANGED vars
  BY <1>6 DEF vars
<1> QED
  BY <1>1, <1>2, <1>3, <1>4, <1>5, <1>6 DEF Next, Progress

\* What is known at every step of a call, and of its table.
THEOREM ArgumentsInvariant == Spec => [](ArgsInv /\ TableIInv)
<1>1. Init => ArgsInv /\ TableIInv
  BY ArgsBegin, TableBegins DEF Init
<1>2. ArgsInv /\ TableIInv /\ [Next]_vars => ArgsInv' /\ TableIInv'
  BY ArgsStep, TableUsed, TableStep
<1> QED
  BY <1>1, <1>2, PTL DEF Spec

\* A parse gives a handler what the words of its call say, and fails only when they do not fit
\* what the handler declares: for every structure, every list of words and every table.
THEOREM ParsesAsDeclared == Spec => []ReadAsDeclared
<1>1. ArgsInv => ReadAsDeclared
  BY DEF ArgsInv, Reading, Filled, Failed, Read, Taken, IsLast, ReadAsDeclared
<1> QED
  BY <1>1, ArgumentsInvariant, PTL

\* A call uses the table only as IntLookup says: what holds of the table holds in a call.
THEOREM CallsUseTable == Spec => TableSpec
<1>1. Init => TableInit
  BY DEF Init
<1>2. ArgsInv /\ [Next]_vars => [TableNext]_lookupVars
  BY TableUsed
<1> QED
  BY <1>1, <1>2, ArgumentsInvariant, PTL DEF Spec, TableSpec

\* And so the handler of a call is the one its word names, or begins the only name of.
THEOREM CallsFindHandlers == Spec => []FoundAsNamed
  BY CallsUseTable, LookupFinds, PTL
=================================================================================
