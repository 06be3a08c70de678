---------------------------- MODULE Waiting_proofs ----------------------------
(***************************************************************************)
(* Proofs about how processes wait.  At a barrier (Barrier), for any       *)
(* processes, target and requests: the count and the flag, each wait call  *)
(* counted once, nobody asleep at an open barrier, and that the barrier    *)
(* implements the abstract one.  In poll, epoll wait, accept and sleep     *)
(* (Waits), for any descriptors, timeouts and interruptions: how long a    *)
(* wait takes, what epoll wait tells, and that it tells all of it.         *)
(***************************************************************************)
EXTENDS Barrier, Waits, SequenceTheorems, FiniteSetTheorems, WellFoundedInduction, TLAPS

\* The calls counted have been made, and one that has yet to arrive is not among them.
ArrivalsMade ==
  /\ IsFiniteSet(counted)
  /\ \A c \in counted : c[2] <= calls[c[1]]
  /\ \A p \in Procs : pc[p] \in {"locking", "holding"} => <<p, calls[p]>> \notin counted

IInv == TypeOK /\ SatisfiedIffFull /\ NoSleeperWhenOpen /\ ArrivalsMade /\ EachCallCountsOnce

\* Where a broadcast leaves each process.
LEMMA BroadcastPC ==
  ASSUME TypeOK, NEW p \in Procs, NEW to \in PCs, Broadcast(p, to)
  PROVE  /\ pc' \in [Procs -> PCs]
         /\ pc'[p] = to
         /\ \A q \in Procs \ {p} : pc'[q] = IF pc[q] = "sleeping" THEN "woken" ELSE pc[q]
         /\ \A q \in Procs : to # "sleeping" => pc'[q] # "sleeping"
  BY DEF TypeOK, PCs, Broadcast

\* The initial states satisfy the invariant.
LEMMA InvInit == Init => IInv
<1> SUFFICES ASSUME Init PROVE IInv
  OBVIOUS
<1> USE BarrierAssumption DEF Init
<1>1. TypeOK
  <2>1. mtx \in Procs \cup {NoProc} /\ counted \subseteq Procs \X (0..MaxCalls)
    OBVIOUS
  <2>2. pc \in [Procs -> PCs] /\ ret \in [Procs -> {"none", "ok", "fail"}]
    BY DEF PCs
  <2>3. req \in [Procs -> Requests \cup {"none"}]
    OBVIOUS
  <2>4. calls \in [Procs -> 0..MaxCalls]
    OBVIOUS
  <2>5. satisfied \in BOOLEAN
    OBVIOUS
  <2>6. count \in 0..Count
    OBVIOUS
  <2>7. QED
    BY <2>1, <2>2, <2>3, <2>4, <2>5, <2>6 DEF TypeOK
<1>2. SatisfiedIffFull
  BY DEF SatisfiedIffFull
<1>3. NoSleeperWhenOpen /\ ArrivalsMade /\ EachCallCountsOnce
  BY FS_EmptySet DEF NoSleeperWhenOpen, ArrivalsMade, EachCallCountsOnce
<1>4. QED
  BY <1>1, <1>2, <1>3 DEF IInv

\* Every step keeps the type, the flag and the sleepers right.
LEMMA FlagStep ==
  ASSUME IInv, [Next]_vars
  PROVE  (TypeOK /\ SatisfiedIffFull /\ NoSleeperWhenOpen)'
<1> DEFINE Goal == (TypeOK /\ SatisfiedIffFull /\ NoSleeperWhenOpen)'
<1> USE BarrierAssumption DEF IInv, TypeOK, PCs, SatisfiedIffFull, NoSleeperWhenOpen
<1>1. CASE UNCHANGED vars
  BY <1>1 DEF vars
<1>2. ASSUME NEW p \in Procs, Lock(p) PROVE Goal
  BY <1>2 DEF Lock
<1>3. ASSUME NEW p \in Procs, WaitOpen(p) PROVE Goal
  BY <1>3 DEF WaitOpen, Return
<1>4. ASSUME NEW p \in Procs, ArriveLast(p) PROVE Goal
  <2>1. /\ pc' \in [Procs -> PCs]
        /\ \A q \in Procs : pc'[q] # "sleeping"
    BY <1>4, BroadcastPC DEF ArriveLast
  <2>2. count' \in 0..Count /\ satisfied' \in BOOLEAN /\ counted' \subseteq Procs \X (0..MaxCalls)
    BY <1>4 DEF ArriveLast
  <2>3. ret' \in [Procs -> {"none", "ok", "fail"}]
    BY <1>4 DEF ArriveLast, Return
  <2>4. satisfied' /\ count' = Count
    BY <1>4 DEF ArriveLast
  <2>5. TypeOK'
    BY <1>4, <2>1, <2>2, <2>3 DEF ArriveLast
  <2>6. QED
    BY <2>1, <2>4, <2>5
<1>5. ASSUME NEW p \in Procs, ArriveEarly(p) PROVE Goal
  <2>1. counted' \subseteq Procs \X (0..MaxCalls)
    BY <1>5 DEF ArriveEarly
  <2>2. QED
    BY <1>5, <2>1 DEF ArriveEarly, Return
<1>6. ASSUME NEW p \in Procs, WaitWoken(p) PROVE Goal
  BY <1>6 DEF WaitWoken, Return
<1>7. ASSUME NEW p \in Procs, WaitTimedOut(p) PROVE Goal
  BY <1>7 DEF WaitTimedOut, Return
<1>8. ASSUME NEW p \in Procs, Reset(p) PROVE Goal
  <2>1. pc' \in [Procs -> PCs]
    BY <1>8, BroadcastPC DEF Reset
  <2>2. counted' \subseteq Procs \X (0..MaxCalls) /\ ret' \in [Procs -> {"none", "ok", "fail"}]
    BY <1>8 DEF Reset
  <2>3. satisfied' = FALSE /\ count' = 0 /\ count' \in 0..Count
    BY <1>8 DEF Reset
  <2>4. TypeOK'
    BY <1>8, <2>1, <2>2, <2>3 DEF Reset
  <2>5. QED
    BY <2>3, <2>4
<1>9. ASSUME NEW p \in Procs, NEW r \in Requests, Call(p, r) PROVE Goal
  BY <1>9 DEF Call
<1>10. ASSUME NEW p \in Procs, Timeout(p) \/ Spurious(p) PROVE Goal
  BY <1>10 DEF Timeout, Spurious
<1>11. ASSUME NEW p \in Procs, Kill(p) PROVE Goal
  BY <1>11 DEF Kill
<1>12. QED
  BY <1>1, <1>2, <1>3, <1>4, <1>5, <1>6, <1>7, <1>8, <1>9, <1>10, <1>11 DEF Next, Progress

\* An arrival adds a call that was not counted, and leaves its caller done with arriving.
LEMMA CountArrival ==
  ASSUME IInv, NEW p \in Procs, pc[p] = "holding", count' = count + 1, UNCHANGED calls,
         counted' = counted \cup {<<p, calls[p]>>},
         \A q \in Procs : pc'[q] \in {"locking", "holding"} => q # p /\ pc'[q] = pc[q]
  PROVE  (ArrivalsMade /\ EachCallCountsOnce)'
<1> USE DEF IInv, ArrivalsMade, EachCallCountsOnce, TypeOK
<1>1. IsFiniteSet(counted') /\ Cardinality(counted') = Cardinality(counted) + 1
  BY FS_AddElement
<1>2. \A c \in counted' : c[2] <= calls'[c[1]]
  BY SMT
<1>3. ASSUME NEW q \in Procs, pc'[q] \in {"locking", "holding"}
      PROVE  <<q, calls'[q]>> \notin counted'
  BY <1>3
<1> QED
  BY <1>1, <1>2, <1>3

\* A step that counts nobody, makes no call and lets nobody begin to arrive.
LEMMA CountSame ==
  ASSUME IInv, UNCHANGED <<count, counted, calls>>,
         \A q \in Procs : pc'[q] \in {"locking", "holding"} => pc[q] \in {"locking", "holding"}
  PROVE  (ArrivalsMade /\ EachCallCountsOnce)'
  BY DEF IInv, ArrivalsMade, EachCallCountsOnce

\* Every step keeps the count what the calls that arrived make it.
LEMMA ArrivalStep ==
  ASSUME IInv, [Next]_vars
  PROVE  (ArrivalsMade /\ EachCallCountsOnce)'
<1> DEFINE Goal == (ArrivalsMade /\ EachCallCountsOnce)'
<1>1. CASE UNCHANGED vars
  BY <1>1, CountSame DEF vars
<1>2. ASSUME NEW p \in Procs,
             Lock(p) \/ WaitOpen(p) \/ WaitWoken(p) \/ WaitTimedOut(p)
               \/ Timeout(p) \/ Spurious(p) \/ Kill(p)
      PROVE  Goal
  <2>1. UNCHANGED <<count, counted, calls>>
    BY <1>2 DEF Lock, WaitOpen, WaitWoken, WaitTimedOut, Timeout, Spurious, Kill
  <2>2. ASSUME NEW q \in Procs, pc'[q] \in {"locking", "holding"}
        PROVE  pc[q] \in {"locking", "holding"}
    BY <1>2, <2>2
       DEF Lock, WaitOpen, WaitWoken, WaitTimedOut, Timeout, Spurious, Kill, IInv, TypeOK
  <2> QED
    BY <2>1, <2>2, CountSame
<1>3. ASSUME NEW p \in Procs, ArriveLast(p) PROVE Goal
  <2>1. \A q \in Procs : pc'[q] \in {"locking", "holding"} => q # p /\ pc'[q] = pc[q]
    BY <1>3, BroadcastPC DEF ArriveLast, IInv, PCs
  <2> QED
    BY <1>3, <2>1, CountArrival DEF ArriveLast
<1>4. ASSUME NEW p \in Procs, ArriveEarly(p) PROVE Goal
  <2>1. \A q \in Procs : pc'[q] \in {"locking", "holding"} => q # p /\ pc'[q] = pc[q]
    BY <1>4 DEF ArriveEarly, IInv, TypeOK
  <2> QED
    BY <1>4, <2>1, CountArrival DEF ArriveEarly
<1>5. ASSUME NEW p \in Procs, Reset(p) PROVE Goal
  BY <1>5, FS_EmptySet DEF Reset, ArrivalsMade, EachCallCountsOnce
<1>6. ASSUME NEW p \in Procs, NEW r \in Requests, Call(p, r) PROVE Goal
  <2>1. /\ UNCHANGED <<count, counted>>
        /\ calls'[p] = calls[p] + 1 /\ \A q \in Procs \ {p} : calls'[q] = calls[q]
        /\ \A q \in Procs \ {p} : pc'[q] = pc[q]
    BY <1>6 DEF Call, IInv, TypeOK
  <2>2. \A c \in counted : c[1] \in Procs /\ c[2] \in Nat /\ c[2] <= calls[c[1]]
    BY BarrierAssumption DEF IInv, TypeOK, ArrivalsMade
  <2>3. \A q \in Procs : calls[q] \in Nat
    BY BarrierAssumption DEF IInv, TypeOK
  <2>4. \A c \in counted : c[2] <= calls'[c[1]]
    BY <2>1, <2>2, <2>3
  <2>5. <<p, calls'[p]>> \notin counted
    BY <2>1, <2>2, <2>3
  <2>6. ASSUME NEW q \in Procs \ {p}, pc'[q] \in {"locking", "holding"}
        PROVE  <<q, calls'[q]>> \notin counted
    BY <2>1, <2>6 DEF IInv, ArrivalsMade
  <2> QED
    BY <2>1, <2>4, <2>5, <2>6 DEF IInv, ArrivalsMade, EachCallCountsOnce
<1> QED
  BY <1>1, <1>2, <1>3, <1>4, <1>5, <1>6 DEF Next, Progress

\* Every step keeps the invariant.
LEMMA InvStep == IInv /\ [Next]_vars => IInv'
  BY FlagStep, ArrivalStep DEF IInv

LEMMA InvHolds == Spec => []IInv
  BY InvInit, InvStep, PTL DEF Spec

\* The barrier is open exactly when as many have arrived as it was made for, and the count
\* never runs past that (barrier_arrive, barrier_reset).
THEOREM FlagAndCount == Spec => [](TypeOK /\ SatisfiedIffFull)
<1>1. IInv => TypeOK /\ SatisfiedIffFull
  BY DEF IInv
<1>2. QED
  BY <1>1, InvHolds, PTL

\* Nobody is asleep at an open barrier, so that no wake is lost (the loop of barrier_wait).
THEOREM NoLostWake == Spec => []NoSleeperWhenOpen
<1>1. IInv => NoSleeperWhenOpen
  BY DEF IInv
<1>2. QED
  BY <1>1, InvHolds, PTL

\* Each wait call is counted once, in the round it arrives in (barrier_arrive, barrier_reset).
THEOREM CountedOnce == Spec => []EachCallCountsOnce
<1>1. IInv => EachCallCountsOnce
  BY DEF IInv
<1>2. QED
  BY <1>1, InvHolds, PTL

------------------------------------------------------------------------------
(* The abstract barrier. *)

inside == {p \in Procs : Waiting(p)}

\* The barrier starts as the abstract one does.
LEMMA RefinesInit == Init => Abs!Init
  BY DEF Init, Abs!Init, Waiting

\* Every step is a step of the abstract barrier, or leaves it alone.
LEMMA RefinesStep == IInv /\ [Next]_vars => [Abs!Next]_(Abs!vars)
<1> SUFFICES ASSUME IInv, [Next]_vars PROVE Abs!Next \/ UNCHANGED Abs!vars
  OBVIOUS
<1> USE DEF IInv, TypeOK, PCs, inside
<1>1. CASE UNCHANGED vars
  BY <1>1 DEF vars, Abs!vars, Waiting
<1>2. ASSUME NEW p \in Procs, Lock(p) PROVE UNCHANGED Abs!vars
  <2>1. \A q \in Procs : Waiting(q)' <=> Waiting(q)
    BY <1>2 DEF Lock, Waiting
  <2>2. QED
    BY <1>2, <2>1 DEF Lock, Abs!vars
<1>3. ASSUME NEW p \in Procs, WaitOpen(p) PROVE Abs!Pass(p)
  <2>1. inside' = inside \ {p}
    BY <1>3 DEF WaitOpen, Waiting
  <2>2. QED
    BY <1>3, <2>1 DEF WaitOpen, Return, Abs!Pass
<1>4. ASSUME NEW p \in Procs, ArriveLast(p) PROVE Abs!Arrive(p)
  <2>1. \A q \in Procs : Waiting(q)' <=> Waiting(q)
    BY <1>4, BroadcastPC DEF ArriveLast, Waiting
  <2>2. p \notin inside
    BY <1>4 DEF ArriveLast, Waiting
  <2>3. QED
    BY <1>4, <2>1, <2>2 DEF ArriveLast, Return, Abs!Arrive
<1>5. ASSUME NEW p \in Procs, ArriveEarly(p) PROVE Abs!Arrive(p)
  <2>1. inside' = IF req[p] = "poll" THEN inside ELSE inside \cup {p}
    BY <1>5 DEF ArriveEarly, Waiting
  <2>2. p \notin inside
    BY <1>5 DEF ArriveEarly, Waiting
  <2>3. ~satisfied' /\ count' # Count
    BY <1>5 DEF ArriveEarly
  <2>4. CASE req[p] = "poll"
    BY <1>5, <2>1, <2>2, <2>3, <2>4 DEF ArriveEarly, Return, Abs!Arrive
  <2>5. CASE req[p] # "poll"
    BY <1>5, <2>1, <2>2, <2>3, <2>5 DEF ArriveEarly, Return, Abs!Arrive
  <2>6. QED
    BY <2>4, <2>5
<1>6. ASSUME NEW p \in Procs, WaitWoken(p) PROVE Abs!Pass(p) \/ UNCHANGED Abs!vars
  <2>1. inside' = IF satisfied THEN inside \ {p} ELSE inside
    BY <1>6 DEF WaitWoken, Waiting
  <2>2. QED
    BY <1>6, <2>1 DEF WaitWoken, Return, Abs!Pass, Abs!vars
<1>7. ASSUME NEW p \in Procs, WaitTimedOut(p) PROVE Abs!GiveUp(p)
  <2>1. inside' = inside \ {p} /\ p \in inside
    BY <1>7 DEF WaitTimedOut, Waiting
  <2>2. QED
    BY <1>7, <2>1 DEF WaitTimedOut, Return, Abs!GiveUp
<1>8. ASSUME NEW p \in Procs, Reset(p) PROVE Abs!Reset
  <2>1. \A q \in Procs : Waiting(q)' <=> Waiting(q)
    BY <1>8, BroadcastPC DEF Reset, Waiting
  <2>2. QED
    BY <1>8, <2>1 DEF Reset, Abs!Reset
<1>9. ASSUME NEW p \in Procs, NEW r \in Requests, Call(p, r) PROVE UNCHANGED Abs!vars
  <2>1. \A q \in Procs : Waiting(q)' <=> Waiting(q)
    BY <1>9 DEF Call, Waiting
  <2>2. QED
    BY <1>9, <2>1 DEF Call, Abs!vars
<1>10. ASSUME NEW p \in Procs, Timeout(p) \/ Spurious(p) PROVE UNCHANGED Abs!vars
  <2>1. \A q \in Procs : Waiting(q)' <=> Waiting(q)
    BY <1>10 DEF Timeout, Spurious, Waiting
  <2>2. QED
    BY <1>10, <2>1 DEF Timeout, Spurious, Abs!vars
<1>11. ASSUME NEW p \in Procs, Kill(p) PROVE Abs!Vanish(p)
  <2>1. inside' = inside \ {p}
    BY <1>11 DEF Kill, Waiting
  <2>2. QED
    BY <1>11, <2>1 DEF Kill, Abs!Vanish
<1>12. QED
  BY <1>1, <1>2, <1>3, <1>4, <1>5, <1>6, <1>7, <1>8, <1>9, <1>10, <1>11
     DEF Next, Progress, Abs!Next

\* What the guard and the condition variable do is what the abstract barrier allows.
THEOREM Refinement == Spec => ImplementsAbstractBarrier
  BY RefinesInit, RefinesStep, InvHolds, PTL DEF Spec, ImplementsAbstractBarrier, Abs!Spec

-----------------------------------------------------------------------------
(* The waits on descriptors. *)

\* A set of numbers that is not empty has a least one.
LEMMA LeastNumber ==
  ASSUME NEW S \in SUBSET Nat, S # {}
  PROVE  \E i \in S : \A j \in S : i <= j
<1> DEFINE F == {0..i : i \in S}
           R == StrictSubsetOrdering(Nat)
<1>1. PICK t \in F : \A u \in F : <<u, t>> \notin R
  <2>1. F \subseteq FiniteSubsetsOf(Nat)
    <3> SUFFICES ASSUME NEW i \in S PROVE 0..i \in FiniteSubsetsOf(Nat)
      OBVIOUS
    <3>1. IsFiniteSet(0..i)
      BY FS_Interval
    <3> QED
      BY <3>1 DEF FiniteSubsetsOf
  <2>2. F # {}
    OBVIOUS
  <2>3. IsWellFoundedOn(R, FiniteSubsetsOf(Nat))
    BY FS_StrictSubsetOrderingWellFounded
  <2> HIDE DEF F, R
  <2> QED
    BY <2>1, <2>2, <2>3, WFMin
<1>2. PICK i \in S : t = 0..i
  BY <1>1
<1>3. ASSUME NEW j \in S, j < i PROVE FALSE
  <2>1. 0..j \subseteq 0..i /\ 0..j # 0..i
    <3>1. i \in 0..i /\ i \notin 0..j
      BY <1>3
    <3> QED
      BY <1>3, <3>1
  <2>2. <<0..j, 0..i>> \in (SUBSET Nat) \X (SUBSET Nat)
    OBVIOUS
  <2>3. <<0..j, 0..i>> \in R
    BY <2>1, <2>2 DEF StrictSubsetOrdering
  <2> QED
    BY <1>1, <1>2, <2>3
<1> QED
  BY <1>3

-----------------------------------------------------------------------------
(* Places in a list, and their ranks. *)

UpTo(I, i) == {j \in I : j <= i}
Rank(I, i) == Cardinality(UpTo(I, i))

LEMMA RankType ==
  ASSUME NEW n \in Nat, NEW I \in SUBSET (1..n), NEW i \in Nat
  PROVE  IsFiniteSet(I) /\ IsFiniteSet(UpTo(I, i)) /\ Rank(I, i) \in 0..Cardinality(I)
<1>1. IsFiniteSet(1..n) /\ I \in SUBSET (1..n)
  BY FS_Interval
<1>2. IsFiniteSet(I)
  BY <1>1, FS_Subset
<1>3. UpTo(I, i) \in SUBSET I
  BY DEF UpTo
<1>4. IsFiniteSet(UpTo(I, i)) /\ Cardinality(UpTo(I, i)) <= Cardinality(I)
  BY <1>2, <1>3, FS_Subset
<1> QED
  BY <1>2, <1>4, FS_CardinalityType DEF Rank

\* The rank grows by one at each of the places, and only there.
LEMMA RankGrows ==
  ASSUME NEW n \in Nat, NEW I \in SUBSET (1..n), NEW i \in Nat \ {0}
  PROVE  Rank(I, i) = IF i \in I THEN Rank(I, i - 1) + 1 ELSE Rank(I, i - 1)
<1>1. i - 1 \in Nat /\ i \in Nat /\ \A j \in I : j \in Nat
  OBVIOUS
<1>2. IsFiniteSet(UpTo(I, i - 1))
  BY <1>1, RankType
<1>5. i \notin UpTo(I, i - 1)
  BY <1>1 DEF UpTo
<1>3. CASE i \in I
  <2>1. UpTo(I, i) = UpTo(I, i - 1) \cup {i}
    <3>1. \A j \in I : j <= i <=> j <= i - 1 \/ j = i
      BY <1>1
    <3> QED
      BY <1>3, <3>1 DEF UpTo
  <2> QED
    BY <1>2, <1>3, <1>5, <2>1, FS_AddElement DEF Rank
<1>4. CASE i \notin I
  <2>1. UpTo(I, i) = UpTo(I, i - 1)
    <3>1. \A j \in I : j <= i <=> j <= i - 1
      BY <1>1, <1>4
    <3> QED
      BY <3>1 DEF UpTo
  <2> QED
    BY <1>4, <2>1 DEF Rank
<1> QED
  BY <1>3, <1>4

\* Every number up to the number of places is the rank of one of them.
LEMMA Ranked ==
  ASSUME NEW n \in Nat, NEW I \in SUBSET (1..n), NEW k \in 1..Cardinality(I)
  PROVE  \E i \in I : Rank(I, i) = k
<1> DEFINE S == {i \in Nat : Rank(I, i) >= k}
<1>0. IsFiniteSet(I) /\ Cardinality(I) \in Nat
  BY RankType, FS_CardinalityType, 0 \in Nat
<1>1. n \in S
  <2>1. UpTo(I, n) = I
    <3>1. \A j \in I : j <= n
      OBVIOUS
    <3> QED
      BY <3>1 DEF UpTo
  <2> QED
    BY <1>0, <2>1 DEF Rank
<1>2. PICK i \in S : \A j \in S : i <= j
  <2> HIDE DEF S
  <2>1. S \in SUBSET Nat
    BY DEF S
  <2> QED
    BY <1>1, <2>1, LeastNumber
<1>3. i \in Nat /\ Rank(I, i) >= k
  OBVIOUS
<1>4. i # 0
  <2>1. UpTo(I, 0) = {}
    <3>1. \A j \in I : ~(j <= 0)
      OBVIOUS
    <3> QED
      BY <3>1 DEF UpTo
  <2>2. Rank(I, 0) = 0
    BY <2>1, FS_EmptySet DEF Rank
  <2> QED
    BY <1>0, <1>3, <2>2
<1>5. Rank(I, i - 1) < k
  <2>1. i - 1 \in Nat /\ ~(i <= i - 1)
    BY <1>3, <1>4
  <2>2. i - 1 \notin S
    BY <1>2, <2>1
  <2>3. Rank(I, i - 1) \in 0..Cardinality(I)
    BY <2>1, RankType
  <2> QED
    BY <1>0, <2>1, <2>2, <2>3
<1> HIDE DEF S
<1>6. Rank(I, i) = IF i \in I THEN Rank(I, i - 1) + 1 ELSE Rank(I, i - 1)
  BY <1>3, <1>4, RankGrows
<1>7. Rank(I, i - 1) \in Nat /\ Rank(I, i) \in Nat
  <2>1. i - 1 \in Nat
    BY <1>3, <1>4
  <2>2. Rank(I, i - 1) \in 0..Cardinality(I)
    BY <2>1, RankType
  <2>3. Rank(I, i) \in 0..Cardinality(I)
    BY <1>3, RankType
  <2> QED
    BY <1>0, <2>2, <2>3
<1> QED
  BY <1>0, <1>3, <1>5, <1>6, <1>7

\* Two places have different ranks.
LEMMA RanksDiffer ==
  ASSUME NEW n \in Nat, NEW I \in SUBSET (1..n), NEW a \in I, NEW b \in I, Rank(I, a) = Rank(I, b)
  PROVE  a = b
<1>1. ASSUME NEW c \in I, NEW d \in I, c < d PROVE Rank(I, c) # Rank(I, d)
  <2>1. c \in Nat /\ d \in Nat /\ \A j \in I : j \in Nat
    OBVIOUS
  <2>2. UpTo(I, c) \in SUBSET UpTo(I, d) /\ d \in UpTo(I, d) /\ d \notin UpTo(I, c)
    <3>1. \A j \in I : j <= c => j <= d
      BY <1>1, <2>1
    <3>2. d <= d /\ ~(d <= c)
      BY <1>1, <2>1
    <3> QED
      BY <3>1, <3>2 DEF UpTo
  <2>3. IsFiniteSet(UpTo(I, d))
    BY <2>1, RankType
  <2> QED
    BY <2>2, <2>3, FS_Subset DEF Rank
<1> QED
  BY <1>1

\* The k-th place is the one of rank k.
LEMMA NthPlace ==
  ASSUME NEW n \in Nat, NEW I \in SUBSET (1..n)
  PROVE  /\ IsFiniteSet(I) /\ Cardinality(I) \in Nat
         /\ \A k \in 1..Cardinality(I) : Nth(I, k) \in I /\ Rank(I, Nth(I, k)) = k
         /\ \A i \in I : Rank(I, i) \in 1..Cardinality(I) /\ Nth(I, Rank(I, i)) = i
<1>1. IsFiniteSet(I) /\ Cardinality(I) \in Nat
  BY RankType, FS_CardinalityType, 0 \in Nat
<1>2. \A i : Cardinality({j \in I : j <= i}) = Rank(I, i)
  BY DEF Rank, UpTo
<1>3. ASSUME NEW k \in 1..Cardinality(I) PROVE Nth(I, k) \in I /\ Rank(I, Nth(I, k)) = k
  <2>1. \E i \in I : Cardinality({j \in I : j <= i}) = k
    BY <1>2, Ranked
  <2>2. Nth(I, k) \in I /\ Cardinality({j \in I : j <= Nth(I, k)}) = k
    BY <2>1 DEF Nth
  <2> QED
    BY <1>2, <2>2
<1>4. ASSUME NEW i \in I PROVE Rank(I, i) \in 1..Cardinality(I) /\ Nth(I, Rank(I, i)) = i
  <2>0. i \in Nat
    OBVIOUS
  <2>1. Rank(I, i) \in 0..Cardinality(I) /\ IsFiniteSet(UpTo(I, i))
    BY <2>0, RankType
  <2>2. i \in UpTo(I, i)
    BY <2>0 DEF UpTo
  <2>3. Rank(I, i) # 0
    BY <2>1, <2>2, FS_EmptySet DEF Rank
  <2>4. Rank(I, i) \in 1..Cardinality(I)
    BY <1>1, <2>1, <2>3
  <2>5. Nth(I, Rank(I, i)) \in I /\ Rank(I, Nth(I, Rank(I, i))) = Rank(I, i)
    BY <1>3, <2>4
  <2>6. Nth(I, Rank(I, i)) = i
    BY <2>5, RanksDiffer
  <2> QED
    BY <2>4, <2>6
<1> QED
  BY <1>1, <1>3, <1>4

\* What is chosen from a list is at the places given, and nothing there is left out.
LEMMA ChosenPlaces ==
  ASSUME NEW S, NEW list \in Seq(S), NEW T, NEW I \in SUBSET (1..Len(list)),
         \A i \in I : list[i] \in T
  PROVE  /\ Chosen(list, I) \in Seq(T)
         /\ \A i \in I : \E k \in 1..Len(Chosen(list, I)) : Chosen(list, I)[k] = list[i]
<1>1. Len(list) \in Nat
  OBVIOUS
<1>2. Chosen(list, I) = [k \in 1..Cardinality(I) |-> list[Nth(I, k)]]
  BY DEF Chosen
<1>3. /\ Cardinality(I) \in Nat
      /\ \A k \in 1..Cardinality(I) : list[Nth(I, k)] \in T
      /\ \A i \in I : Rank(I, i) \in 1..Cardinality(I) /\ Nth(I, Rank(I, i)) = i
  BY <1>1, NthPlace
<1>4. [k \in 1..Cardinality(I) |-> list[Nth(I, k)]] \in Seq(T)
  BY <1>3, IsASeq
<1>5. Len([k \in 1..Cardinality(I) |-> list[Nth(I, k)]]) = Cardinality(I)
  BY <1>3
<1> QED
  BY <1>2, <1>3, <1>4, <1>5

\* A finite set as a sequence.
LEMMA SetToSeqType ==
  ASSUME NEW S, IsFiniteSet(S)
  PROVE  SetToSeq(S) \in Seq(S)
<1>1. Cardinality(S) \in Nat /\ ExistsBijection(1..Cardinality(S), S)
  BY FS_CardinalityType
<1>2. PICK f \in [1..Cardinality(S) -> S] : IsInjective(f)
  BY <1>1 DEF ExistsBijection, Bijection, Injection, IsInjective, IsInjective
<1>3. SetToSeq(S) \in [1..Cardinality(S) -> S]
  BY <1>2 DEF SetToSeq
<1> QED
  BY <1>1, <1>3, SeqDef

\* What is notified comes after what was listed.
LEMMA NotifiedType ==
  ASSUME NEW T, NEW list \in Seq(T), NEW S \in SUBSET T, IsFiniteSet(T)
  PROVE  /\ Notified(list, S) \in Seq(T)
         /\ Len(list) <= Len(Notified(list, S))
         /\ \A k \in 1..Len(list) : Notified(list, S)[k] = list[k]
<1> DEFINE new == {it \in S : \A k \in 1..Len(list) : list[k] # it}
<1>1. new \in SUBSET T
  OBVIOUS
<1>2. IsFiniteSet(new)
  BY <1>1, FS_Subset
<1>3. SetToSeq(new) \in Seq(new)
  BY <1>2, SetToSeqType
<1> HIDE DEF new
<1>4. SetToSeq(new) \in Seq(T)
  BY <1>1, <1>3
<1>5. Notified(list, S) = list \o SetToSeq(new)
  BY DEF Notified, new
<1> QED
  BY <1>4, <1>5, ConcatProperties

\* What is gone is not in the list any more, the rest is.
LEMMA WithoutPlaces ==
  ASSUME NEW T, NEW list \in Seq(T), NEW gone
  PROVE  /\ Without(list, gone) \in Seq(T \ gone)
         /\ \A i \in 1..Len(list) : list[i] \notin gone =>
              \E k \in 1..Len(Without(list, gone)) : Without(list, gone)[k] = list[i]
<1> DEFINE I == {k \in 1..Len(list) : list[k] \notin gone}
<1>1. I \in SUBSET (1..Len(list)) /\ \A i \in I : list[i] \in T \ gone
  OBVIOUS
<1>2. \A i \in 1..Len(list) : list[i] \notin gone => i \in I
  OBVIOUS
<1>3. Without(list, gone) = Chosen(list, I)
  BY DEF Without
<1> HIDE DEF I
<1>4. /\ Chosen(list, I) \in Seq(T \ gone)
      /\ \A i \in I : \E k \in 1..Len(Chosen(list, I)) : Chosen(list, I)[k] = list[i]
  BY <1>1, ChosenPlaces
<1> QED
  BY <1>2, <1>3, <1>4

\* A list of items of a set is one of items of a larger set.
LEMMA SeqGrows ==
  ASSUME NEW S, NEW T, S \subseteq T, NEW list \in Seq(S)
  PROVE  list \in Seq(T)
  OBVIOUS

-----------------------------------------------------------------------------
(* The interest set, and the descriptors it is about. *)

Kernel ==
  /\ tab \in [Fds -> Descs \cup {NoDesc}] /\ held \subseteq Descs /\ counter \in [Descs -> Nat]
  /\ interest \subseteq Item /\ IsFiniteSet(interest) /\ rlist \in Seq(interest)

\* A child or a number of the shell has the description.
Alive(d) == d \in held \/ \E fd \in Fds : tab[fd] = d

\* An item tells the number it was added with; the script wants it, or has closed its number
\* and the description is open still.
Current ==
  \A it \in interest : /\ it.data = it.fd
                       /\ \/ <<it.fd, it.d>> \in wanted /\ tab[it.fd] = it.d
                          \/ <<it.fd, it.d>> \in shut /\ Alive(it.d)

KernelInv == Kernel /\ Current

\* At first nothing is registered.
LEMMA KernelInit == ASSUME WaitsInit PROVE KernelInv
<1>1. tab = First /\ interest = {} /\ rlist = <<>>
  BY DEF WaitsInit
<1>2. held \subseteq Descs
  BY WaitsAssumption DEF WaitsInit
<1>3. counter \in [Descs -> Nat]
  BY DEF WaitsInit
<1> QED
  BY <1>1, <1>2, <1>3, FS_EmptySet, WaitsAssumption DEF KernelInv, Kernel, Current, Alive

\* Which descriptors are open stays; the list may change.
LEMMA ListedStep ==
  ASSUME KernelInv, UNCHANGED <<tab, held, interest, wanted, shut>>,
         counter' \in [Descs -> Nat], rlist' \in Seq(interest)
  PROVE  KernelInv'
  BY DEF KernelInv, Kernel, Current, Alive

\* The parts of an item.
LEMMA ItemFields ==
  ASSUME Kernel, NEW it \in interest
  PROVE  it \in Item /\ it.fd \in Fds /\ it.d \in Descs
  BY DEF Kernel, Item

\* epoll add
LEMMA AddStep ==
  ASSUME KernelInv, NEW fd \in Fds, NEW et \in BOOLEAN, EpollAdd(fd, et)
  PROVE  KernelInv'
<1> DEFINE it == [fd |-> fd, d |-> tab[fd], data |-> fd, et |-> et]
<1>1. /\ UNCHANGED <<tab, held, counter, shut>> /\ tab[fd] # NoDesc
      /\ interest' = interest \cup {it} /\ wanted' = wanted \cup {<<fd, tab[fd]>>}
      /\ rlist' = IF Readable(it.d) THEN Notified(rlist, {it}) ELSE rlist
  BY DEF EpollAdd, Added, Open
<1>2. it \in Item /\ it.fd = fd /\ it.d = tab[fd] /\ it.data = fd
  BY <1>1 DEF KernelInv, Kernel, Item
<1> HIDE DEF it
<1>3. interest' \subseteq Item /\ IsFiniteSet(interest')
  BY <1>1, <1>2, FS_AddElement DEF KernelInv, Kernel
<1>4. rlist \in Seq(interest')
  BY <1>1, SeqGrows DEF KernelInv, Kernel
<1>5. Notified(rlist, {it}) \in Seq(interest')
  <2>1. {it} \in SUBSET interest'
    BY <1>1
  <2> QED
    BY <1>3, <1>4, <2>1, NotifiedType
<1>6. Kernel'
  BY <1>1, <1>3, <1>4, <1>5 DEF KernelInv, Kernel
<1>7. Current'
  BY <1>1, <1>2 DEF KernelInv, Current, Alive
<1> QED
  BY <1>6, <1>7 DEF KernelInv

\* epoll mod
LEMMA ModStep ==
  ASSUME KernelInv, NEW fd \in Fds, NEW et \in BOOLEAN, EpollMod(fd, et)
  PROVE  KernelInv'
<1>1. PICK it \in interest : Modified(fd, it, [it EXCEPT !.et = et, !.data = fd])
  BY DEF EpollMod
<1> DEFINE new == [it EXCEPT !.et = et, !.data = fd]
           list == [k \in 1..Len(rlist) |-> IF rlist[k] = it THEN new ELSE rlist[k]]
<1>2. UNCHANGED <<tab, held, counter, wanted, shut>> /\ it.fd = fd
  BY <1>1 DEF Modified
<1>3. new \in Item /\ new.fd = it.fd /\ new.d = it.d /\ new.data = it.fd
  BY <1>2 DEF KernelInv, Kernel, Item
<1>4. /\ interest' = (interest \ {it}) \cup {new}
      /\ rlist' = IF Readable(it.d) THEN Notified(list, {new}) ELSE list
  BY <1>1 DEF Modified
<1> HIDE DEF new
<1>5. interest' \subseteq Item /\ IsFiniteSet(interest')
  <2>1. IsFiniteSet(interest \ {it})
    BY FS_RemoveElement DEF KernelInv, Kernel
  <2> QED
    BY <1>3, <1>4, <2>1, FS_AddElement DEF KernelInv, Kernel
<1>6. list \in Seq(interest')
  <2>1. Len(rlist) \in Nat /\ \A k \in 1..Len(rlist) : rlist[k] \in interest
    BY DEF KernelInv, Kernel
  <2>2. \A k \in 1..Len(rlist) : (IF rlist[k] = it THEN new ELSE rlist[k]) \in interest'
    BY <1>4, <2>1
  <2> QED
    BY <2>1, <2>2, IsASeq
<1> HIDE DEF list
<1>7. Notified(list, {new}) \in Seq(interest')
  <2>1. {new} \in SUBSET interest'
    BY <1>4
  <2> QED
    BY <1>5, <1>6, <2>1, NotifiedType
<1>8. Kernel'
  BY <1>2, <1>4, <1>5, <1>6, <1>7 DEF KernelInv, Kernel
<1>9. Current'
  BY <1>2, <1>3, <1>4 DEF KernelInv, Current, Alive
<1> QED
  BY <1>8, <1>9 DEF KernelInv

\* Some items go.
LEMMA GoneTyped ==
  ASSUME KernelInv, NEW gone, interest' = interest \ gone, rlist' = Without(rlist, gone),
         tab' \in [Fds -> Descs \cup {NoDesc}], held' \subseteq Descs, UNCHANGED counter
  PROVE  Kernel'
<1>1. IsFiniteSet(interest')
  <2>1. interest' \in SUBSET interest
    OBVIOUS
  <2> QED
    BY <2>1, FS_Subset DEF KernelInv, Kernel
<1>2. rlist' \in Seq(interest')
  BY WithoutPlaces DEF KernelInv, Kernel
<1> QED
  BY <1>1, <1>2 DEF KernelInv, Kernel

\* epoll del
LEMMA DelStep ==
  ASSUME KernelInv, NEW fd \in Fds, EpollDel(fd)
  PROVE  KernelInv'
<1> DEFINE gone == {it \in interest : it.fd = fd /\ it.d = tab[fd]}
<1>1. /\ UNCHANGED <<tab, held, counter>>
      /\ wanted' = wanted \ {<<fd, tab[fd]>>} /\ shut' = shut \ {<<fd, tab[fd]>>}
      /\ interest' = interest \ gone /\ rlist' = Without(rlist, gone)
  BY DEF EpollDel
<1>2. \A it \in interest' : it \in interest /\ ~(it.fd = fd /\ it.d = tab[fd])
  BY <1>1
<1> HIDE DEF gone
<1>3. Kernel'
  BY <1>1, GoneTyped DEF KernelInv, Kernel
<1>4. Current'
  BY <1>1, <1>2 DEF KernelInv, Current, Alive
<1> QED
  BY <1>3, <1>4 DEF KernelInv

\* What the kernel forgets of some descriptions.
LEMMA Forgets ==
  ASSUME KernelInv, NEW ds, Forget(ds),
         tab' \in [Fds -> Descs \cup {NoDesc}], held' \subseteq Descs, UNCHANGED counter
  PROVE  /\ Kernel'
         /\ \A it \in interest' : it \in interest /\ it.d \notin ds
         /\ \A it \in interest' : <<it.fd, it.d>> \in shut => <<it.fd, it.d>> \in shut'
<1> DEFINE gone == {it \in interest : it.d \in ds}
<1>1. interest' = interest \ gone /\ rlist' = Without(rlist, gone)
  BY DEF Forget
<1>2. \A it \in interest' : it \in interest /\ it.d \notin ds
  BY <1>1
<1>3. \A it \in interest' : <<it.fd, it.d>> \in shut => <<it.fd, it.d>> \in shut'
  BY <1>2 DEF Forget
<1> HIDE DEF gone
<1>4. Kernel'
  BY <1>1, GoneTyped
<1> QED
  BY <1>2, <1>3, <1>4

\* close
LEMMA CloseStep ==
  ASSUME KernelInv, NEW fd \in Fds, Close(fd)
  PROVE  KernelInv'
<1>1. /\ UNCHANGED <<held, counter>> /\ tab[fd] # NoDesc
      /\ tab' = [tab EXCEPT ![fd] = NoDesc] /\ wanted' = wanted \ {<<fd, tab[fd]>>}
  BY DEF Close, Open
<1>2. tab' \in [Fds -> Descs \cup {NoDesc}] /\ held' \subseteq Descs
  BY <1>1 DEF KernelInv, Kernel
<1>3. \A other \in Fds \ {fd} : tab'[other] = tab[other]
  BY <1>1 DEF KernelInv, Kernel
<1>4. CASE Kept(fd)
  <2>1. UNCHANGED <<interest, rlist>> /\ shut' = shut \cup ({<<fd, tab[fd]>>} \cap wanted)
    BY <1>4 DEF Close
  <2>2. ASSUME NEW d, Alive(d) PROVE Alive(d)'
    BY <1>1, <1>3, <1>4, <2>2 DEF Alive, Kept
  <2>3. ASSUME NEW it \in interest
        PROVE  \/ <<it.fd, it.d>> \in wanted' /\ tab'[it.fd] = it.d
               \/ <<it.fd, it.d>> \in shut' /\ Alive(it.d)'
    <3>1. it.fd \in Fds
      BY ItemFields DEF KernelInv
    <3>2. CASE <<it.fd, it.d>> \in wanted /\ tab[it.fd] = it.d
      <4>1. Alive(it.d)
        BY <3>1, <3>2 DEF Alive
      <4>2. CASE it.fd = fd
        BY <2>1, <2>2, <3>2, <4>1, <4>2
      <4>3. CASE it.fd # fd
        BY <1>1, <1>3, <3>1, <3>2, <4>3
      <4> QED
        BY <4>2, <4>3
    <3>3. CASE <<it.fd, it.d>> \in shut /\ Alive(it.d)
      BY <2>1, <2>2, <3>3
    <3> QED
      BY <3>2, <3>3 DEF KernelInv, Current
  <2> QED
    BY <1>1, <1>2, <2>1, <2>3 DEF KernelInv, Kernel, Current
<1>5. CASE ~Kept(fd)
  <2>1. /\ Kernel'
        /\ \A it \in interest' : it \in interest /\ it.d # tab[fd]
        /\ \A it \in interest' : <<it.fd, it.d>> \in shut => <<it.fd, it.d>> \in shut'
    BY <1>1, <1>2, <1>5, Forgets DEF Close
  <2>2. ASSUME NEW it \in interest'
        PROVE  /\ it.data = it.fd
               /\ \/ <<it.fd, it.d>> \in wanted' /\ tab'[it.fd] = it.d
                  \/ <<it.fd, it.d>> \in shut' /\ Alive(it.d)'
    <3>1. it \in interest /\ it.fd \in Fds /\ it.d # tab[fd]
      BY <2>1, ItemFields DEF KernelInv
    <3>2. <<it.fd, it.d>> # <<fd, tab[fd]>>
      BY <3>1
    <3>3. Alive(it.d) => Alive(it.d)'
      BY <1>1, <1>3, <3>1 DEF Alive
    <3>4. tab[it.fd] = it.d => tab'[it.fd] = it.d
      BY <1>3, <3>1
    <3> QED
      BY <1>1, <2>1, <3>1, <3>2, <3>3, <3>4 DEF KernelInv, Current
  <2> QED
    BY <2>1, <2>2 DEF KernelInv, Current
<1> QED
  BY <1>4, <1>5

\* A free number is used, for a description that nobody has or for one that is open.
LEMMA ReuseStep ==
  ASSUME KernelInv, NEW fd \in Fds, NEW d \in Descs, tab[fd] = NoDesc,
         tab' = [tab EXCEPT ![fd] = d], counter' \in [Descs -> Nat],
         UNCHANGED <<held, interest, rlist, wanted, shut>>
  PROVE  KernelInv'
<1>1. Kernel'
  BY DEF KernelInv, Kernel
<1>2. \A other \in Fds \ {fd} : tab'[other] = tab[other]
  BY DEF KernelInv, Kernel
<1>3. ASSUME NEW it \in interest
      PROVE  /\ it.data = it.fd
             /\ \/ <<it.fd, it.d>> \in wanted' /\ tab'[it.fd] = it.d
                \/ <<it.fd, it.d>> \in shut' /\ Alive(it.d)'
  <2>1. it.fd \in Fds /\ it.d \in Descs /\ it.d # NoDesc
    BY ItemFields, WaitsAssumption DEF KernelInv
  <2>2. tab[it.fd] = it.d => tab'[it.fd] = it.d
    BY <1>2, <2>1
  <2>3. Alive(it.d) => Alive(it.d)'
    BY <1>2, <2>1 DEF Alive
  <2> QED
    BY <2>2, <2>3 DEF KernelInv, Current
<1> QED
  BY <1>1, <1>3 DEF KernelInv, Current

\* A child keeps what the shell has.
LEMMA ForkStep ==
  ASSUME KernelInv, Fork
  PROVE  KernelInv'
<1>1. /\ UNCHANGED <<tab, counter, interest, rlist, wanted, shut>>
      /\ held' = held \cup {tab[fd] : fd \in Open}
  BY DEF Fork
<1>2. held' \subseteq Descs
  BY <1>1 DEF KernelInv, Kernel, Open
<1> QED
  BY <1>1, <1>2 DEF KernelInv, Kernel, Current, Alive

\* The children end: what they alone kept is forgotten.
LEMMA ChildrenEndStep ==
  ASSUME KernelInv, ChildrenEnd
  PROVE  KernelInv'
<1> DEFINE ds == held \ {tab[fd] : fd \in Open}
<1>1. UNCHANGED <<tab, counter, wanted>> /\ held' = {} /\ Forget(ds)
  BY DEF ChildrenEnd
<1>2. /\ Kernel'
      /\ \A it \in interest' : it \in interest /\ it.d \notin ds
      /\ \A it \in interest' : <<it.fd, it.d>> \in shut => <<it.fd, it.d>> \in shut'
  <2>1. tab' \in [Fds -> Descs \cup {NoDesc}] /\ held' \subseteq Descs
    BY <1>1 DEF KernelInv, Kernel
  <2> HIDE DEF ds
  <2> QED
    BY <1>1, <2>1, Forgets
<1>3. ASSUME NEW it \in interest', Alive(it.d) PROVE Alive(it.d)'
  BY <1>1, <1>2, <1>3 DEF Alive, Open
<1>4. Current'
  BY <1>1, <1>2, <1>3 DEF KernelInv, Current
<1> QED
  BY <1>2, <1>4 DEF KernelInv

-----------------------------------------------------------------------------
(* What the shell waits for. *)

Ops == [do : {"none", "poll", "epoll", "accept", "sleep"}, at : {"idle", "wait", "accept", "drain"},
        fds : SUBSET Fds, i : BOOLEAN, time : Nat \cup {-1}, left : Nat \cup {-1},
        waited : Nat, again : Nat, found : SUBSET (Item \cup Fds), due : SUBSET Item,
        stolen : BOOLEAN, res : {"", "ready", "timeout", "EINTR"}]

\* The longest time a wait may take that was started again some times.
Limit(time, again) == time * (1 + again)

\* Which call does what; only a poll starts again.
Asked ==
  /\ op.at # "idle" => op.res = "" /\ op.do # "none"
  /\ op.do = "sleep" => op.time # -1
  /\ op.do = "accept" => \E fd \in Fds : op.fds = {fd}
  /\ op.do # "poll" => op.again = 0
  /\ op.at = "drain" => op.do = "epoll"
  /\ op.at = "accept" => op.do = "accept"

\* The time that passed and the time that is left are what was asked for, and more only after
\* interruptions.
InTime ==
  op.at = "wait" => IF op.time = -1 THEN op.left = -1
                    ELSE /\ op.left \in Nat /\ op.waited + op.left >= op.time
                         /\ op.waited + op.left <= Limit(op.time, op.again)

\* accept(2) finds the connection that poll saw, unless a child took it.
Connected ==
  op.at = "accept" /\ op.time # -1 =>
    op.stolen \/ (Ready # {} /\ op.waited <= op.time)

\* What the waits that are over took.
Took ==
  /\ op.do = "sleep" /\ op.res = "ready" => op.waited = op.time
  /\ op.res = "timeout" => /\ op.time # -1
                           /\ op.waited >= op.time /\ op.waited <= Limit(op.time, op.again)
  /\ op.do = "accept" /\ op.time # -1 /\ op.waited > op.time => op.stolen

\* What the first call of epoll wait saw was told, or is listed and ready.
Owed ==
  op.at = "drain" =>
    \A it \in op.due : \/ it \in op.found
                       \/ Live(it) /\ \E k \in 1..Len(rlist) : rlist[k] = it

OpInv == op \in Ops /\ Asked /\ InTime /\ Connected /\ Took /\ Owed /\ DrainComplete

\* The limit without interruptions, and with one more.
LEMMA Limits ==
  ASSUME NEW time \in Nat, NEW again \in Nat
  PROVE  /\ Limit(time, again) \in Nat /\ Limit(time, 0) = time
         /\ Limit(time, again + 1) = Limit(time, again) + time
  BY DEF Limit

\* The history says what the property asks.
LEMMA TookTimes == ASSUME op \in Ops, Took PROVE WaitTimes
  BY DEF Ops, Took, Limit, WaitTimes, Forever

\* The parts of a subcommand in progress.
LEMMA OpFields ==
  ASSUME op \in Ops
  PROVE  /\ op.do \in {"none", "poll", "epoll", "accept", "sleep"}
         /\ op.at \in {"idle", "wait", "accept", "drain"}
         /\ op.fds \subseteq Fds /\ op.i \in BOOLEAN /\ op.stolen \in BOOLEAN
         /\ op.time \in Nat \cup {-1} /\ op.left \in Nat \cup {-1}
         /\ op.waited \in Nat /\ op.again \in Nat
         /\ op.found \subseteq Item \cup Fds /\ op.due \subseteq Item
         /\ op.res \in {"", "ready", "timeout", "EINTR"}
  BY DEF Ops

\* A call that does not wait.
LEMMA NoneStep == ASSUME op' = None PROVE OpInv'
<1>1. op' \in Ops
  BY DEF None, Ops
<1>2. op'.at = "idle" /\ op'.do = "none" /\ op'.res = "" /\ op'.again = 0
  BY DEF None
<1> QED
  BY <1>1, <1>2 DEF OpInv, Asked, InTime, Connected, Took, Owed, DrainComplete

\* A wait begins: nothing of its time is over.
LEMMA WaitStep ==
  ASSUME NEW do \in {"poll", "epoll", "accept", "sleep"}, NEW fds \in Watched \cup {{}},
         NEW i \in BOOLEAN, NEW time \in {Forever} \cup Times, Wait(do, fds, i, time)
  PROVE  OpInv'
<1>1. /\ fds \subseteq Fds /\ time \in Nat \cup {-1}
      /\ do = "accept" => \E fd \in Fds : fds = {fd}
      /\ do = "sleep" => time # -1
  BY WaitsAssumption DEF Forever, Wait
<1>2. op' = [do |-> do, at |-> IF do = "accept" /\ time = -1 THEN "accept" ELSE "wait", fds |-> fds,
             i |-> i, time |-> time, left |-> time, waited |-> 0, again |-> 0, found |-> {},
             due |-> {}, stolen |-> FALSE, res |-> ""]
  BY DEF Wait, None, Forever
<1>3. op' \in Ops
  BY <1>1, <1>2 DEF Ops
<1>4. time # -1 => time \in Nat /\ ~(0 > time) /\ 0 + time = time /\ Limit(time, 0) = time
  BY <1>1, Limits, 0 \in Nat
<1>5. /\ op'.do = do /\ op'.fds = fds /\ op'.time = time /\ op'.left = time /\ op'.waited = 0
      /\ op'.again = 0 /\ op'.res = "" /\ op'.at \in {"wait", "accept"}
      /\ op'.at = "accept" => do = "accept" /\ time = -1
  BY <1>2
<1>6. Asked'
  BY <1>1, <1>5 DEF Asked
<1>7. InTime'
  <2>1. CASE time = -1
    BY <1>5, <2>1 DEF InTime
  <2>2. CASE time # -1
    <3>1. Limit(op'.time, op'.again) = time
      BY <1>4, <1>5, <2>2
    <3>2. op'.waited + op'.left = time /\ op'.left \in Nat /\ op'.time = time
      BY <1>4, <1>5, <2>2
    <3>3. time >= time /\ time <= time
      BY <1>4, <2>2
    <3> QED
      BY <2>2, <3>1, <3>2, <3>3 DEF InTime
  <2> QED
    BY <2>1, <2>2
<1>8. Connected' /\ Took' /\ Owed' /\ DrainComplete'
  <2>1. op'.time # -1 => ~(op'.waited > op'.time)
    BY <1>4, <1>5
  <2> QED
    BY <1>5, <2>1 DEF Connected, Took, Owed, DrainComplete
<1> QED
  BY <1>3, <1>6, <1>7, <1>8 DEF OpInv

\* The descriptors that are ready stay so when no counter falls.
LEMMA ReadyGrows ==
  ASSUME KernelInv, op \in Ops, op'.fds = op.fds, UNCHANGED tab, counter' \in [Descs -> Nat],
         \A d \in Descs : counter[d] <= counter'[d], Ready # {}
  PROVE  Ready' # {}
<1>1. PICK fd \in op.fds : tab[fd] = NoDesc \/ counter[tab[fd]] > 0
  BY DEF Ready, Readable
<1>2. fd \in Fds
  BY OpFields
<1>3. tab[fd] = NoDesc \/ counter'[tab[fd]] > 0
  <2>1. CASE tab[fd] = NoDesc
    BY <2>1
  <2>2. CASE tab[fd] # NoDesc
    <3>1. tab[fd] \in Descs
      BY <1>2, <2>2 DEF KernelInv, Kernel
    <3>2. counter[tab[fd]] \in Nat /\ counter'[tab[fd]] \in Nat /\ counter[tab[fd]] <= counter'[tab[fd]]
      BY <3>1 DEF KernelInv, Kernel
    <3> QED
      BY <1>1, <2>2, <3>2
  <2> QED
    BY <2>1, <2>2
<1> QED
  BY <1>1, <1>3 DEF Ready, Readable

\* A child writes.
LEMMA KidWritesStep ==
  ASSUME KernelInv, OpInv, NEW d \in Descs, KidWrites(d)
  PROVE  KernelInv' /\ OpInv'
<1>1. /\ UNCHANGED <<tab, held, interest, wanted, shut, op>>
      /\ counter' = [counter EXCEPT ![d] = @ + 1] /\ rlist' = Notified(rlist, ItemsOf(d))
  BY DEF KidWrites
<1>2. counter' \in [Descs -> Nat] /\ \A e \in Descs : counter[e] <= counter'[e]
  BY <1>1 DEF KernelInv, Kernel
<1>3. /\ rlist' \in Seq(interest) /\ Len(rlist) <= Len(rlist')
      /\ \A k \in 1..Len(rlist) : rlist'[k] = rlist[k]
  <2>1. ItemsOf(d) \in SUBSET interest
    BY DEF ItemsOf
  <2> QED
    BY <1>1, <2>1, NotifiedType DEF KernelInv, Kernel
<1>4. KernelInv'
  BY <1>1, <1>2, <1>3, ListedStep
<1>5. Connected'
  BY <1>1, <1>2, ReadyGrows DEF OpInv, Connected
<1>6. Owed'
  <2>1. Len(rlist) \in Nat /\ Len(rlist') \in Nat
    BY <1>3 DEF KernelInv, Kernel
  <2>2. \A k \in 1..Len(rlist) : k \in 1..Len(rlist')
    BY <1>3, <2>1
  <2>3. \A it \in op.due : Live(it) => Live(it)'
    <3>1. \A it \in op.due : it.d \in Descs
      BY OpFields DEF OpInv, Item
    <3> QED
      BY <1>2, <3>1 DEF Live, Readable, KernelInv, Kernel
  <2> QED
    BY <1>1, <1>3, <2>2, <2>3 DEF OpInv, Owed
<1> QED
  BY <1>1, <1>4, <1>5, <1>6 DEF OpInv, Asked, InTime, Took, DrainComplete

\* A child takes: what it empties is not due any more, and stolen if accept(2) waits for it.
LEMMA KidTakesStep ==
  ASSUME KernelInv, OpInv, NEW d \in Descs, NEW k \in 1..MaxCount, KidTakes(d, k)
  PROVE  KernelInv' /\ OpInv'
<1>1. /\ UNCHANGED <<tab, held, interest, rlist, wanted, shut>> /\ k \in {1, counter[d]} /\ counter[d] > 0
      /\ counter' = [counter EXCEPT ![d] = @ - k]
      /\ op' = [op EXCEPT !.stolen = @ \/ (op.at = "accept" /\ \E fd \in op.fds : tab[fd] = d),
                          !.due = IF counter[d] = k THEN {it \in @ : it.d # d} ELSE @]
  BY DEF KidTakes, Readable
<1>2. counter[d] \in Nat /\ counter[d] - k \in Nat /\ (counter[d] # k => counter[d] - k > 0)
  BY <1>1 DEF KernelInv, Kernel
<1>3. /\ counter' \in [Descs -> Nat] /\ \A e \in Descs : e # d => counter'[e] = counter[e]
      /\ counter'[d] = counter[d] - k
  BY <1>1, <1>2 DEF KernelInv, Kernel
<1>4. KernelInv'
  BY <1>1, <1>3, ListedStep DEF KernelInv, Kernel
<1>5. /\ op'.do = op.do /\ op'.at = op.at /\ op'.fds = op.fds /\ op'.time = op.time
      /\ op'.left = op.left /\ op'.waited = op.waited /\ op'.again = op.again
      /\ op'.found = op.found /\ op'.res = op.res
      /\ op'.due = IF counter[d] = k THEN {it \in op.due : it.d # d} ELSE op.due
      /\ (op'.stolen <=> op.stolen \/ (op.at = "accept" /\ \E fd \in op.fds : tab[fd] = d))
      /\ op' \in Ops
  BY <1>1 DEF OpInv, Ops
<1>6. Asked' /\ InTime' /\ Took'
  BY <1>5 DEF OpInv, Asked, InTime, Took
<1>7. Connected'
  <2> SUFFICES ASSUME op.at = "accept", op.time # -1, ~op'.stolen
               PROVE  Ready' # {} /\ op.waited <= op.time
    BY <1>5 DEF Connected
  <2>1. Ready # {} /\ op.waited <= op.time /\ \A fd \in op.fds : tab[fd] # d
    BY <1>5 DEF OpInv, Connected
  <2>2. PICK fd \in op.fds : tab[fd] = NoDesc \/ counter[tab[fd]] > 0
    BY <2>1 DEF Ready, Readable
  <2>3. fd \in Fds /\ tab[fd] # d
    BY <2>1, OpFields DEF OpInv
  <2>4. tab[fd] = NoDesc \/ counter'[tab[fd]] > 0
    BY <1>3, <2>2, <2>3 DEF KernelInv, Kernel
  <2> QED
    BY <1>1, <1>5, <2>1, <2>4 DEF Ready, Readable
<1>8. Owed'
  <2> SUFFICES ASSUME op.at = "drain", NEW it \in op'.due, it \notin op.found
               PROVE  Live(it)' /\ \E j \in 1..Len(rlist) : rlist[j] = it
    BY <1>1, <1>5 DEF Owed
  <2>1. it \in op.due /\ (counter[d] = k => it.d # d)
    BY <1>5
  <2>2. Live(it) /\ \E j \in 1..Len(rlist) : rlist[j] = it
    BY <2>1 DEF OpInv, Owed
  <2>3. it.d \in Descs
    BY <2>1, OpFields DEF OpInv, Item
  <2>4. counter'[it.d] > 0
    BY <1>2, <1>3, <2>1, <2>2, <2>3 DEF Live, Readable
  <2> QED
    BY <2>2, <2>4 DEF Live, Readable
<1>9. DrainComplete'
  <2>1. op'.due \subseteq op.due
    BY <1>5
  <2> QED
    BY <1>5, <2>1 DEF OpInv, DrainComplete
<1> QED
  BY <1>4, <1>5, <1>6, <1>7, <1>8, <1>9 DEF OpInv

\* What is forgotten is not due.
LEMMA ChildrenEndOp ==
  ASSUME KernelInv, OpInv, ChildrenEnd
  PROVE  OpInv'
<1> DEFINE gone == {it \in interest : it.d \in held \ {tab[fd] : fd \in Open}}
<1>1. /\ UNCHANGED <<tab, counter>> /\ op' = [op EXCEPT !.due = @ \cap interest']
      /\ interest' = interest \ gone /\ rlist' = Without(rlist, gone)
  BY DEF ChildrenEnd, Forget
<1>2. /\ op'.do = op.do /\ op'.at = op.at /\ op'.fds = op.fds /\ op'.time = op.time
      /\ op'.left = op.left /\ op'.waited = op.waited /\ op'.again = op.again
      /\ op'.found = op.found /\ op'.res = op.res /\ op'.stolen = op.stolen
      /\ op'.due = op.due \cap interest' /\ op' \in Ops
  BY <1>1 DEF OpInv, Ops
<1>3. Asked' /\ InTime' /\ Took' /\ Connected' /\ DrainComplete'
  BY <1>1, <1>2 DEF OpInv, Asked, InTime, Took, Connected, DrainComplete, Ready, Readable
<1>4. Owed'
  <2> SUFFICES ASSUME op.at = "drain", NEW it \in op'.due, it \notin op.found
               PROVE  Live(it)' /\ \E j \in 1..Len(rlist') : rlist'[j] = it
    BY <1>2 DEF Owed
  <2>1. it \in op.due /\ it \notin gone
    BY <1>1, <1>2
  <2>2. Live(it) /\ \E j \in 1..Len(rlist) : rlist[j] = it
    BY <2>1 DEF OpInv, Owed
  <2> HIDE DEF gone
  <2>3. \E j \in 1..Len(rlist') : rlist'[j] = it
    <3>1. rlist \in Seq(interest)
      BY DEF KernelInv, Kernel
    <3>2. /\ Without(rlist, gone) \in Seq(interest \ gone)
          /\ \A i \in 1..Len(rlist) : rlist[i] \notin gone =>
               \E k \in 1..Len(Without(rlist, gone)) : Without(rlist, gone)[k] = rlist[i]
      BY ONLY <3>1, WithoutPlaces
    <3>3. PICK i \in 1..Len(rlist) : rlist[i] = it
      BY <2>2
    <3> QED
      BY <1>1, <2>1, <3>2, <3>3
  <2> QED
    BY <1>1, <2>2, <2>3 DEF Live, Readable
<1> QED
  BY <1>2, <1>3, <1>4 DEF OpInv

\* The subcommands that do not wait, but count.
LEMMA CountStep ==
  ASSUME KernelInv,
         \/ \E fd \in Fds, k \in 1..MaxCount : EventfdRead(fd, k)
         \/ \E fd \in Fds : EventfdWrite(fd)
         \/ \E s, i \in Values : TimerfdSet(s, i)
  PROVE  KernelInv' /\ op' = None
<1>1. ASSUME NEW fd \in Fds, NEW k \in 1..MaxCount, EventfdRead(fd, k)
      PROVE  KernelInv' /\ op' = None
  <2>1. /\ UNCHANGED <<tab, held, interest, rlist, wanted, shut>> /\ op' = None /\ tab[fd] # NoDesc
        /\ k \in {1, counter[tab[fd]]} /\ counter[tab[fd]] > 0
        /\ counter' = [counter EXCEPT ![tab[fd]] = @ - k]
    BY <1>1 DEF EventfdRead, Op, Open, Readable
  <2>2. tab[fd] \in Descs
    BY <2>1 DEF KernelInv, Kernel
  <2>3. counter[tab[fd]] \in Nat
    BY <2>2 DEF KernelInv, Kernel
  <2>4. counter[tab[fd]] - k \in Nat
    BY <2>1, <2>3
  <2>5. counter' \in [Descs -> Nat]
    BY <2>1, <2>4 DEF KernelInv, Kernel
  <2> QED
    BY <2>1, <2>5, ListedStep DEF KernelInv, Kernel
<1>2. ASSUME NEW fd \in Fds, EventfdWrite(fd) PROVE KernelInv' /\ op' = None
  <2>1. /\ UNCHANGED <<tab, held, interest, wanted, shut>> /\ op' = None /\ tab[fd] # NoDesc
        /\ counter' = [counter EXCEPT ![tab[fd]] = @ + 1]
        /\ rlist' = Notified(rlist, ItemsOf(tab[fd]))
    BY <1>2 DEF EventfdWrite, Op, Open
  <2>2. counter' \in [Descs -> Nat]
    BY <2>1 DEF KernelInv, Kernel
  <2>3. ItemsOf(tab[fd]) \in SUBSET interest
    BY DEF ItemsOf
  <2>4. rlist' \in Seq(interest)
    BY <2>1, <2>3, NotifiedType DEF KernelInv, Kernel
  <2> QED
    BY <2>1, <2>2, <2>4, ListedStep
<1>3. ASSUME NEW s \in Values, NEW i \in Values, TimerfdSet(s, i) PROVE KernelInv' /\ op' = None
  <2>1. /\ UNCHANGED <<tab, held, interest, rlist, wanted, shut>> /\ op' = None
        /\ counter' = [counter EXCEPT ![Timer] = 0]
    BY <1>3 DEF TimerfdSet, Op
  <2>2. counter' \in [Descs -> Nat]
    BY <2>1 DEF KernelInv, Kernel
  <2> QED
    BY <2>1, <2>2, ListedStep DEF KernelInv, Kernel
<1> QED
  BY <1>1, <1>2, <1>3

-----------------------------------------------------------------------------
(* The steps of the waits. *)

\* epoll_wait looks at places of the list; at all of them unless its buffer is full.
LEMMA LookedPlace ==
  ASSUME KernelInv
  PROVE  /\ Looked \in 0..Len(rlist) /\ (~Full => Looked = Len(rlist))
         /\ LiveAmong(Looked) \subseteq 1..Len(rlist)
<1> DEFINE I == LiveAmong(Len(rlist))
<1>1. Len(rlist) \in Nat /\ I \in SUBSET (1..Len(rlist))
  BY DEF KernelInv, Kernel, LiveAmong
<1>2. Cardinality(I) \in Nat /\ \A k \in 1..Cardinality(I) : Nth(I, k) \in I
  <2> HIDE DEF I
  <2> QED
    BY <1>1, NthPlace
<1>3. Full => MaxEv \in 1..Cardinality(I)
  BY <1>2, WaitsAssumption DEF Full
<1>4. Full => Looked \in 1..Len(rlist)
  BY <1>1, <1>2, <1>3 DEF Looked
<1>5. ~Full => Looked = Len(rlist)
  BY DEF Looked
<1>6. Looked \in 0..Len(rlist)
  BY <1>1, <1>4, <1>5
<1> QED
  BY <1>1, <1>5, <1>6 DEF LiveAmong

\* What epoll_wait finds ready it tells, or has not looked at.
LEMMA CollectedPlaces ==
  ASSUME KernelInv, Collected
  PROVE  /\ rlist' \in Seq(interest) /\ Reported \subseteq interest
         /\ \A k \in 1..Len(rlist) : Live(rlist[k]) =>
              \/ rlist[k] \in Reported
              \/ Full /\ \E j \in 1..Len(rlist') : rlist'[j] = rlist[k]
<1> DEFINE n == Len(rlist)
           rest == SubSeq(rlist, Looked + 1, n)
           I == {k \in LiveAmong(Looked) : ~rlist[k].et}
           again == Chosen(rlist, I)
<1>1. n \in Nat /\ rlist \in Seq(interest) /\ \A k \in 1..n : rlist[k] \in interest
  BY DEF KernelInv, Kernel
<1>2. Looked \in 0..n /\ (~Full => Looked = n) /\ LiveAmong(Looked) \subseteq 1..n
  BY LookedPlace
<1>3. /\ rest \in Seq(interest) /\ Len(rest) = n - Looked
      /\ \A j \in 1..(n - Looked) : rest[j] = rlist[Looked + j]
  <2>1. Looked + 1 \in Int /\ n \in Int /\ \A k \in (Looked + 1)..n : rlist[k] \in interest
    BY <1>1, <1>2
  <2> HIDE DEF n
  <2>2. /\ rest \in Seq(interest)
        /\ Len(rest) = IF Looked + 1 <= n THEN n - (Looked + 1) + 1 ELSE 0
        /\ \A j \in 1..(n - (Looked + 1) + 1) : rest[j] = rlist[(Looked + 1) + j - 1]
    BY <2>1, SubSeqProperties
  <2>3. n - (Looked + 1) + 1 = n - Looked /\ \A j \in Int : (Looked + 1) + j - 1 = Looked + j
    BY <1>1, <1>2
  <2>4. Looked + 1 <= n \/ n - Looked = 0
    BY <1>1, <1>2
  <2> QED
    BY <1>1, <1>2, <2>2, <2>3, <2>4
<1>4. again \in Seq(interest)
  <2>1. I \in SUBSET (1..n) /\ \A k \in I : rlist[k] \in interest
    BY <1>1, <1>2
  <2> HIDE DEF I
  <2> QED
    BY <1>1, <2>1, ChosenPlaces
<1>5. rlist' = rest \o again
  BY DEF Collected
<1> HIDE DEF rest, again, I
<1>6. /\ rlist' \in Seq(interest) /\ Len(rlist') = Len(rest) + Len(again) /\ Len(again) \in Nat
      /\ \A j \in 1..Len(rest) : rlist'[j] = rest[j]
  <2>1. /\ rest \o again \in Seq(interest) /\ Len(rest \o again) = Len(rest) + Len(again)
        /\ \A j \in 1..(Len(rest) + Len(again)) :
             (rest \o again)[j] = IF j <= Len(rest) THEN rest[j] ELSE again[j - Len(rest)]
    BY <1>3, <1>4, ConcatProperties
  <2>2. Len(rest) \in Nat /\ Len(again) \in Nat
    BY <1>3, <1>4
  <2>3. \A j \in 1..Len(rest) : j \in 1..(Len(rest) + Len(again)) /\ j <= Len(rest)
    BY <2>2
  <2> HIDE DEF n
  <2> QED
    BY <1>5, <2>1, <2>2, <2>3
<1>7. Reported \subseteq interest
  BY <1>1, <1>2 DEF Reported
<1>8. ASSUME NEW k \in 1..n, Live(rlist[k])
      PROVE  \/ rlist[k] \in Reported
             \/ Full /\ \E j \in 1..Len(rlist') : rlist'[j] = rlist[k]
  <2>1. CASE k <= Looked
    <3>1. k \in 1..Looked
      BY <1>2, <2>1
    <3> QED
      BY <1>8, <3>1 DEF Reported, LiveAmong
  <2>2. CASE ~(k <= Looked)
    <3>1. k - Looked \in 1..(n - Looked) /\ Looked + (k - Looked) = k /\ Full
      BY <1>1, <1>2, <2>2
    <3>2. k - Looked \in 1..Len(rlist')
      BY <1>1, <1>2, <1>3, <1>6, <3>1
    <3>3. rlist'[k - Looked] = rlist[k]
      BY <1>3, <1>6, <3>1
    <3> QED
      BY <3>1, <3>2, <3>3
  <2> QED
    BY <2>1, <2>2
<1> QED
  BY <1>6, <1>7, <1>8

\* The kernel's side stays.
LEMMA KernelStays == ASSUME KernelInv, UNCHANGED kernel PROVE KernelInv'
  BY DEF KernelInv, Kernel, Current, Alive, kernel

\* A wait that is over.
Ends(res, found) ==
  /\ op'.at = "idle" /\ op'.res = res /\ op'.found = found
  /\ op'.do = op.do /\ op'.fds = op.fds /\ op'.time = op.time /\ op'.waited = op.waited
  /\ op'.again = op.again /\ op'.stolen = op.stolen /\ op'.due = op.due

\* What a subcommand that returns leaves of its record.
LEMMA Returned ==
  ASSUME op \in Ops, NEW res \in {"", "ready", "timeout", "EINTR"},
         NEW found \in SUBSET (Item \cup Fds), Returns(res, found)
  PROVE  Ends(res, found) /\ op' \in Ops
<1>1. op' = [op EXCEPT !.at = "idle", !.res = res, !.found = found]
  BY DEF Returns
<1> QED
  BY <1>1 DEF Ends, Ops

\* A wait may end when its history is as the properties ask.
LEMMA EndsStep ==
  ASSUME OpInv, NEW res, NEW found, Ends(res, found), op' \in Ops,
         op.do = "sleep" /\ res = "ready" => op.waited = op.time,
         res = "timeout" => /\ op.time # -1
                            /\ op.waited >= op.time /\ op.waited <= Limit(op.time, op.again),
         op.do = "epoll" /\ res = "ready" => op.due \subseteq found
  PROVE  OpInv'
<1>1. Asked' /\ InTime' /\ Connected' /\ Owed'
  BY DEF Ends, OpInv, Asked, InTime, Connected, Owed
<1>2. Took'
  BY DEF Ends, OpInv, Took
<1>3. DrainComplete'
  BY DEF Ends, DrainComplete
<1> QED
  BY <1>1, <1>2, <1>3 DEF OpInv

\* poll finds something; accept goes on to accept(2), in time.
LEMMA PollReadyStep ==
  ASSUME OpInv, PollReady
  PROVE  OpInv'
<1>1. op.at = "wait" /\ Ready # {} /\ UNCHANGED <<tab, counter>>
  BY DEF PollReady, kernel
<1>2. CASE op.do = "poll" /\ Returns("ready", Ready)
  <2>1. Ready \in SUBSET (Item \cup Fds)
    BY OpFields DEF OpInv, Ready
  <2>2. Ends("ready", Ready) /\ op' \in Ops
    BY <1>2, <2>1, Returned DEF OpInv
  <2> QED
    BY <1>2, <2>2, EndsStep
<1>3. CASE op.do = "accept" /\ op' = [op EXCEPT !.at = "accept"]
  <2>1. /\ op'.at = "accept" /\ op'.do = op.do /\ op'.fds = op.fds /\ op'.time = op.time
        /\ op'.waited = op.waited /\ op'.again = op.again /\ op'.res = op.res
        /\ op'.stolen = op.stolen /\ op'.due = op.due /\ op'.found = op.found /\ op' \in Ops
    BY <1>3 DEF OpInv, Ops
  <2>2. Asked' /\ InTime' /\ Took' /\ Owed' /\ DrainComplete'
    BY <1>1, <1>3, <2>1 DEF OpInv, Asked, InTime, Took, Owed, DrainComplete
  <2>3. Ready' # {}
    BY <1>1, <2>1 DEF Ready, Readable
  <2>4. op.time # -1 => op.waited <= op.time
    <3> HAVE op.time # -1
    <3>1. op.time \in Nat /\ op.waited \in Nat /\ op.again = 0
      BY <1>3, OpFields DEF OpInv, Asked
    <3>2. op.left \in Nat /\ op.waited + op.left <= op.time
      BY <1>1, <3>1, Limits DEF OpInv, InTime
    <3> QED
      BY <3>1, <3>2
  <2> QED
    BY <2>1, <2>2, <2>3, <2>4 DEF OpInv, Connected
<1> QED
  BY <1>2, <1>3 DEF PollReady

\* accept(2) takes the connection of its only socket.
LEMMA AcceptedStep ==
  ASSUME KernelInv, OpInv, Accepted
  PROVE  KernelInv' /\ OpInv'
<1>1. /\ op.at = "accept" /\ Ready # {} /\ UNCHANGED <<tab, held, interest, rlist, wanted, shut>>
      /\ Returns("ready", op.fds)
      /\ counter' = [d \in Descs |-> IF \E fd \in op.fds : tab[fd] = d THEN counter[d] - 1 ELSE counter[d]]
  BY DEF Accepted
<1>2. op.do = "accept" /\ \E fd \in Fds : op.fds = {fd}
  BY <1>1 DEF OpInv, Asked
<1>3. counter' \in [Descs -> Nat]
  <2>1. ASSUME NEW d \in Descs, NEW fd \in op.fds, tab[fd] = d PROVE counter[d] - 1 \in Nat
    <3>1. \A other \in op.fds : other = fd
      BY <1>2
    <3>2. tab[fd] = NoDesc \/ counter[tab[fd]] > 0
      BY <1>1, <3>1 DEF Ready, Readable
    <3>3. counter[d] \in Nat
      BY DEF KernelInv, Kernel
    <3>4. d # NoDesc
      BY WaitsAssumption
    <3>5. counter[d] > 0
      BY <2>1, <3>2, <3>4
    <3> QED
      BY <3>3, <3>5
  <2> QED
    BY <1>1, <2>1 DEF KernelInv, Kernel
<1>4. KernelInv'
  BY <1>1, <1>3, ListedStep DEF KernelInv, Kernel
<1>5. Ends("ready", op.fds) /\ op' \in Ops
  <2>1. op.fds \in SUBSET (Item \cup Fds)
    BY OpFields DEF OpInv
  <2> QED
    BY <1>1, <2>1, Returned DEF OpInv
<1>6. OpInv'
  BY <1>2, <1>5, EndsStep
<1> QED
  BY <1>4, <1>6

\* Both calls of epoll_wait.
LEMMA EpollStep ==
  ASSUME KernelInv, OpInv, EpollReady \/ EpollDrains
  PROVE  KernelInv' /\ OpInv'
<1>1. /\ Collected /\ UNCHANGED <<tab, held, counter, interest, wanted, shut>> /\ op.do = "epoll"
      /\ op.at \in {"wait", "drain"}
  BY DEF EpollReady, EpollDrains, OpInv, Asked
<1>2. /\ rlist' \in Seq(interest) /\ Reported \subseteq interest
      /\ \A k \in 1..Len(rlist) : Live(rlist[k]) =>
           \/ rlist[k] \in Reported
           \/ Full /\ \E j \in 1..Len(rlist') : rlist'[j] = rlist[k]
  BY <1>1, CollectedPlaces
<1>3. KernelInv'
  BY <1>1, <1>2, ListedStep DEF KernelInv, Kernel
<1>4. /\ op'.at = (IF Full THEN "drain" ELSE "idle") /\ op'.res = (IF Full THEN "" ELSE "ready")
      /\ op'.do = op.do /\ op'.fds = op.fds /\ op'.time = op.time /\ op'.waited = op.waited
      /\ op'.again = op.again /\ op'.stolen = op.stolen
      /\ Reported \subseteq op'.found /\ op' \in Ops
  <2>1. Reported \in SUBSET (Item \cup Fds)
    BY <1>2 DEF KernelInv, Kernel
  <2>2. CASE EpollReady
    <3>1. {rlist[k] : k \in LiveAmong(Len(rlist))} \in SUBSET Item
      BY DEF KernelInv, Kernel, LiveAmong
    <3> QED
      BY <2>1, <2>2, <3>1 DEF EpollReady, OpInv, Ops
  <2>3. CASE EpollDrains
    BY <2>1, <2>3 DEF EpollDrains, OpInv, Ops
  <2> QED
    BY <2>2, <2>3
<1>5. ASSUME NEW it \in op'.due
      PROVE  \/ it \in op'.found
             \/ Full /\ Live(it) /\ \E j \in 1..Len(rlist') : rlist'[j] = it
  <2>1. \/ it \in op'.found
        \/ Live(it) /\ \E k \in 1..Len(rlist) : rlist[k] = it
    <3>1. CASE EpollReady
      <4>1. op'.due = {rlist[k] : k \in LiveAmong(Len(rlist))}
        BY <3>1 DEF EpollReady, OpInv, Ops
      <4> QED
        BY <4>1 DEF LiveAmong
    <3>2. CASE EpollDrains
      <4>1. op'.due = op.due /\ op'.found = op.found \cup Reported /\ op.at = "drain"
        BY <3>2 DEF EpollDrains, OpInv, Ops
      <4> QED
        BY <4>1 DEF OpInv, Owed
    <3> QED
      BY <3>1, <3>2
  <2>2. CASE Live(it) /\ \E k \in 1..Len(rlist) : rlist[k] = it
    <3>1. PICK k \in 1..Len(rlist) : rlist[k] = it
      BY <2>2
    <3> QED
      BY <1>2, <1>4, <2>2, <3>1
  <2> QED
    BY <2>1, <2>2
<1>6. Owed'
  <2>1. \A it : Live(it)' <=> Live(it)
    BY <1>1 DEF Live, Readable
  <2> QED
    BY <1>5, <2>1 DEF Owed
<1>7. DrainComplete'
  BY <1>4, <1>5 DEF DrainComplete
<1>8. Asked' /\ InTime' /\ Connected' /\ Took'
  BY <1>1, <1>4 DEF OpInv, Asked, InTime, Connected, Took
<1> QED
  BY <1>3, <1>4, <1>6, <1>7, <1>8 DEF OpInv

\* A wait is over when no time is left.
LEMMA TimedOutStep ==
  ASSUME OpInv, TimedOut
  PROVE  OpInv'
<1> DEFINE res == IF op.do = "sleep" THEN "ready" ELSE "timeout"
<1>1. op.at = "wait" /\ op.left = 0 /\ Returns(res, {})
  BY DEF TimedOut
<1>2. Ends(res, {}) /\ op' \in Ops
  <2>1. res \in {"", "ready", "timeout", "EINTR"} /\ {} \in SUBSET (Item \cup Fds)
    OBVIOUS
  <2> HIDE DEF res
  <2> QED
    BY <1>1, <2>1, Returned DEF OpInv
<1>3. op.time # -1 /\ op.time \in Nat /\ op.waited \in Nat /\ op.again \in Nat
  <2>1. op.time = -1 => op.left = -1
    BY <1>1 DEF OpInv, InTime
  <2>2. 0 # -1
    OBVIOUS
  <2>3. op.time # -1
    BY <1>1, <2>1, <2>2
  <2>4. op.time \in Nat \cup {-1} /\ op.waited \in Nat /\ op.again \in Nat
    BY OpFields DEF OpInv
  <2> QED
    BY <2>3, <2>4
<1>4. op.waited >= op.time /\ op.waited <= Limit(op.time, op.again)
  <2>1. op.waited + op.left >= op.time /\ op.waited + op.left <= Limit(op.time, op.again)
    BY <1>1, <1>3 DEF OpInv, InTime
  <2> QED
    BY <1>1, <1>3, <2>1
<1>5. op.do = "sleep" => op.waited = op.time
  <2> HAVE op.do = "sleep"
  <2>1. op.again = 0
    BY DEF OpInv, Asked
  <2>2. Limit(op.time, op.again) = op.time
    BY <1>3, <2>1, Limits
  <2>3. op.waited >= op.time /\ op.waited <= op.time
    BY <1>4, <2>2
  <2> QED
    BY <1>3, <2>3
<1>6. res = "ready" <=> op.do = "sleep"
  OBVIOUS
<1> HIDE DEF res
<1> QED
  BY <1>2, <1>3, <1>4, <1>5, <1>6, EndsStep

\* A signal: the time of a poll starts again, that of a sleep goes on, the others end.
LEMMA InterruptedStep ==
  ASSUME OpInv, Interrupted
  PROVE  OpInv'
<1>1. op.at \in {"wait", "accept"} /\ UNCHANGED kernel
  BY DEF Interrupted
<1>2. CASE op.do \in {"poll", "sleep"} /\ ~op.i
  <2>1. op' = Resumed(op) /\ op.at = "wait"
    BY <1>1, <1>2 DEF Interrupted, OpInv, Asked
  <2>2. CASE op.do = "sleep"
    BY <1>1, <2>1, <2>2 DEF Resumed, kernel, OpInv, Asked, InTime, Connected, Took, Owed, DrainComplete
  <2>3. CASE op.do = "poll"
    <3>1. op' = [op EXCEPT !.left = op.time, !.again = @ + 1]
      BY <2>1, <2>3 DEF Resumed
    <3>3. op.res = "" /\ op.time \in Nat \cup {-1} /\ op.waited \in Nat /\ op.again \in Nat
      <4>1. op.res = ""
        BY <2>1 DEF OpInv, Asked
      <4> QED
        BY <4>1, OpFields DEF OpInv
    <3>2. /\ op'.left = op.time /\ op'.again = op.again + 1 /\ op'.do = op.do /\ op'.at = op.at
          /\ op'.fds = op.fds /\ op'.time = op.time /\ op'.waited = op.waited /\ op'.res = op.res
          /\ op'.stolen = op.stolen /\ op'.due = op.due /\ op'.found = op.found /\ op' \in Ops
      <4>0. \A n \in Nat : n + 1 \in Nat
        OBVIOUS
      <4>1. op.again + 1 \in Nat
        BY <3>3, <4>0
      <4> QED
        BY <3>1, <3>3, <4>1 DEF OpInv, Ops
    <3>4. Asked' /\ Connected' /\ Took' /\ Owed' /\ DrainComplete'
      BY <2>1, <2>3, <3>2, <3>3 DEF OpInv, Asked, Connected, Took, Owed, DrainComplete
    <3>5. CASE op.time = -1
      BY <3>2, <3>4, <3>5 DEF OpInv, InTime
    <3>6. CASE op.time # -1
      <4>1. op.time \in Nat
        BY <3>3, <3>6
      <4>2. op.left \in Nat /\ op.waited + op.left <= Limit(op.time, op.again)
        BY <2>1, <4>1 DEF OpInv, InTime
      <4>3. /\ Limit(op.time, op.again) \in Nat
            /\ Limit(op.time, op.again + 1) = Limit(op.time, op.again) + op.time
        BY <3>3, <4>1, Limits
      <4>4. \A t, l, w, m \in Nat : w + l <= m => w + t >= t /\ w + t <= m + t
        OBVIOUS
      <4>5. op.waited + op.time >= op.time /\ op.waited + op.time <= Limit(op.time, op.again) + op.time
        BY <3>3, <4>1, <4>2, <4>3, <4>4
      <4>6. /\ op'.waited + op'.left = op.waited + op.time /\ op'.left \in Nat /\ op'.time = op.time
            /\ Limit(op'.time, op'.again) = Limit(op.time, op.again) + op.time
        BY <3>2, <4>1, <4>3
      <4>7. InTime'
        BY <3>6, <4>5, <4>6 DEF InTime
      <4> QED
        BY <3>2, <3>4, <4>7 DEF OpInv
    <3> QED
      BY <3>5, <3>6
  <2> QED
    BY <1>2, <2>2, <2>3
<1>3. CASE ~(op.do \in {"poll", "sleep"} /\ ~op.i)
  <2>1. Returns("EINTR", {})
    BY <1>3 DEF Interrupted
  <2>2. Ends("EINTR", {}) /\ op' \in Ops
    <3>1. {} \in SUBSET (Item \cup Fds)
      OBVIOUS
    <3> QED
      BY <2>1, <3>1, Returned DEF OpInv
  <2> QED
    BY <2>2, EndsStep
<1> QED
  BY <1>2, <1>3

\* Time passes while the shell waits, or does nothing.
LEMMA TickStep ==
  ASSUME KernelInv, OpInv, Tick
  PROVE  KernelInv' /\ OpInv'
<1>1. /\ UNCHANGED <<tab, held, interest, wanted, shut>> /\ op.at # "drain"
      /\ op.at = "wait" => op.left # 0
      /\ op.at \in {"wait", "accept"} => Ready = {}
  BY DEF Tick, Over
<1>2. counter' \in [Descs -> Nat] /\ rlist' \in Seq(interest)
  <2>1. ItemsOf(Timer) \in SUBSET interest
    BY DEF ItemsOf
  <2>2. Notified(rlist, ItemsOf(Timer)) \in Seq(interest)
    BY <2>1, NotifiedType DEF KernelInv, Kernel
  <2>3. \/ counter' = [counter EXCEPT ![Timer] = IF @ < MaxCount THEN @ + 1 ELSE @]
        \/ counter' = counter
    BY DEF Tick
  <2>4. rlist' = Notified(rlist, ItemsOf(Timer)) \/ rlist' = rlist
    BY DEF Tick
  <2> QED
    BY <2>2, <2>3, <2>4 DEF KernelInv, Kernel
<1>3. KernelInv'
  BY <1>1, <1>2, ListedStep
<1>4. CASE op.at \in {"wait", "accept"}
  <2>1. op' = [op EXCEPT !.waited = @ + 1, !.left = IF @ > 0 /\ op.at = "wait" THEN @ - 1 ELSE @]
    BY <1>4 DEF Tick
  <2>2. /\ op.time \in Nat \cup {-1} /\ op.left \in Nat \cup {-1}
        /\ op.waited \in Nat /\ op.again \in Nat
    BY OpFields DEF OpInv
  <2>3. /\ \A n \in Nat : n + 1 \in Nat
        /\ \A n \in Nat \cup {-1} : n > 0 => n - 1 \in Nat
    OBVIOUS
  <2>4. /\ op'.waited = op.waited + 1
        /\ op'.left = IF op.left > 0 /\ op.at = "wait" THEN op.left - 1 ELSE op.left
        /\ op'.do = op.do /\ op'.at = op.at /\ op'.fds = op.fds /\ op'.time = op.time
        /\ op'.again = op.again /\ op'.found = op.found /\ op'.due = op.due
        /\ op'.stolen = op.stolen /\ op'.res = op.res /\ op' \in Ops
    BY <2>1, <2>2, <2>3 DEF OpInv, Ops
  <2>5. op.res = ""
    BY <1>4 DEF OpInv, Asked
  <2>6. Asked' /\ Owed' /\ DrainComplete'
    BY <1>1, <2>4, <2>5 DEF OpInv, Asked, Owed, DrainComplete
  <2>7. InTime'
    <3> SUFFICES ASSUME op.at = "wait" PROVE InTime'
      BY <2>4 DEF InTime
    <3>1. CASE op.time = -1
      BY <2>4, <3>1 DEF OpInv, InTime
    <3>2. CASE op.time # -1
      <4>1. /\ op.left \in Nat /\ op.waited + op.left >= op.time
            /\ op.waited + op.left <= Limit(op.time, op.again)
        BY <3>2 DEF OpInv, InTime
      <4>2. \A w, l \in Nat : l # 0 => l > 0 /\ l - 1 \in Nat /\ (w + 1) + (l - 1) = w + l
        OBVIOUS
      <4>3. op'.left = op.left - 1 /\ op'.left \in Nat /\ op'.waited + op'.left = op.waited + op.left
        BY <1>1, <2>2, <2>4, <4>1, <4>2
      <4> QED
        BY <2>4, <3>2, <4>1, <4>3 DEF InTime
    <3> QED
      BY <3>1, <3>2
  <2>8. Connected'
    BY <1>1, <2>4 DEF OpInv, Connected
  <2>9. op.do = "accept" /\ op.time # -1 /\ op.waited + 1 > op.time => op.stolen
    <3> SUFFICES ASSUME op.do = "accept", op.time # -1, ~op.stolen PROVE ~(op.waited + 1 > op.time)
      OBVIOUS
    <3>1. op.at = "wait" /\ op.again = 0 /\ op.time \in Nat
      BY <1>1, <1>4, <2>2 DEF OpInv, Connected, Asked
    <3>2. op.left \in Nat /\ op.waited + op.left <= op.time /\ op.left # 0
      BY <1>1, <2>2, <3>1, Limits DEF OpInv, InTime
    <3>3. \A w, l, t \in Nat : w + l <= t /\ l # 0 => ~(w + 1 > t)
      OBVIOUS
    <3> QED
      BY <2>2, <3>1, <3>2, <3>3
  <2>10. Took'
    BY <2>4, <2>5, <2>9 DEF Took
  <2> QED
    BY <1>3, <2>4, <2>6, <2>7, <2>8, <2>10 DEF OpInv
<1>5. CASE op.at \notin {"wait", "accept"}
  <2>1. op' = op
    BY <1>5 DEF Tick
  <2> QED
    BY <1>1, <1>3, <1>5, <2>1 DEF OpInv, Asked, InTime, Connected, Took, Owed, DrainComplete
<1> QED
  BY <1>4, <1>5

\* What the waits read stays.
LEMMA StutterStep ==
  ASSUME KernelInv, OpInv, UNCHANGED waitsVars
  PROVE  KernelInv' /\ OpInv'
<1>1. op' = op /\ UNCHANGED kernel
  BY DEF waitsVars
<1>2. KernelInv'
  BY <1>1, KernelStays
<1> QED
  BY <1>1, <1>2 DEF kernel, OpInv, Asked, InTime, Connected, Took, Owed, DrainComplete,
    Ready, Readable, Live

-----------------------------------------------------------------------------
(* The invariant, and what it is for. *)

WaitsInv == KernelInv /\ OpInv

\* The initial states satisfy the invariant.
LEMMA InitHolds == ASSUME WaitsInit PROVE WaitsInv
<1>1. KernelInv
  BY KernelInit
<1>2. op = None
  BY DEF WaitsInit
<1>3. op \in Ops
  BY <1>2 DEF None, Ops
<1>4. op.at = "idle" /\ op.do = "none" /\ op.res = "" /\ op.again = 0
  BY <1>2 DEF None
<1>5. OpInv
  BY <1>3, <1>4 DEF OpInv, Asked, InTime, Connected, Took, Owed, DrainComplete
<1> QED
  BY <1>1, <1>5 DEF WaitsInv

\* The subcommands that do not wait.
LEMMA CtlStep ==
  ASSUME KernelInv, Ctl
  PROVE  KernelInv' /\ op' = None
<1>1. ASSUME NEW fd \in Fds, NEW et \in BOOLEAN, EpollAdd(fd, et)
      PROVE  KernelInv' /\ op' = None
  BY <1>1, AddStep DEF EpollAdd, Op
<1>2. ASSUME NEW fd \in Fds, NEW et \in BOOLEAN, EpollMod(fd, et)
      PROVE  KernelInv' /\ op' = None
  BY <1>2, ModStep DEF EpollMod, Op
<1>3. ASSUME NEW fd \in Fds, EpollDel(fd) PROVE KernelInv' /\ op' = None
  BY <1>3, DelStep DEF EpollDel, Op
<1>4. ASSUME NEW fd \in Fds, Close(fd) PROVE KernelInv' /\ op' = None
  BY <1>4, CloseStep DEF Close, Op
<1>5. ASSUME NEW fd \in Fds, NEW d \in Descs, Reuse(fd, d) PROVE KernelInv' /\ op' = None
  <2>1. /\ op' = None /\ tab[fd] = NoDesc /\ tab' = [tab EXCEPT ![fd] = d]
        /\ UNCHANGED <<held, interest, rlist, wanted, shut>>
        /\ counter' = [counter EXCEPT ![d] = 0]
    BY <1>5 DEF Reuse, Op, Open
  <2>2. counter' \in [Descs -> Nat]
    BY <2>1 DEF KernelInv, Kernel
  <2> QED
    BY <2>1, <2>2, ReuseStep
<1>6. ASSUME NEW from \in Fds, NEW fd \in Fds, Dup(from, fd) PROVE KernelInv' /\ op' = None
  <2>1. /\ op' = None /\ tab[fd] = NoDesc /\ tab' = [tab EXCEPT ![fd] = tab[from]]
        /\ UNCHANGED <<held, counter, interest, rlist, wanted, shut>> /\ tab[from] # NoDesc
    BY <1>6 DEF Dup, Op, Open
  <2>2. tab[from] \in Descs /\ counter' \in [Descs -> Nat]
    BY <2>1 DEF KernelInv, Kernel
  <2> QED
    BY <2>1, <2>2, ReuseStep
<1> QED
  BY <1>1, <1>2, <1>3, <1>4, <1>5, <1>6, CountStep DEF Ctl

\* Every step keeps the invariant.
LEMMA StepHolds ==
  ASSUME WaitsInv, [WaitsNext]_waitsVars
  PROVE  WaitsInv'
<1> SUFFICES KernelInv' /\ OpInv'
  BY DEF WaitsInv
<1>0. KernelInv /\ OpInv
  BY DEF WaitsInv
<1>1. CASE Ctl
  BY <1>0, <1>1, CtlStep, NoneStep
<1>2. CASE Fork
  BY <1>0, <1>2, ForkStep, NoneStep DEF Fork, Op
<1>3. CASE ChildrenEnd
  BY <1>0, <1>3, ChildrenEndStep, ChildrenEndOp
<1>4. CASE \E d \in Descs : KidWrites(d) \/ \E k \in 1..MaxCount : KidTakes(d, k)
  BY <1>0, <1>4, KidWritesStep, KidTakesStep
<1>5. CASE \E do \in {"poll", "epoll", "accept", "sleep"}, fds \in Watched \cup {{}}, i \in BOOLEAN,
             time \in {Forever} \cup Times : Wait(do, fds, i, time)
  <2>1. PICK do \in {"poll", "epoll", "accept", "sleep"}, fds \in Watched \cup {{}}, i \in BOOLEAN,
             time \in {Forever} \cup Times : Wait(do, fds, i, time)
    BY <1>5
  <2>2. UNCHANGED kernel
    BY <2>1 DEF Wait
  <2>3. OpInv'
    BY <2>1, WaitStep
  <2> QED
    BY <1>0, <2>2, <2>3, KernelStays
<1>6. CASE PollReady
  BY <1>0, <1>6, PollReadyStep, KernelStays DEF PollReady
<1>7. CASE Accepted
  BY <1>0, <1>7, AcceptedStep
<1>8. CASE EpollReady \/ EpollDrains
  BY <1>0, <1>8, EpollStep
<1>9. CASE TimedOut
  BY <1>0, <1>9, TimedOutStep, KernelStays DEF TimedOut
<1>10. CASE Interrupted
  BY <1>0, <1>10, InterruptedStep, KernelStays DEF Interrupted
<1>11. CASE Tick
  BY <1>0, <1>11, TickStep
<1>12. CASE UNCHANGED waitsVars
  BY <1>0, <1>12, StutterStep
<1> QED
  BY <1>1, <1>2, <1>3, <1>4, <1>5, <1>6, <1>7, <1>8, <1>9, <1>10, <1>11, <1>12 DEF WaitsNext

\* The inductive invariant of the waits: the interest set and the subcommand in progress.
THEOREM WaitsInvariant == WaitsSpec => []WaitsInv
<1>1. WaitsInit => WaitsInv
  BY InitHolds
<1>2. WaitsInv /\ [WaitsNext]_waitsVars => WaitsInv'
  BY StepHolds
<1> QED
  BY <1>1, <1>2, PTL DEF WaitsSpec

\* What the counters, the timer and the history may be.
Counts ==
  /\ counter \in [Descs -> 0..MaxCount] /\ timer \in [value : Nat, interval : Nat]
  /\ wanted \subseteq Fds \X Descs /\ shut \subseteq Fds \X Descs

\* A counter that is not full may be counted up.
LEMMA CountsUp ==
  ASSUME Counts, NEW d \in Descs, counter[d] < MaxCount
  PROVE  [counter EXCEPT ![d] = @ + 1] \in [Descs -> 0..MaxCount]
<1>1. counter[d] \in 0..MaxCount
  BY DEF Counts
<1>2. counter[d] + 1 \in 0..MaxCount
  BY <1>1, WaitsAssumption
<1> QED
  BY <1>2 DEF Counts

\* Counters are counted down by what is there at most.
LEMMA CountsDown ==
  ASSUME Counts, NEW d \in Descs, NEW k \in {1, counter[d]}, counter[d] > 0
  PROVE  [counter EXCEPT ![d] = @ - k] \in [Descs -> 0..MaxCount]
<1>1. counter[d] \in 0..MaxCount
  BY DEF Counts
<1>2. counter[d] - k \in 0..MaxCount
  BY <1>1, WaitsAssumption
<1> QED
  BY <1>2 DEF Counts

\* No step takes them out of their ranges.
LEMMA CountsStep ==
  ASSUME WaitsInv, Counts, [WaitsNext]_waitsVars
  PROVE  Counts'
<1>0. /\ KernelInv /\ Kernel /\ OpInv /\ NoDesc \notin Descs /\ Timer \in Descs /\ Values \subseteq Nat
      /\ \A fd \in Open : tab[fd] \in Descs
  BY WaitsAssumption DEF WaitsInv, KernelInv, Kernel, Open
<1>1. CASE UNCHANGED <<counter, timer, wanted, shut>>
  BY <1>1 DEF Counts
<1>2. ASSUME NEW fd \in Fds, NEW et \in BOOLEAN, EpollAdd(fd, et) PROVE Counts'
  <2>1. UNCHANGED <<counter, timer, shut>> /\ wanted' = wanted \cup {<<fd, tab[fd]>>} /\ fd \in Open
    BY <1>2 DEF EpollAdd
  <2> QED
    BY <1>0, <2>1 DEF Counts
<1>3. ASSUME NEW fd \in Fds, EpollDel(fd) \/ Close(fd) PROVE Counts'
  <2>1. /\ UNCHANGED <<counter, timer>> /\ wanted' \subseteq wanted
        /\ shut' \subseteq shut \cup wanted
    BY <1>3 DEF EpollDel, Close, Forget
  <2> QED
    BY <2>1 DEF Counts
<1>4. ASSUME NEW fd \in Fds, NEW d \in Descs, Reuse(fd, d) PROVE Counts'
  <2>1. UNCHANGED <<timer, wanted, shut>> /\ counter' = [counter EXCEPT ![d] = 0]
    BY <1>4 DEF Reuse
  <2> QED
    BY <2>1, WaitsAssumption DEF Counts
<1>5. ASSUME NEW fd \in Fds, NEW k \in 1..MaxCount, EventfdRead(fd, k) PROVE Counts'
  <2>1. /\ UNCHANGED <<timer, wanted, shut>> /\ fd \in Open /\ k \in {1, counter[tab[fd]]}
        /\ counter[tab[fd]] > 0 /\ counter' = [counter EXCEPT ![tab[fd]] = @ - k]
    BY <1>5 DEF EventfdRead, Readable
  <2>2. counter' \in [Descs -> 0..MaxCount]
    BY <1>0, <2>1, CountsDown
  <2> QED
    BY <2>1, <2>2 DEF Counts
<1>6. ASSUME NEW fd \in Fds, EventfdWrite(fd) PROVE Counts'
  <2>1. /\ UNCHANGED <<timer, wanted, shut>> /\ fd \in Open /\ counter[tab[fd]] < MaxCount
        /\ counter' = [counter EXCEPT ![tab[fd]] = @ + 1]
    BY <1>6 DEF EventfdWrite
  <2>2. counter' \in [Descs -> 0..MaxCount]
    BY <1>0, <2>1, CountsUp
  <2> QED
    BY <2>1, <2>2 DEF Counts
<1>7. ASSUME NEW s \in Values, NEW i \in Values, TimerfdSet(s, i) PROVE Counts'
  <2>1. /\ UNCHANGED <<wanted, shut>> /\ counter' = [counter EXCEPT ![Timer] = 0]
        /\ timer' = [value |-> s, interval |-> i]
    BY <1>7 DEF TimerfdSet
  <2> QED
    BY <1>0, <2>1, WaitsAssumption DEF Counts
<1>8. ASSUME NEW d \in Descs, KidWrites(d) PROVE Counts'
  <2>1. /\ UNCHANGED <<timer, wanted, shut>> /\ counter[d] < MaxCount
        /\ counter' = [counter EXCEPT ![d] = @ + 1]
    BY <1>8 DEF KidWrites
  <2>2. counter' \in [Descs -> 0..MaxCount]
    BY <2>1, CountsUp
  <2> QED
    BY <2>1, <2>2 DEF Counts
<1>9. ASSUME NEW d \in Descs, NEW k \in 1..MaxCount, KidTakes(d, k) PROVE Counts'
  <2>1. /\ UNCHANGED <<timer, wanted, shut>> /\ k \in {1, counter[d]} /\ counter[d] > 0
        /\ counter' = [counter EXCEPT ![d] = @ - k]
    BY <1>9 DEF KidTakes, Readable
  <2>2. counter' \in [Descs -> 0..MaxCount]
    BY <2>1, CountsDown
  <2> QED
    BY <2>1, <2>2 DEF Counts
<1>10. CASE Accepted
  <2>1. /\ UNCHANGED <<timer, wanted, shut>>
        /\ counter' = [d \in Descs |->
                        IF \E fd \in op.fds : tab[fd] = d THEN counter[d] - 1 ELSE counter[d]]
    BY <1>10 DEF Accepted
  <2>2. counter' \in [Descs -> Nat]
    BY <1>0, <1>10, AcceptedStep DEF KernelInv, Kernel
  <2>3. ASSUME NEW d \in Descs PROVE counter'[d] \in 0..MaxCount
    <3>1. counter[d] \in 0..MaxCount /\ counter'[d] \in Nat
      BY <2>2 DEF Counts
    <3>2. counter'[d] = counter[d] - 1 \/ counter'[d] = counter[d]
      BY <2>1
    <3> QED
      BY <3>1, <3>2, WaitsAssumption
  <2> QED
    BY <2>1, <2>2, <2>3 DEF Counts
<1>11. CASE Tick
  <2>1. /\ UNCHANGED <<wanted, shut>>
        /\ \/ timer' = [timer EXCEPT !.value = timer.interval]
           \/ timer' = [timer EXCEPT !.value = IF @ > 1 THEN @ - 1 ELSE @]
        /\ \/ counter' = [counter EXCEPT ![Timer] = IF @ < MaxCount THEN @ + 1 ELSE @]
           \/ counter' = counter
    BY <1>11 DEF Tick
  <2>2. timer' \in [value : Nat, interval : Nat]
    BY <2>1 DEF Counts
  <2>3. counter' \in [Descs -> 0..MaxCount]
    <3>1. CASE counter[Timer] < MaxCount
      BY <1>0, <2>1, <3>1, CountsUp DEF Counts
    <3>2. CASE ~(counter[Timer] < MaxCount)
      BY <2>1, <3>2 DEF Counts
    <3> QED
      BY <3>1, <3>2
  <2> QED
    BY <2>1, <2>2, <2>3 DEF Counts
<1>12. CASE \/ Fork \/ PollReady \/ EpollReady \/ EpollDrains \/ TimedOut
            \/ Interrupted
  BY <1>1, <1>12 DEF Fork, PollReady, EpollReady, EpollDrains, TimedOut, Interrupted, kernel
<1>13. ASSUME NEW do, NEW fds, NEW i, NEW time, Wait(do, fds, i, time) PROVE Counts'
  BY <1>1, <1>13 DEF Wait, kernel
<1>14. ASSUME NEW fd \in Fds, NEW et \in BOOLEAN, EpollMod(fd, et) PROVE Counts'
  BY <1>1, <1>14 DEF EpollMod, Modified
<1>15. CASE ChildrenEnd
  <2>1. UNCHANGED <<counter, timer, wanted>> /\ shut' \subseteq shut
    BY <1>15 DEF ChildrenEnd, Forget
  <2> QED
    BY <2>1 DEF Counts
<1>16. ASSUME NEW from \in Fds, NEW fd \in Fds, Dup(from, fd) PROVE Counts'
  BY <1>1, <1>16 DEF Dup
<1>17. Ctl => Counts'
  BY <1>2, <1>3, <1>4, <1>5, <1>6, <1>7, <1>14, <1>16 DEF Ctl
<1>18. UNCHANGED waitsVars => Counts'
  BY <1>1 DEF waitsVars, kernel
<1> QED
  BY <1>8, <1>9, <1>10, <1>11, <1>12, <1>13, <1>15, <1>17, <1>18 DEF WaitsNext

\* The state has its type: a counter never runs below zero or over its largest value, and what
\* epoll has listed as ready is in the interest set.
THEOREM WaitsTyped == WaitsSpec => []WaitsTypeOK
<1>1. WaitsInit => Counts
  <2> SUFFICES ASSUME WaitsInit PROVE Counts
    OBVIOUS
  <2>1. counter \in [Descs -> {0, 1}] /\ timer = [value |-> 0, interval |-> 0] /\ wanted = {} /\ shut = {}
    BY DEF WaitsInit
  <2>2. {0, 1} \subseteq 0..MaxCount
    BY WaitsAssumption
  <2> QED
    BY <2>1, <2>2 DEF Counts
<1>2. WaitsInv /\ Counts /\ [WaitsNext]_waitsVars => Counts'
  BY CountsStep
<1>3. WaitsInv /\ Counts => WaitsTypeOK
  BY DEF WaitsInv, KernelInv, Kernel, Counts, WaitsTypeOK
<1> QED
  BY <1>1, <1>2, <1>3, WaitsInvariant, PTL DEF WaitsSpec

\* A sleep takes its time, whatever interrupts it; a poll that times out has waited for all of
\* it and for no more than all of it again per interruption; accept -t waits longer than told
\* only when a child took its connection.
THEOREM WaitsTakeTime == WaitsSpec => []WaitTimes
<1>1. WaitsInv => WaitTimes
  BY TookTimes DEF WaitsInv, OpInv
<1> QED
  BY <1>1, WaitsInvariant, PTL

\* Everything the first call of epoll wait saw ready is told when it returns, if it is ready
\* still, however many calls the drain takes and whatever children read and close.
THEOREM DrainTellsAll == WaitsSpec => []DrainComplete
<1>1. WaitsInv => DrainComplete
  BY DEF WaitsInv, OpInv
<1> QED
  BY <1>1, WaitsInvariant, PTL

\* What a step of epoll wait finds is in the interest set.
LEMMA Found ==
  ASSUME WaitsInv, WaitsNext, op.do = "epoll", op'.do = "epoll",
         NEW it \in op'.found \ op.found
  PROVE  it \in interest
<1>0. KernelInv /\ OpInv /\ op \in Ops
  BY DEF WaitsInv, OpInv
<1>1. None.do # "epoll" /\ None.found = {}
  BY DEF None
<1>2. CASE Ctl
  BY <1>0, <1>1, <1>2, CtlStep
<1>3. CASE Fork
  BY <1>1, <1>3 DEF Fork, Op
<1>4. CASE ChildrenEnd
  BY <1>0, <1>4 DEF ChildrenEnd, Ops
<1>5. CASE \E d \in Descs : KidWrites(d) \/ \E k \in 1..MaxCount : KidTakes(d, k)
  BY <1>0, <1>5 DEF KidWrites, KidTakes, Ops
<1>6. CASE \E do \in {"poll", "epoll", "accept", "sleep"}, fds \in Watched \cup {{}}, i \in BOOLEAN,
             time \in {Forever} \cup Times : Wait(do, fds, i, time)
  <2>1. op'.found = {}
    BY <1>6 DEF Wait, None
  <2> QED
    BY <2>1
<1>7. CASE PollReady \/ Accepted
  BY <1>0, <1>7 DEF PollReady, Accepted, OpInv, Asked
<1>8. CASE EpollReady \/ EpollDrains
  <2>1. it \in Reported /\ Collected
    <3>1. Collected
      BY <1>8 DEF EpollReady, EpollDrains
    <3>2. CASE EpollReady
      <4>1. op'.found = Reported
        BY <1>0, <3>2 DEF EpollReady, Ops
      <4> QED
        BY <3>1, <4>1
    <3>3. CASE EpollDrains
      <4>1. op'.found = op.found \cup Reported
        BY <1>0, <3>3 DEF EpollDrains, Ops
      <4> QED
        BY <3>1, <4>1
    <3> QED
      BY <1>8, <3>2, <3>3
  <2> QED
    BY <1>0, <2>1, CollectedPlaces
<1>9. CASE TimedOut
  BY <1>0, <1>9 DEF TimedOut, Returns, Ops
<1>10. CASE Interrupted
  BY <1>0, <1>10 DEF Interrupted, Returns, Ops
<1>11. CASE Tick
  BY <1>0, <1>11 DEF Tick, Ops
<1> QED
  BY <1>2, <1>3, <1>4, <1>5, <1>6, <1>7, <1>8, <1>9, <1>10, <1>11 DEF WaitsNext

\* epoll wait tells only of numbers the script has registered, for the descriptions they have,
\* or of numbers it closed without epoll del whose descriptions are open elsewhere.
THEOREM ReportsStayCurrent == WaitsSpec => ReportsAreCurrent
<1> DEFINE Told == op.do = "epoll" /\ op'.found # op.found /\ op'.do = "epoll" =>
                     \A it \in op'.found \ op.found :
                       \/ <<it.data, it.d>> \in wanted /\ tab[it.data] = it.d
                       \/ <<it.data, it.d>> \in shut /\ (it.d \in held \/ \E fd \in Fds : tab[fd] = it.d)
<1>1. WaitsInv /\ [WaitsNext]_waitsVars => [Told]_waitsVars
  <2> SUFFICES ASSUME WaitsInv, WaitsNext, op.do = "epoll", op'.do = "epoll",
                      NEW it \in op'.found \ op.found
               PROVE  \/ <<it.data, it.d>> \in wanted /\ tab[it.data] = it.d
                      \/ /\ <<it.data, it.d>> \in shut
                         /\ it.d \in held \/ \E fd \in Fds : tab[fd] = it.d
    OBVIOUS
  <2>1. it \in interest
    BY Found
  <2> QED
    BY <2>1 DEF WaitsInv, KernelInv, Current, Alive
<1>2. [][Told]_waitsVars => ReportsAreCurrent
  BY PTL DEF ReportsAreCurrent
<1> HIDE DEF Told
<1> QED
  BY <1>1, <1>2, WaitsInvariant, PTL DEF WaitsSpec
=============================================================================
