---------------------------- MODULE Objects_proofs -----------------------------
(***************************************************************************)
(* Proofs about Objects, for any processes, objects, names, handles and    *)
(* counts: every mapping has the handles that stand for it, and no unit of *)
(* a semaphore is lost.                                                    *)
(***************************************************************************)
EXTENDS Objects, FiniteSetTheorems, TLAPS

Count(r, o) == Cardinality(HandlesTo(r, o))
Making(p, o) == IF pc[p] = "creating" /\ at[p].obj = o THEN 1 ELSE 0

\* Handles not given out yet are unknown.
Below(r) == \A h \in Handles : Known(r, h) => h < r.next

\* The registries and what is mapped for them.
Kept ==
  /\ sems \in [Procs -> Registries] /\ bars \in [Procs -> Registries]
  /\ mapped \in [Procs -> [Objs -> Nat]]
  /\ \A p \in Procs : Below(sems[p]) /\ Below(bars[p])
  /\ MappingsHaveHandles

\* The calls in progress, the names and the objects made so far.
Placed ==
  /\ pc \in [Procs -> {"unborn", "idle", "waiting", "creating", "dead"}]
  /\ at \in [Procs -> Entries \cup {Nowhere}]
  /\ \A p \in Procs : pc[p] \in {"waiting", "creating"} => at[p] \in Entries
  /\ semNames \in [Names -> Objs \cup {NoObj}] /\ shmNames \in [Names -> Objs \cup {NoObj}]
  /\ used \subseteq Objs /\ ready \subseteq Objs

\* What can be waited for or posted has been made; the rest has counted nothing.
Counted ==
  /\ value \in [Objs -> 0..SemMax] /\ start \in [Objs -> 0..SemMax]
  /\ posted \in [Objs -> Nat] /\ granted \in [Objs -> Nat]
  /\ \A p \in Procs, h \in Handles : Known(sems[p], h) => sems[p].map[h].obj \in used
  /\ \A n \in Names : semNames[n] # NoObj => semNames[n] \in used
  /\ \A p \in Procs : pc[p] = "waiting" => at[p].obj \in used
  /\ \A o \in Objs \ used : value[o] = start[o]
  /\ UnitsConserved

IInv == Kept /\ Placed /\ Counted

------------------------------------------------------------------------------
(* Registries. *)

\* The handles of an object are finitely many.
LEMMA HandlesFinite ==
  ASSUME NEW r, NEW o
  PROVE  IsFiniteSet(HandlesTo(r, o)) /\ Count(r, o) \in Nat
<1>1. IsFiniteSet(Handles)
  BY FS_Interval, HandleAssumption DEF Handles
<1>2. IsFiniteSet(HandlesTo(r, o))
  BY <1>1, FS_Subset DEF HandlesTo
<1>3. QED
  BY <1>2, FS_CardinalityType DEF Count

\* A store adds one handle, to the object stored.
LEMMA StoreCount ==
  ASSUME NEW r \in Registries, HasRoom(r), Below(r), NEW o \in Objs, NEW n \in Names \cup {NoName}
  PROVE  /\ Store(r, o, n) \in Registries /\ Below(Store(r, o, n))
         /\ \A h \in Handles : Known(Store(r, o, n), h) =>
              \/ Store(r, o, n).map[h].obj = o
              \/ Known(r, h) /\ Store(r, o, n).map[h] = r.map[h]
         /\ \A x \in Objs : Count(Store(r, o, n), x) = Count(r, x) + IF x = o THEN 1 ELSE 0
<1> DEFINE s == Store(r, o, n)
           e == [obj |-> o, name |-> n]
<1>1. r.next \in Handles /\ r.map \in [Handles -> Entries \cup {NoEntry}]
  BY HandleAssumption DEF HasRoom, Registries, Handles
<1>2. e \in Entries /\ e # NoEntry /\ e.obj = o
  BY HandleAssumption DEF Entries
<1>3. s.map = [r.map EXCEPT ![r.next] = e] /\ s.next = r.next + 1
  BY DEF Store
<1>4. s \in Registries
  BY <1>1, <1>2, HandleAssumption DEF Store, Registries, Handles
<1>5. \A h \in Handles : s.map[h] = IF h = r.next THEN e ELSE r.map[h]
  BY <1>1, <1>3
<1>6. ~Known(r, r.next)
  BY <1>1 DEF Below, Handles
<1>7. Below(s)
  BY <1>1, <1>3, <1>5 DEF Below, Known, Handles
<1>8. ASSUME NEW x \in Objs PROVE Count(s, x) = Count(r, x) + IF x = o THEN 1 ELSE 0
  <2>1. CASE x = o
    <3>1. HandlesTo(s, x) = HandlesTo(r, x) \cup {r.next} /\ r.next \notin HandlesTo(r, x)
      BY <1>1, <1>2, <1>5, <1>6, <2>1 DEF HandlesTo, Known
    <3>2. Count(s, x) = Count(r, x) + 1
      BY <3>1, HandlesFinite, FS_AddElement DEF Count
    <3>3. QED
      BY <2>1, <3>2
  <2>2. CASE x # o
    <3>1. HandlesTo(s, x) = HandlesTo(r, x)
      BY <1>1, <1>2, <1>5, <1>6, <2>2 DEF HandlesTo, Known
    <3>2. Count(s, x) = Count(r, x) /\ Count(r, x) \in Nat
      BY <3>1, HandlesFinite DEF Count
    <3>3. QED
      BY <2>2, <3>2
  <2>3. QED
    BY <2>1, <2>2
<1>9. \A h \in Handles : Known(s, h) => s.map[h].obj = o \/ (Known(r, h) /\ s.map[h] = r.map[h])
  BY <1>2, <1>5 DEF Known
<1>10. QED
  BY <1>4, <1>7, <1>8, <1>9

\* A take removes one handle, of the object it stood for.
LEMMA TakeCount ==
  ASSUME NEW r \in Registries, Below(r), NEW h \in Handles, Known(r, h)
  PROVE  /\ r.map[h] \in Entries
         /\ Take(r, h) \in Registries /\ Below(Take(r, h))
         /\ \A i \in Handles : Known(Take(r, h), i) => Known(r, i) /\ Take(r, h).map[i] = r.map[i]
         /\ \A x \in Objs :
              Count(Take(r, h), x) = Count(r, x) - IF x = r.map[h].obj THEN 1 ELSE 0
<1> DEFINE t == Take(r, h)
<1>1. r.map \in [Handles -> Entries \cup {NoEntry}] /\ r.map[h] \in Entries
  BY DEF Registries, Known
<1>2. t.map = [r.map EXCEPT ![h] = NoEntry] /\ t.next = r.next /\ t \in Registries
  BY DEF Take, Registries
<1>3. \A i \in Handles : t.map[i] = IF i = h THEN NoEntry ELSE r.map[i]
  BY <1>1, <1>2
<1>4. \A i \in Handles : Known(t, i) => Known(r, i) /\ t.map[i] = r.map[i]
  BY <1>3 DEF Known
<1>5. Below(t)
  BY <1>2, <1>4 DEF Below
<1>6. ASSUME NEW x \in Objs
      PROVE  Count(t, x) = Count(r, x) - IF x = r.map[h].obj THEN 1 ELSE 0
  <2>1. HandlesTo(t, x) = HandlesTo(r, x) \ {h}
    BY <1>3 DEF HandlesTo, Known
  <2>2. CASE x = r.map[h].obj
    <3>1. h \in HandlesTo(r, x)
      BY <2>2 DEF HandlesTo
    <3>2. Count(t, x) = Count(r, x) - 1
      BY <2>1, <3>1, HandlesFinite, FS_RemoveElement DEF Count
    <3>3. QED
      BY <2>2, <3>2
  <2>3. CASE x # r.map[h].obj
    <3>1. HandlesTo(r, x) \ {h} = HandlesTo(r, x)
      BY <2>3 DEF HandlesTo
    <3>2. Count(t, x) = Count(r, x) /\ Count(r, x) \in Nat
      BY <2>1, <3>1, HandlesFinite DEF Count
    <3>3. QED
      BY <2>3, <3>2
  <2>4. QED
    BY <2>2, <2>3
<1>7. QED
  BY <1>1, <1>2, <1>4, <1>5, <1>6

\* An empty registry has no handles.
LEMMA EmptyCount ==
  /\ EmptyRegistry \in Registries /\ Below(EmptyRegistry)
  /\ \A h \in Handles : ~Known(EmptyRegistry, h)
  /\ \A o \in Objs : Count(EmptyRegistry, o) = 0
<1>1. EmptyRegistry \in Registries /\ \A h \in Handles : ~Known(EmptyRegistry, h)
  BY HandleAssumption DEF EmptyRegistry, Registries, Known, Handles
<1>2. \A o \in Objs : HandlesTo(EmptyRegistry, o) = {}
  BY <1>1 DEF HandlesTo
<1>3. \A o \in Objs : Count(EmptyRegistry, o) = 0
  BY <1>2, FS_EmptySet DEF Count
<1>4. QED
  BY <1>1, <1>3 DEF Below

------------------------------------------------------------------------------
(* Mappings and handles. *)

\* A step of one process keeps the mappings of all if it keeps its own.
LEMMA KeptOne ==
  ASSUME Kept, NEW p \in Procs,
         sems' \in [Procs -> Registries], bars' \in [Procs -> Registries],
         mapped' \in [Procs -> [Objs -> Int]],
         \A q \in Procs \ {p} : /\ sems'[q] = sems[q] /\ bars'[q] = bars[q]
                                /\ mapped'[q] = mapped[q] /\ pc'[q] = pc[q] /\ at'[q] = at[q],
         Below(sems'[p]), Below(bars'[p]),
         \A o \in Objs : mapped'[p][o] = Count(sems'[p], o) + Count(bars'[p], o) + Making(p, o)'
  PROVE  Kept'
<1>1. \A q \in Procs, o \in Objs :
        mapped'[q][o] = Count(sems'[q], o) + Count(bars'[q], o) + Making(q, o)'
  BY DEF Kept, MappingsHaveHandles, Making, Count
<1>2. MappingsHaveHandles'
  BY <1>1 DEF MappingsHaveHandles, Making, Count
<1>3. \A q \in Procs, o \in Objs : mapped'[q][o] \in Nat
  BY <1>1, HandlesFinite DEF Making
<1>4. mapped' \in [Procs -> [Objs -> Nat]]
  BY <1>3
<1>5. \A q \in Procs : Below(sems'[q]) /\ Below(bars'[q])
  BY DEF Kept
<1>6. QED
  BY <1>2, <1>4, <1>5 DEF Kept

\* What the invariant says of one process.
LEMMA OwnCount ==
  ASSUME Kept, NEW p \in Procs, NEW o \in Objs
  PROVE  /\ mapped[p][o] = Count(sems[p], o) + Count(bars[p], o) + Making(p, o)
         /\ Count(sems[p], o) \in Nat /\ Count(bars[p], o) \in Nat /\ mapped[p][o] \in Nat
         /\ sems[p] \in Registries /\ bars[p] \in Registries
         /\ Below(sems[p]) /\ Below(bars[p])
  BY HandlesFinite DEF Kept, MappingsHaveHandles, Making, Count

\* A handle of a semaphore comes with its mapping,
LEMMA StoreSemKept ==
  ASSUME Kept, NEW p \in Procs, NEW o \in Objs, NEW n \in Names \cup {NoName}, StoreSem(p, o, n)
  PROVE  Kept'
<1>1. /\ sems' = [sems EXCEPT ![p] = Store(@, o, n)] /\ bars' = bars /\ pc' = pc /\ at' = at
      /\ mapped' = [mapped EXCEPT ![p][o] = @ + 1] /\ HasRoom(sems[p])
  BY DEF StoreSem, Map
<1>2. Store(sems[p], o, n) \in Registries /\ Below(Store(sems[p], o, n))
      /\ \A x \in Objs :
           Count(Store(sems[p], o, n), x) = Count(sems[p], x) + IF x = o THEN 1 ELSE 0
  BY <1>1, OwnCount, StoreCount
<1>3. /\ sems' \in [Procs -> Registries] /\ bars' \in [Procs -> Registries]
      /\ mapped' \in [Procs -> [Objs -> Int]]
      /\ sems'[p] = Store(sems[p], o, n)
      /\ \A x \in Objs : mapped'[p][x] = mapped[p][x] + IF x = o THEN 1 ELSE 0
      /\ \A q \in Procs \ {p} : sems'[q] = sems[q] /\ mapped'[q] = mapped[q]
  BY <1>1, <1>2, OwnCount DEF Kept
<1>4. ASSUME NEW x \in Objs
      PROVE  mapped'[p][x] = Count(sems'[p], x) + Count(bars'[p], x) + Making(p, x)'
  <2>1. /\ mapped[p][x] = Count(sems[p], x) + Count(bars[p], x) + Making(p, x)
        /\ Count(sems[p], x) \in Nat /\ Count(bars[p], x) \in Nat
    BY OwnCount
  <2>2. Making(p, x)' = Making(p, x) /\ Making(p, x) \in Nat
    BY <1>1 DEF Making
  <2>3. QED
    BY <1>1, <1>2, <1>3, <2>1, <2>2
<1>5. QED
  BY <1>1, <1>2, <1>3, <1>4, KeptOne, OwnCount

\* and goes with it.
LEMMA TakeSemKept ==
  ASSUME Kept, NEW p \in Procs, NEW h \in Handles, TakeSem(p, h)
  PROVE  Kept'
<1>1. /\ sems' = [sems EXCEPT ![p] = Take(@, h)] /\ bars' = bars /\ pc' = pc /\ at' = at
      /\ mapped' = [mapped EXCEPT ![p][sems[p].map[h].obj] = @ - 1] /\ Known(sems[p], h)
  BY DEF TakeSem, Unmap
<1> DEFINE o == sems[p].map[h].obj
<1>2. Take(sems[p], h) \in Registries /\ Below(Take(sems[p], h)) /\ o \in Objs
      /\ \A x \in Objs :
           Count(Take(sems[p], h), x) = Count(sems[p], x) - IF x = o THEN 1 ELSE 0
  BY <1>1, OwnCount, TakeCount DEF Entries, Kept
<1>3. /\ sems' \in [Procs -> Registries] /\ bars' \in [Procs -> Registries]
      /\ mapped' \in [Procs -> [Objs -> Int]]
      /\ sems'[p] = Take(sems[p], h)
      /\ \A x \in Objs : mapped'[p][x] = mapped[p][x] - IF x = o THEN 1 ELSE 0
      /\ \A q \in Procs \ {p} : sems'[q] = sems[q] /\ mapped'[q] = mapped[q]
  BY <1>1, <1>2, OwnCount DEF Kept
<1>4. ASSUME NEW x \in Objs
      PROVE  mapped'[p][x] = Count(sems'[p], x) + Count(bars'[p], x) + Making(p, x)'
  <2>1. /\ mapped[p][x] = Count(sems[p], x) + Count(bars[p], x) + Making(p, x)
        /\ Count(sems[p], x) \in Nat /\ Count(bars[p], x) \in Nat
    BY OwnCount
  <2>2. Making(p, x)' = Making(p, x) /\ Making(p, x) \in Nat
    BY <1>1 DEF Making
  <2>3. QED
    BY <1>1, <1>2, <1>3, <2>1, <2>2
<1>5. QED
  BY <1>1, <1>2, <1>3, <1>4, KeptOne, OwnCount

\* So it is with barriers, closed or destroyed,
LEMMA TakeBarKept ==
  ASSUME Kept, NEW p \in Procs, NEW h \in Handles, TakeBar(p, h)
  PROVE  Kept'
<1>1. /\ bars' = [bars EXCEPT ![p] = Take(@, h)] /\ sems' = sems /\ pc' = pc /\ at' = at
      /\ mapped' = [mapped EXCEPT ![p][bars[p].map[h].obj] = @ - 1] /\ Known(bars[p], h)
  BY DEF TakeBar, Unmap
<1> DEFINE o == bars[p].map[h].obj
<1>2. Take(bars[p], h) \in Registries /\ Below(Take(bars[p], h)) /\ o \in Objs
      /\ \A x \in Objs :
           Count(Take(bars[p], h), x) = Count(bars[p], x) - IF x = o THEN 1 ELSE 0
  BY <1>1, OwnCount, TakeCount DEF Entries, Kept
<1>3. /\ sems' \in [Procs -> Registries] /\ bars' \in [Procs -> Registries]
      /\ mapped' \in [Procs -> [Objs -> Int]]
      /\ bars'[p] = Take(bars[p], h)
      /\ \A x \in Objs : mapped'[p][x] = mapped[p][x] - IF x = o THEN 1 ELSE 0
      /\ \A q \in Procs \ {p} : bars'[q] = bars[q] /\ mapped'[q] = mapped[q]
  BY <1>1, <1>2, OwnCount DEF Kept
<1>4. ASSUME NEW x \in Objs
      PROVE  mapped'[p][x] = Count(sems'[p], x) + Count(bars'[p], x) + Making(p, x)'
  <2>1. /\ mapped[p][x] = Count(sems[p], x) + Count(bars[p], x) + Making(p, x)
        /\ Count(sems[p], x) \in Nat /\ Count(bars[p], x) \in Nat
    BY OwnCount
  <2>2. Making(p, x)' = Making(p, x) /\ Making(p, x) \in Nat
    BY <1>1 DEF Making
  <2>3. QED
    BY <1>1, <1>2, <1>3, <2>1, <2>2
<1>5. QED
  BY <1>1, <1>2, <1>3, <1>4, KeptOne, OwnCount

\* stored with a mapping,
LEMMA MapBarKept ==
  ASSUME Kept, NEW p \in Procs, NEW o \in Objs, NEW n \in Names \cup {NoName},
         StoreBar(p, o, n), Map(p, o), pc' = pc, at' = at
  PROVE  Kept'
<1>1. /\ bars' = [bars EXCEPT ![p] = Store(@, o, n)] /\ sems' = sems
      /\ mapped' = [mapped EXCEPT ![p][o] = @ + 1] /\ HasRoom(bars[p])
  BY DEF StoreBar, Map
<1>2. Store(bars[p], o, n) \in Registries /\ Below(Store(bars[p], o, n))
      /\ \A x \in Objs :
           Count(Store(bars[p], o, n), x) = Count(bars[p], x) + IF x = o THEN 1 ELSE 0
  BY <1>1, OwnCount, StoreCount
<1>3. /\ sems' \in [Procs -> Registries] /\ bars' \in [Procs -> Registries]
      /\ mapped' \in [Procs -> [Objs -> Int]]
      /\ bars'[p] = Store(bars[p], o, n)
      /\ \A x \in Objs : mapped'[p][x] = mapped[p][x] + IF x = o THEN 1 ELSE 0
      /\ \A q \in Procs \ {p} : bars'[q] = bars[q] /\ mapped'[q] = mapped[q]
  BY <1>1, <1>2, OwnCount DEF Kept
<1>4. ASSUME NEW x \in Objs
      PROVE  mapped'[p][x] = Count(sems'[p], x) + Count(bars'[p], x) + Making(p, x)'
  <2>1. /\ mapped[p][x] = Count(sems[p], x) + Count(bars[p], x) + Making(p, x)
        /\ Count(sems[p], x) \in Nat /\ Count(bars[p], x) \in Nat
    BY OwnCount
  <2>2. Making(p, x)' = Making(p, x) /\ Making(p, x) \in Nat
    BY <1>1 DEF Making
  <2>3. QED
    BY <1>1, <1>2, <1>3, <2>1, <2>2
<1>5. QED
  BY <1>1, <1>2, <1>3, <1>4, KeptOne, OwnCount

\* mapped while the create is under way,
LEMMA CreateBarMapKept ==
  ASSUME Kept, Placed, NEW p \in Procs, NEW n \in Names, CreateBarMap(p, n)
  PROVE  Kept'
<1>1. PICK o \in Objs :
        /\ mapped' = [mapped EXCEPT ![p][o] = @ + 1] /\ sems' = sems /\ bars' = bars
        /\ pc[p] = "idle" /\ pc' = [pc EXCEPT ![p] = "creating"]
        /\ at' = [at EXCEPT ![p] = [obj |-> o, name |-> n]]
  BY DEF CreateBarMap, Map, registries
<1>2. /\ sems' \in [Procs -> Registries] /\ bars' \in [Procs -> Registries]
      /\ mapped' \in [Procs -> [Objs -> Int]]
      /\ \A x \in Objs : mapped'[p][x] = mapped[p][x] + IF x = o THEN 1 ELSE 0
      /\ \A q \in Procs \ {p} : mapped'[q] = mapped[q] /\ pc'[q] = pc[q] /\ at'[q] = at[q]
      /\ pc'[p] = "creating" /\ at'[p].obj = o
  BY <1>1, OwnCount DEF Kept, Placed
<1>3. \A x \in Objs : Making(p, x) = 0 /\ Making(p, x)' = IF x = o THEN 1 ELSE 0
  BY <1>1, <1>2 DEF Making
<1>4. \A x \in Objs : mapped'[p][x] = Count(sems'[p], x) + Count(bars'[p], x) + Making(p, x)'
  BY <1>1, <1>2, <1>3, OwnCount
<1>5. QED
  BY <1>1, <1>2, <1>4, KeptOne, OwnCount

\* and stored when it ends.
LEMMA CreateBarInitKept ==
  ASSUME Kept, Placed, NEW p \in Procs, CreateBarInit(p)
  PROVE  Kept'
<1> DEFINE o == at[p].obj
           n == at[p].name
<1>1. o \in Objs /\ n \in Names \cup {NoName}
  BY DEF CreateBarInit, Placed, Entries
<1>2. /\ bars' = [bars EXCEPT ![p] = Store(@, o, n)] /\ sems' = sems /\ mapped' = mapped
      /\ HasRoom(bars[p]) /\ pc[p] = "creating" /\ pc' = [pc EXCEPT ![p] = "idle"]
      /\ at' = [at EXCEPT ![p] = Nowhere]
  BY DEF CreateBarInit, StoreBar
<1>3. Store(bars[p], o, n) \in Registries /\ Below(Store(bars[p], o, n))
      /\ \A x \in Objs :
           Count(Store(bars[p], o, n), x) = Count(bars[p], x) + IF x = o THEN 1 ELSE 0
  BY <1>1, <1>2, OwnCount, StoreCount
<1>4. /\ sems' \in [Procs -> Registries] /\ bars' \in [Procs -> Registries]
      /\ mapped' \in [Procs -> [Objs -> Int]]
      /\ bars'[p] = Store(bars[p], o, n) /\ pc'[p] = "idle"
      /\ \A q \in Procs \ {p} : bars'[q] = bars[q] /\ pc'[q] = pc[q] /\ at'[q] = at[q]
  BY <1>2, <1>3 DEF Kept, Placed
<1>5. \A x \in Objs : Making(p, x)' = 0 /\ Making(p, x) = IF x = o THEN 1 ELSE 0
  BY <1>2, <1>4 DEF Making
<1>6. \A x \in Objs : mapped'[p][x] = Count(sems'[p], x) + Count(bars'[p], x) + Making(p, x)'
  BY <1>2, <1>3, <1>4, <1>5, OwnCount
<1>7. Below(sems'[p]) /\ Below(bars'[p])
  BY <1>2, <1>3, <1>4 DEF Kept
<1>8. \A q \in Procs \ {p} : /\ sems'[q] = sems[q] /\ bars'[q] = bars[q]
                              /\ mapped'[q] = mapped[q] /\ pc'[q] = pc[q] /\ at'[q] = at[q]
  BY <1>2, <1>4
<1>9. QED
  BY <1>4, <1>6, <1>7, <1>8, KeptOne, Zenon

\* A child has the handles and the mappings of its parent,
LEMMA ForkKept ==
  ASSUME Kept, Placed, NEW p \in Procs, NEW q \in Procs, Fork(p, q)
  PROVE  Kept'
<1>1. /\ sems' = [sems EXCEPT ![q] = sems[p]] /\ bars' = [bars EXCEPT ![q] = bars[p]]
      /\ mapped' = [mapped EXCEPT ![q] = mapped[p]]
      /\ pc[p] = "idle" /\ pc' = [pc EXCEPT ![q] = "idle"] /\ at' = at
  BY DEF Fork
<1>2. /\ sems' \in [Procs -> Registries] /\ bars' \in [Procs -> Registries]
      /\ mapped' \in [Procs -> [Objs -> Int]]
      /\ sems'[q] = sems[p] /\ bars'[q] = bars[p] /\ mapped'[q] = mapped[p] /\ pc'[q] = "idle"
      /\ \A r \in Procs \ {q} : /\ sems'[r] = sems[r] /\ bars'[r] = bars[r]
                                /\ mapped'[r] = mapped[r] /\ pc'[r] = pc[r]
  BY <1>1 DEF Kept, Placed
<1>3. \A x \in Objs : Making(q, x)' = 0 /\ Making(p, x) = 0
  BY <1>1, <1>2 DEF Making
<1>4. \A x \in Objs : mapped'[q][x] = Count(sems'[q], x) + Count(bars'[q], x) + Making(q, x)'
  BY <1>2, <1>3, OwnCount
<1>5. Below(sems'[q]) /\ Below(bars'[q])
  BY <1>2 DEF Kept
<1>6. \A r \in Procs \ {q} : /\ sems'[r] = sems[r] /\ bars'[r] = bars[r]
                              /\ mapped'[r] = mapped[r] /\ pc'[r] = pc[r] /\ at'[r] = at[r]
  BY <1>1, <1>2
<1>7. QED
  BY <1>2, <1>4, <1>5, <1>6, KeptOne, Zenon

\* a process that is gone has none, and a wait changes neither.
LEMMA ExitKept ==
  ASSUME Kept, Placed, NEW p \in Procs, Exit(p)
  PROVE  Kept'
<1>1. /\ sems' = [sems EXCEPT ![p] = EmptyRegistry] /\ bars' = [bars EXCEPT ![p] = EmptyRegistry]
      /\ mapped' = [mapped EXCEPT ![p] = [o \in Objs |-> 0]]
      /\ pc' = [pc EXCEPT ![p] = "dead"] /\ at' = [at EXCEPT ![p] = Nowhere]
  BY DEF Exit
<1>2. /\ sems' \in [Procs -> Registries] /\ bars' \in [Procs -> Registries]
      /\ mapped' \in [Procs -> [Objs -> Int]]
      /\ sems'[p] = EmptyRegistry /\ bars'[p] = EmptyRegistry /\ pc'[p] = "dead"
      /\ \A o \in Objs : mapped'[p][o] = 0
      /\ \A q \in Procs \ {p} : /\ sems'[q] = sems[q] /\ bars'[q] = bars[q]
                                /\ mapped'[q] = mapped[q] /\ pc'[q] = pc[q] /\ at'[q] = at[q]
  BY <1>1, EmptyCount DEF Kept, Placed
<1>3. \A x \in Objs : mapped'[p][x] = Count(sems'[p], x) + Count(bars'[p], x) + Making(p, x)'
  BY <1>2, EmptyCount DEF Making
<1>4. QED
  BY <1>2, <1>3, EmptyCount, KeptOne

LEMMA WaitKept ==
  ASSUME Kept, sems' = sems, bars' = bars, mapped' = mapped,
         \A p \in Procs : (pc[p] = "creating" /\ pc'[p] = pc[p] /\ at'[p] = at[p])
                          \/ (pc[p] # "creating" /\ pc'[p] # "creating")
  PROVE  Kept'
  BY DEF Kept, MappingsHaveHandles

------------------------------------------------------------------------------
(* Calls in progress, names and objects. *)

\* A wait starts, or ends however it does.
LEMMA WaitPlaced ==
  ASSUME Kept, Placed, NEW p \in Procs,
         \/ WaitWake(p) \/ WaitFail(p)
         \/ \E h \in Handles : WaitNow(p, h) \/ WaitBlock(p, h) \/ Post(p, h)
  PROVE  Kept' /\ Placed'
<1>1. sems' = sems /\ bars' = bars /\ mapped' = mapped
      /\ semNames' = semNames /\ shmNames' = shmNames /\ used' = used /\ ready' = ready
  BY DEF WaitWake, WaitFail, WaitNow, WaitBlock, Post, Leave, registries, names
<1>2. CASE pc' = pc /\ at' = at
  BY <1>1, <1>2, WaitKept DEF Placed
<1>3. CASE pc[p] = "waiting" /\ pc' = [pc EXCEPT ![p] = "idle"] /\ at' = [at EXCEPT ![p] = Nowhere]
  BY <1>1, <1>3, WaitKept DEF Placed
<1>4. ASSUME NEW h \in Handles, WaitBlock(p, h) PROVE Kept' /\ Placed'
  <2>1. sems[p].map[h] \in Entries
    BY <1>4 DEF WaitBlock, Known, Kept, Registries
  <2>2. pc[p] = "idle" /\ pc' = [pc EXCEPT ![p] = "waiting"] /\ at' = [at EXCEPT ![p] = sems[p].map[h]]
    BY <1>4 DEF WaitBlock
  <2>3. QED
    BY <1>1, <2>1, <2>2, WaitKept DEF Placed
<1>5. QED
  BY <1>2, <1>3, <1>4 DEF WaitWake, WaitFail, WaitNow, Post, Leave

\* Semaphores are made, opened, closed and destroyed,
LEMMA SemPlaced ==
  ASSUME Kept, Placed, NEW p \in Procs,
         \/ \E n \in Names \cup {NoName}, c \in Counts : CreateSem(p, n, c)
         \/ \E n \in Names : OpenSem(p, n)
         \/ \E h \in Handles : CloseSem(p, h) \/ DestroySem(p, h)
  PROVE  Kept' /\ Placed'
<1>1. ASSUME NEW n \in Names \cup {NoName}, NEW c \in Counts, CreateSem(p, n, c)
      PROVE  Kept' /\ Placed'
  <2>1. PICK o \in Objs : Fresh(o) /\ StoreSem(p, o, n)
             /\ semNames' = IF n = NoName THEN semNames ELSE [semNames EXCEPT ![n] = o]
    BY <1>1 DEF CreateSem
  <2>2. Kept'
    BY <2>1, StoreSemKept
  <2>3. QED
    BY <2>1, <2>2 DEF Placed, Fresh, StoreSem
<1>2. ASSUME NEW n \in Names, OpenSem(p, n) PROVE Kept' /\ Placed'
  <2>1. semNames[n] \in Objs
    BY <1>2 DEF OpenSem, Placed
  <2>2. Kept'
    BY <1>2, <2>1, StoreSemKept DEF OpenSem
  <2>3. QED
    BY <1>2, <2>2 DEF Placed, OpenSem, StoreSem
<1>3. ASSUME NEW h \in Handles, CloseSem(p, h) \/ DestroySem(p, h) PROVE Kept' /\ Placed'
  <2>1. Kept'
    BY <1>3, TakeSemKept DEF CloseSem, DestroySem
  <2>2. shmNames' \in [Names -> Objs \cup {NoObj}]
    BY <1>3 DEF Placed, CloseSem, DestroySem
  <2>3. pc' = pc /\ at' = at /\ semNames' = semNames /\ used' = used /\ ready' = ready
    BY <1>3 DEF CloseSem, DestroySem, TakeSem
  <2>4. QED
    BY <2>1, <2>2, <2>3 DEF Placed
<1>4. QED
  BY <1>1, <1>2, <1>3

\* and barriers,
LEMMA BarPlaced ==
  ASSUME Kept, Placed, NEW p \in Procs,
         \/ CreateAnonBar(p) \/ CreateBarInit(p)
         \/ \E n \in Names : CreateBarMap(p, n) \/ OpenBar(p, n)
         \/ \E h \in Handles : CloseBar(p, h) \/ DestroyBar(p, h)
  PROVE  Kept' /\ Placed'
<1>1. CASE CreateAnonBar(p)
  <2>1. PICK o \in Objs : /\ Fresh(o) /\ StoreBar(p, o, NoName) /\ Map(p, o)
                          /\ ready' = ready \cup {o}
    BY <1>1 DEF CreateAnonBar
  <2>2. shmNames' = shmNames /\ pc' = pc /\ at' = at /\ semNames' = semNames
    BY <1>1, <2>1 DEF CreateAnonBar, StoreBar
  <2>3. Kept'
    BY <2>1, <2>2, MapBarKept
  <2>4. QED
    BY <2>1, <2>2, <2>3 DEF Placed, Fresh
<1>2. CASE CreateBarInit(p)
  <2>1. Kept'
    BY <1>2, CreateBarInitKept
  <2>2. at[p].obj \in Objs
    BY <1>2 DEF CreateBarInit, Placed, Entries
  <2>3. /\ pc' = [pc EXCEPT ![p] = "idle"] /\ at' = [at EXCEPT ![p] = Nowhere]
        /\ semNames' = semNames /\ shmNames' = shmNames /\ used' = used
        /\ ready' = ready \cup {at[p].obj}
    BY <1>2 DEF CreateBarInit, StoreBar
  <2>4. QED
    BY <2>1, <2>2, <2>3 DEF Placed
<1>3. ASSUME NEW n \in Names, CreateBarMap(p, n) PROVE Kept' /\ Placed'
  <2>1. Kept'
    BY <1>3, CreateBarMapKept
  <2>2. PICK o \in Objs :
          /\ used' \subseteq used \cup {o}
          /\ shmNames' = [shmNames EXCEPT ![n] = o]
          /\ pc' = [pc EXCEPT ![p] = "creating"]
          /\ at' = [at EXCEPT ![p] = [obj |-> o, name |-> n]]
    BY <1>3 DEF CreateBarMap, Fresh
  <2>3. semNames' = semNames /\ ready' = ready
    BY <1>3 DEF CreateBarMap
  <2>4. [obj |-> o, name |-> n] \in Entries
    BY DEF Entries
  <2>5. QED
    BY <2>1, <2>2, <2>3, <2>4 DEF Placed
<1>4. ASSUME NEW n \in Names, OpenBar(p, n) PROVE Kept' /\ Placed'
  <2>1. shmNames[n] \in Objs
    BY <1>4 DEF OpenBar, Placed
  <2>2. pc' = pc /\ at' = at /\ shmNames' = shmNames /\ used' = used /\ ready' = ready
        /\ semNames' = semNames
    BY <1>4 DEF OpenBar, StoreBar
  <2>3. Kept'
    BY <1>4, <2>1, <2>2, MapBarKept DEF OpenBar
  <2>4. QED
    BY <2>2, <2>3 DEF Placed
<1>5. ASSUME NEW h \in Handles, CloseBar(p, h) \/ DestroyBar(p, h) PROVE Kept' /\ Placed'
  <2>1. Kept'
    BY <1>5, TakeBarKept DEF CloseBar, DestroyBar
  <2>2. shmNames' \in [Names -> Objs \cup {NoObj}]
    BY <1>5 DEF Placed, CloseBar, DestroyBar
  <2>3. pc' = pc /\ at' = at /\ semNames' = semNames /\ used' = used /\ ready' = ready
    BY <1>5 DEF CloseBar, DestroyBar, TakeBar
  <2>4. QED
    BY <2>1, <2>2, <2>3 DEF Placed
<1>6. QED
  BY <1>1, <1>2, <1>3, <1>4, <1>5

\* and processes come and go.
LEMMA LifePlaced ==
  ASSUME Kept, Placed, NEW p \in Procs, Exit(p) \/ \E q \in Procs : Fork(p, q)
  PROVE  Kept' /\ Placed'
<1>1. CASE Exit(p)
  <2>1. Kept'
    BY <1>1, ExitKept
  <2>2. QED
    BY <1>1, <2>1 DEF Placed, Exit, names
<1>2. ASSUME NEW q \in Procs, Fork(p, q) PROVE Kept' /\ Placed'
  <2>1. Kept'
    BY <1>2, ForkKept
  <2>2. QED
    BY <1>2, <2>1 DEF Placed, Fork, names
<1>3. QED
  BY <1>1, <1>2

------------------------------------------------------------------------------
(* Units. *)

\* A step that counts nothing, makes nothing to wait for and adds no handle of a semaphore.
LEMMA CountedFrame ==
  ASSUME Counted, value' = value, start' = start, posted' = posted, granted' = granted,
         used \subseteq used',
         \A p \in Procs, h \in Handles : Known(sems'[p], h) => sems'[p].map[h].obj \in used',
         \A n \in Names : semNames'[n] # NoObj => semNames'[n] \in used',
         \A p \in Procs : pc'[p] = "waiting" => at'[p].obj \in used'
  PROVE  Counted'
<1>1. \A o \in Objs \ used' : value'[o] = start'[o]
  BY DEF Counted
<1>2. UnitsConserved'
  BY DEF Counted, UnitsConserved
<1>3. QED
  BY <1>1, <1>2 DEF Counted

\* A unit taken is a wait that was told so.
LEMMA DecrementCounted ==
  ASSUME Placed, Counted, NEW o \in used, Decrement(o), used' = used, semNames' = semNames,
         sems' = sems, \A p \in Procs : pc'[p] = "waiting" => pc[p] = "waiting" /\ at'[p] = at[p]
  PROVE  Counted'
<1>1. o \in Objs /\ SemMax \in Nat
  BY ObjectsAssumption DEF Placed
<1>2. /\ value[o] > 0 /\ value' = [value EXCEPT ![o] = @ - 1]
      /\ granted' = [granted EXCEPT ![o] = @ + 1] /\ start' = start /\ posted' = posted
  BY DEF Decrement
<1>3. value[o] \in 0..SemMax /\ granted[o] \in Nat /\ start[o] \in 0..SemMax /\ posted[o] \in Nat
      /\ value[o] + granted[o] = start[o] + posted[o]
  BY <1>1 DEF Counted, UnitsConserved
<1>4. value' \in [Objs -> 0..SemMax] /\ granted' \in [Objs -> Nat]
  <2>1. value[o] - 1 \in 0..SemMax /\ granted[o] + 1 \in Nat
    BY <1>1, <1>2, <1>3
  <2>2. QED
    BY <1>2, <2>1 DEF Counted
<1>5. /\ value'[o] = value[o] - 1 /\ granted'[o] = granted[o] + 1
      /\ \A x \in Objs \ {o} : value'[x] = value[x] /\ granted'[x] = granted[x]
  BY <1>1, <1>2 DEF Counted
<1>6. value'[o] + granted'[o] = start'[o] + posted'[o]
  BY <1>1, <1>2, <1>3, <1>5
<1>7. UnitsConserved'
  BY <1>2, <1>5, <1>6 DEF Counted, UnitsConserved
<1>8. \A x \in Objs \ used' : value'[x] = start'[x]
  BY <1>2, <1>5 DEF Counted
<1>9. QED
  BY <1>2, <1>4, <1>7, <1>8 DEF Counted

\* Waits and posts.
LEMMA WaitCounted ==
  ASSUME Kept, Placed, Counted, NEW p \in Procs,
         \/ WaitWake(p) \/ WaitFail(p)
         \/ \E h \in Handles : WaitNow(p, h) \/ WaitBlock(p, h) \/ Post(p, h)
  PROVE  Counted'
<1>1. sems' = sems /\ semNames' = semNames /\ used' = used
  BY DEF WaitWake, WaitFail, WaitNow, WaitBlock, Post, Leave, registries, names
<1>2. CASE WaitWake(p)
  <2>1. at[p].obj \in used /\ Decrement(at[p].obj)
    BY <1>2 DEF WaitWake, Counted
  <2>2. \A q \in Procs : pc'[q] = "waiting" => pc[q] = "waiting" /\ at'[q] = at[q]
    BY <1>2 DEF WaitWake, Leave, Placed
  <2>3. QED
    BY <1>1, <2>1, <2>2, DecrementCounted
<1>3. CASE WaitFail(p)
  <2>1. \A q \in Procs : pc'[q] = "waiting" => pc[q] = "waiting" /\ at'[q] = at[q]
    BY <1>3 DEF WaitFail, Leave, Placed
  <2>2. value' = value /\ start' = start /\ posted' = posted /\ granted' = granted
    BY <1>3 DEF WaitFail, counters
  <2>3. QED
    BY <1>1, <2>1, <2>2, CountedFrame DEF Counted
<1>4. ASSUME NEW h \in Handles, WaitNow(p, h) PROVE Counted'
  <2>1. sems[p].map[h].obj \in used /\ Decrement(sems[p].map[h].obj) /\ pc' = pc /\ at' = at
    BY <1>4 DEF WaitNow, Counted
  <2>2. QED
    BY <1>1, <2>1, DecrementCounted
<1>5. ASSUME NEW h \in Handles, WaitBlock(p, h) PROVE Counted'
  <2>1. sems[p].map[h].obj \in used
    BY <1>5 DEF WaitBlock, Counted
  <2>2. at' = [at EXCEPT ![p] = sems[p].map[h]] /\ pc' = [pc EXCEPT ![p] = "waiting"]
        /\ value' = value /\ start' = start /\ posted' = posted /\ granted' = granted
    BY <1>5 DEF WaitBlock, counters
  <2>3. \A q \in Procs : pc'[q] = "waiting" => at'[q].obj \in used'
    BY <1>1, <2>1, <2>2 DEF Placed, Counted
  <2>4. QED
    BY <1>1, <2>2, <2>3, CountedFrame DEF Counted
<1>6. ASSUME NEW h \in Handles, Post(p, h) PROVE Counted'
  <2> DEFINE o == sems[p].map[h].obj
  <2>1. o \in used /\ o \in Objs /\ SemMax \in Nat
    BY <1>6, ObjectsAssumption DEF Post, Counted, Placed
  <2>2. /\ value[o] < SemMax /\ value' = [value EXCEPT ![o] = @ + 1]
        /\ posted' = [posted EXCEPT ![o] = @ + 1] /\ start' = start /\ granted' = granted
        /\ pc' = pc /\ at' = at
    BY <1>6 DEF Post
  <2> HIDE DEF o
  <2>3. value[o] \in 0..SemMax /\ granted[o] \in Nat /\ start[o] \in 0..SemMax /\ posted[o] \in Nat
        /\ value[o] + granted[o] = start[o] + posted[o]
    BY <2>1 DEF Counted, UnitsConserved
  <2>4. value' \in [Objs -> 0..SemMax] /\ posted' \in [Objs -> Nat]
    <3>1. value[o] + 1 \in 0..SemMax /\ posted[o] + 1 \in Nat
      BY <2>1, <2>2, <2>3
    <3>2. QED
      BY <2>2, <3>1 DEF Counted
  <2>5. /\ value'[o] = value[o] + 1 /\ posted'[o] = posted[o] + 1
        /\ \A x \in Objs \ {o} : value'[x] = value[x] /\ posted'[x] = posted[x]
    BY <2>1, <2>2 DEF Counted
  <2>6. value'[o] + granted'[o] = start'[o] + posted'[o]
    BY <2>1, <2>2, <2>3, <2>5
  <2>7. UnitsConserved'
    BY <2>2, <2>5, <2>6 DEF Counted, UnitsConserved
  <2>8. \A x \in Objs \ used' : value'[x] = start'[x]
    BY <1>1, <2>1, <2>2, <2>5 DEF Counted
  <2>9. QED
    BY <1>1, <2>2, <2>4, <2>7, <2>8 DEF Counted
<1>7. QED
  BY <1>2, <1>3, <1>4, <1>5, <1>6

\* A semaphore starts with its count; a handle taken or stored counts nothing.
LEMMA SemCounted ==
  ASSUME Kept, Placed, Counted, NEW p \in Procs,
         \/ \E n \in Names \cup {NoName}, c \in Counts : CreateSem(p, n, c)
         \/ \E n \in Names : OpenSem(p, n)
         \/ \E h \in Handles : CloseSem(p, h) \/ DestroySem(p, h)
  PROVE  Counted'
<1>0. sems[p] \in Registries /\ Below(sems[p]) /\ sems \in [Procs -> Registries]
  BY DEF Kept
<1>1. ASSUME NEW n \in Names \cup {NoName}, NEW c \in Counts, CreateSem(p, n, c)
      PROVE  Counted'
  <2>1. PICK o \in Objs :
          /\ Fresh(o) /\ StoreSem(p, o, n)
          /\ value' = [value EXCEPT ![o] = c] /\ start' = [start EXCEPT ![o] = c]
          /\ semNames' = IF n = NoName THEN semNames ELSE [semNames EXCEPT ![n] = o]
    BY <1>1 DEF CreateSem
  <2>2. /\ o \notin used /\ used' = used \cup {o} /\ c \in 0..SemMax /\ SemMax \in Nat
        /\ posted' = posted /\ granted' = granted /\ pc' = pc /\ at' = at
        /\ sems' = [sems EXCEPT ![p] = Store(@, o, n)] /\ HasRoom(sems[p])
    BY <2>1, ObjectsAssumption DEF Fresh, StoreSem
  <2>3. \A q \in Procs, h \in Handles : Known(sems'[q], h) => sems'[q].map[h].obj \in used'
    <3>1. \A h \in Handles : Known(Store(sems[p], o, n), h) =>
            \/ Store(sems[p], o, n).map[h].obj = o
            \/ Known(sems[p], h) /\ Store(sems[p], o, n).map[h] = sems[p].map[h]
      BY <1>0, <2>2, StoreCount
    <3>2. QED
      BY <1>0, <2>2, <3>1 DEF Counted
  <2>4. value[o] + granted[o] = start[o] + posted[o] /\ value[o] = start[o]
        /\ value[o] \in Nat /\ granted[o] \in Nat /\ posted[o] \in Nat
    BY <2>2 DEF Counted, UnitsConserved
  <2>5. granted[o] = posted[o]
    BY <2>4
  <2>6. value' \in [Objs -> 0..SemMax] /\ start' \in [Objs -> 0..SemMax]
        /\ value'[o] = c /\ start'[o] = c
        /\ \A x \in Objs \ {o} : value'[x] = value[x] /\ start'[x] = start[x]
    BY <2>1, <2>2 DEF Counted
  <2>7. UnitsConserved'
    BY <2>2, <2>5, <2>6 DEF Counted, UnitsConserved
  <2>8. \A x \in Objs \ used' : value'[x] = start'[x]
    BY <2>2, <2>6 DEF Counted
  <2>9. \A m \in Names : semNames'[m] # NoObj => semNames'[m] \in used'
    BY <2>1, <2>2 DEF Counted, Placed
  <2>10. QED
    BY <2>2, <2>3, <2>6, <2>7, <2>8, <2>9 DEF Counted
<1>2. ASSUME NEW n \in Names, OpenSem(p, n) PROVE Counted'
  <2> DEFINE o == semNames[n]
  <2>1. /\ o \in used /\ o \in Objs /\ used' = used
        /\ value' = value /\ start' = start /\ posted' = posted /\ granted' = granted
        /\ pc' = pc /\ at' = at /\ semNames' = semNames
        /\ sems' = [sems EXCEPT ![p] = Store(@, o, n)] /\ HasRoom(sems[p])
    BY <1>2 DEF OpenSem, StoreSem, Counted, Placed
  <2>2. \A h \in Handles : Known(Store(sems[p], o, n), h) =>
          \/ Store(sems[p], o, n).map[h].obj = o
          \/ Known(sems[p], h) /\ Store(sems[p], o, n).map[h] = sems[p].map[h]
    BY <1>0, <2>1, StoreCount
  <2>3. \A q \in Procs, h \in Handles : Known(sems'[q], h) => sems'[q].map[h].obj \in used'
    BY <1>0, <2>1, <2>2 DEF Counted
  <2>4. QED
    BY <2>1, <2>3, CountedFrame DEF Counted
<1>3. ASSUME NEW h \in Handles, CloseSem(p, h) \/ DestroySem(p, h) PROVE Counted'
  <2>1. /\ used' = used /\ value' = value /\ start' = start /\ posted' = posted
        /\ granted' = granted /\ pc' = pc /\ at' = at /\ semNames' = semNames
        /\ sems' = [sems EXCEPT ![p] = Take(@, h)] /\ Known(sems[p], h)
    BY <1>3 DEF CloseSem, DestroySem, TakeSem, counters
  <2>2. \A i \in Handles : Known(Take(sems[p], h), i) =>
          Known(sems[p], i) /\ Take(sems[p], h).map[i] = sems[p].map[i]
    BY <1>0, <2>1, TakeCount
  <2>3. \A q \in Procs, i \in Handles : Known(sems'[q], i) => sems'[q].map[i].obj \in used'
    BY <1>0, <2>1, <2>2 DEF Counted
  <2>4. QED
    BY <2>1, <2>3, CountedFrame DEF Counted
<1>4. QED
  BY <1>1, <1>2, <1>3

\* Barriers have no count.
LEMMA BarCounted ==
  ASSUME Placed, Counted, NEW p \in Procs,
         \/ CreateAnonBar(p) \/ CreateBarInit(p)
         \/ \E n \in Names : CreateBarMap(p, n) \/ OpenBar(p, n)
         \/ \E h \in Handles : CloseBar(p, h) \/ DestroyBar(p, h)
  PROVE  Counted'
<1>1. sems' = sems /\ semNames' = semNames /\ used \subseteq used'
      /\ value' = value /\ start' = start /\ posted' = posted /\ granted' = granted
  BY DEF CreateAnonBar, CreateBarInit, CreateBarMap, OpenBar, CloseBar, DestroyBar, TakeBar,
         StoreBar, Fresh, registries, counters
<1>2. \A q \in Procs : pc'[q] = "waiting" => pc[q] = "waiting" /\ at'[q] = at[q]
  BY DEF CreateAnonBar, CreateBarInit, CreateBarMap, OpenBar, CloseBar, DestroyBar, TakeBar, Placed
<1>3. QED
  BY <1>1, <1>2, CountedFrame DEF Counted

\* A process that exits has waited for nothing.
LEMMA LifeCounted ==
  ASSUME Kept, Placed, Counted, NEW p \in Procs, Exit(p) \/ \E q \in Procs : Fork(p, q)
  PROVE  Counted'
<1>1. semNames' = semNames /\ used' = used
      /\ value' = value /\ start' = start /\ posted' = posted /\ granted' = granted
  BY DEF Exit, Fork, names, counters
<1>2. \A q \in Procs : pc'[q] = "waiting" => pc[q] = "waiting" /\ at'[q] = at[q]
  BY DEF Exit, Fork, Placed
<1>3. \A q \in Procs, h \in Handles : Known(sems'[q], h) => sems'[q].map[h].obj \in used
  BY EmptyCount DEF Exit, Fork, Kept, Counted
<1>4. QED
  BY <1>1, <1>2, <1>3, CountedFrame DEF Counted

------------------------------------------------------------------------------
(* The invariant and the theorems. *)

\* The initial states satisfy it.
LEMMA InvInit == Init => IInv
<1> SUFFICES ASSUME Init PROVE IInv
  OBVIOUS
<1>1. Kept
  <2>1. /\ \A p \in Procs : sems[p] = EmptyRegistry /\ bars[p] = EmptyRegistry
        /\ \A p \in Procs, o \in Objs : mapped[p][o] = 0 /\ pc[p] # "creating"
    BY DEF Init
  <2>2. \A p \in Procs, o \in Objs : mapped[p][o] = Count(sems[p], o) + Count(bars[p], o) + 0
    BY <2>1, EmptyCount
  <2>3. MappingsHaveHandles
    BY <2>1, <2>2 DEF MappingsHaveHandles, Count
  <2>4. QED
    BY <2>1, <2>3, EmptyCount DEF Kept, Init
<1>2. Placed
  BY DEF Placed, Init
<1>3. Counted
  <2>1. 0 \in 0..SemMax
    BY ObjectsAssumption
  <2>2. \A o \in Objs : value[o] = 0 /\ granted[o] = 0 /\ start[o] = 0 /\ posted[o] = 0
    BY DEF Init
  <2>3. UnitsConserved
    BY <2>2 DEF UnitsConserved
  <2>4. QED
    BY <2>1, <2>2, <2>3, EmptyCount DEF Counted, Init
<1>4. QED
  BY <1>1, <1>2, <1>3 DEF IInv

\* Every step keeps it.
LEMMA InvStep == IInv /\ [Next]_vars => IInv'
<1> SUFFICES ASSUME IInv, [Next]_vars PROVE IInv'
  OBVIOUS
<1>1. CASE UNCHANGED vars
  BY <1>1, WaitKept, CountedFrame DEF vars, IInv, Placed, Counted
<1>2. ASSUME NEW p \in Procs, Step(p) PROVE IInv'
  <2>1. CASE \/ WaitWake(p) \/ WaitFail(p)
             \/ \E h \in Handles : WaitNow(p, h) \/ WaitBlock(p, h) \/ Post(p, h)
    BY <2>1, WaitPlaced, WaitCounted DEF IInv
  <2>2. CASE \/ \E n \in Names \cup {NoName}, c \in Counts : CreateSem(p, n, c)
             \/ \E n \in Names : OpenSem(p, n)
             \/ \E h \in Handles : CloseSem(p, h) \/ DestroySem(p, h)
    BY <2>2, SemPlaced, SemCounted DEF IInv
  <2>3. CASE \/ CreateAnonBar(p) \/ CreateBarInit(p)
             \/ \E n \in Names : CreateBarMap(p, n) \/ OpenBar(p, n)
             \/ \E h \in Handles : CloseBar(p, h) \/ DestroyBar(p, h)
    BY <2>3, BarPlaced, BarCounted DEF IInv
  <2>4. CASE Exit(p) \/ \E q \in Procs : Fork(p, q)
    BY <2>4, LifePlaced, LifeCounted DEF IInv
  <2>5. QED
    BY <1>2, <2>1, <2>2, <2>3, <2>4 DEF Step
<1>3. QED
  BY <1>1, <1>2 DEF Next

\* The invariant holds in every state.
LEMMA InvHolds == Spec => []IInv
  BY InvInit, InvStep, PTL DEF Spec

\* Every mapping of a process has a handle that stands for it, and every handle its mapping,
\* through create, open, close, destroy, fork and exit.
THEOREM MappingsKept == Spec => []MappingsHaveHandles
<1>1. IInv => MappingsHaveHandles
  BY DEF IInv, Kept
<1>2. QED
  BY <1>1, InvHolds, PTL

\* No unit of a semaphore is lost or made up.
THEOREM UnitsKept == Spec => []UnitsConserved
<1>1. IInv => UnitsConserved
  BY DEF IInv, Counted
<1>2. QED
  BY <1>1, InvHolds, PTL

\* Every state is well typed.
THEOREM WellTyped == Spec => []TypeOK
<1>1. IInv => TypeOK
  BY DEF IInv, Kept, Placed, Counted, TypeOK
<1>2. QED
  BY <1>1, InvHolds, PTL

==============================================================================
