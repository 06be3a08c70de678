------------------------------- MODULE Handles -------------------------------
(***************************************************************************)
(* The handle registry every synchronisation primitive keeps in each       *)
(* process (l_builtin/src/handles.rs).  A script never sees a pointer: it  *)
(* holds an integer that the registry of its own process maps to a mapping *)
(* of a shared object and, when the object has one, the name to unlink.    *)
(* A registry is a record: `map` gives the entry of every handle, NoEntry  *)
(* when the handle is unknown, and `next` is the id the next store uses.   *)
(***************************************************************************)
EXTENDS Naturals

CONSTANTS MaxHandle, \* bound: handles one process creates in its lifetime
          Objs,      \* shared memory objects, mapped into many processes
          Names,     \* names objects are created and opened under
          NoName,    \* the name of an anonymous object
          NoEntry    \* what a lookup of an unknown handle returns

ASSUME HandleAssumption ==
  /\ MaxHandle \in Nat \ {0}
  /\ NoName \notin Names
  /\ NoEntry \notin [obj : Objs, name : Names \cup {NoName}]

Handles == 1..MaxHandle
Entries == [obj : Objs, name : Names \cup {NoName}]
Registries == [map : [Handles -> Entries \cup {NoEntry}], next : 1..(MaxHandle + 1)]

EmptyRegistry == [map |-> [h \in Handles |-> NoEntry], next |-> 1]

HasRoom(r) == r.next <= MaxHandle

\* Mutant of Store: the new mapping goes under the lowest id that is free.
StoreLowest(r, o, n) ==
  LET free == {h \in Handles : r.map[h] = NoEntry}
      low == CHOOSE h \in free : \A i \in free : h <= i
  IN [map |-> [r.map EXCEPT ![low] = [obj |-> o, name |-> n]], next |-> r.next + 1]

\* The new mapping goes under the next id; ids are never given out twice.
Store(r, o, n) ==
  [map |-> [r.map EXCEPT ![r.next] = [obj |-> o, name |-> n]], next |-> r.next + 1]

Known(r, h) == r.map[h] # NoEntry

\* `close` and `destroy` take the entry out; `next` does not move back.
Take(r, h) == [r EXCEPT !.map[h] = NoEntry]

\* The objects that for_each visits.
Mapped(r) == {r.map[h].obj : h \in {i \in Handles : Known(r, i)}}
==============================================================================
