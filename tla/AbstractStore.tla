---------------------------- MODULE AbstractStore ----------------------------
(***************************************************************************)
(* What a variable database promises: every update is applied, whole and   *)
(* at once, to the contents that all updates before it have left, and a    *)
(* reader gets the contents of one moment.  A writer that dies may leave   *)
(* its backing damaged, never half updated and readable.                   *)
(***************************************************************************)
CONSTANTS Procs, Files, Keys

VARIABLES contents,  \* of each backing: the variables stored in it
          condition, \* "absent", "readable", or "damaged": its contents are lost
          got        \* what each process read last

vars == <<contents, condition, got>>

Init ==
  /\ contents = [f \in Files |-> {}]
  /\ condition \in [Files -> {"absent", "damaged"}]
  /\ got = [p \in Procs |-> {}]

Becomes(f, c, db) ==
  /\ condition' = [condition EXCEPT ![f] = c]
  /\ contents' = [contents EXCEPT ![f] = db]
  /\ UNCHANGED got

Create(f) == condition[f] = "absent" /\ Becomes(f, "readable", {})

\* Foreign or damaged contents are dropped, never used.
Salvage(f) == condition[f] = "damaged" /\ Becomes(f, "readable", {})

Update(f) ==
  /\ condition[f] = "readable"
  /\ \E db \in {{}} \cup {contents[f] \cup {k} : k \in Keys} \cup {contents[f] \ {k} : k \in Keys} :
       Becomes(f, "readable", db)

Damage(f) == condition[f] = "readable" /\ Becomes(f, "damaged", {})

Read(p, f) ==
  /\ condition[f] # "absent"
  /\ got' = [got EXCEPT ![p] = contents[f]]
  /\ UNCHANGED <<contents, condition>>

Next == \E f \in Files :
  Create(f) \/ Salvage(f) \/ Update(f) \/ Damage(f) \/ \E p \in Procs : Read(p, f)

Spec == Init /\ [][Next]_vars
==============================================================================
