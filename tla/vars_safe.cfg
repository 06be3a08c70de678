SPECIFICATION FairSpec
CONSTANTS
  Procs = {p1, p2}
  Shell = p1
  Dbs = {d1, d2}
  NoDb = NoDb
  Limited = {d2}
  Capacity = 1
  Length = 2
  Values = {x}
  Unset = Unset
  Nobody = Nobody
  Dead = Dead
  Does = {"get", "put", "append", "reassign", "delete", "unset", "bind", "seed", "sync", "unbind", "info", "drop", "clear", "rm"}
  Mortal = TRUE
  MaxOps = 4
INVARIANTS ReadWhole HooksAreBound
PROPERTIES CopyIsOneMoment AssignsOneElement AccessesEnd
CHECK_DEADLOCK FALSE
