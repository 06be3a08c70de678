SPECIFICATION Spec
CONSTANTS
  Procs = {p1, p2}
  First = p1
  Objs = {o1, o2}
  Names = {n1}
  NoName = NoName
  NoEntry = NoEntry
  NoObj = NoObj
  MaxHandle = 2
  Counts = {0, 1}
  SemMax = 2
  MaxPosts = 2
SYMMETRY Symmetry
INVARIANTS MappingsHaveHandles UnitsConserved
CHECK_DEADLOCK FALSE
