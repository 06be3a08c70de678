SPECIFICATION FairSpec
CONSTANTS
  Procs = {p1, p2}
  Shells = {p1}
  Files = {f1, f2}
  NoFile = NoFile
  Ofds = {d1, d2}
  NoOfd = NoOfd
  NoProc = NoProc
  Keys = {k1, k2}
  NoKey = NoKey
  Does = {"seed", "put", "drop", "get"}
  Habits = {"mortal", "rm"}
  MaxOps = 3
INVARIANTS Exclusion
PROPERTIES ImplementsAbstractStore OperationsEnd
CHECK_DEADLOCK FALSE
