SPECIFICATION Spec
CONSTANTS
  Procs = {p1, p2, p3}
  Shells = {p1, p2}
  Objs = {o1, o2}
  Names = {"n"}
  MaxHandle = 2
  NoName = NoName
  NoEntry = NoEntry
  NoProc = NoProc
  NoObj = NoObj
  Habits = {}
SYMMETRY Symmetry
INVARIANTS MutualExclusion RobustMarked NoSelfDeadlock
PROPERTIES StaleHandlesStayStale UnlockAllReleasesAll ImplementsAbstractLock
CHECK_DEADLOCK FALSE
