SPECIFICATION Spec
CONSTANTS
  Procs = {p1, p2, p3, p4}
  Shells = {p1}
  Objs = {o1}
  Names = {"n"}
  MaxHandle = 1
  NoName = NoName
  NoEntry = NoEntry
  NoProc = NoProc
  NoObj = NoObj
  Habits = {"recreate", "early", "close_held"}
INVARIANTS SleepersWoken
CHECK_DEADLOCK FALSE
