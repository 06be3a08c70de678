SPECIFICATION WaitsFairSpec
CONSTANTS
  e1 = e1
  t = t
  Descs = {e1, e2, t}
  Timer = t
  Fds = {1, 2}
  NoDesc = NoDesc
  Watched = {{1}, {1, 2}}
  First <- Two
  MaxEv = 1
  MaxCount = 1
  Times = {0, 2}
  Values = {0, 1}
  MaxOps = 4
  MaxKid = 1
  MaxSignals = 1
  MaxTicks = 3
INVARIANTS DrainComplete WaitTimes
PROPERTIES ReportsAreCurrent DrainEnds
CHECK_DEADLOCK FALSE
