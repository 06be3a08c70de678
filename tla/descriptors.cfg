SPECIFICATION Spec
CONSTANTS
  Procs = {sh, kid}
  Shell = sh
  Descs = {d1, d2, d3}
  Std = Std
  Null = Null
  NoDesc = NoDesc
  Lib = Lib
  FdMin = 4
  MaxFd = 5
  MaxOps = 4
SYMMETRY Symmetry
INVARIANTS ToldHolds OpenIsTold ProgramsGetNoMore
CHECK_DEADLOCK FALSE
