SPECIFICATION IOSpec
CONSTANTS
  Forks = {p1, p2}
  Room = 1
  Amount = 2
  MaxCalls = 4
  MaxSignals = 1
  MaxKills = 1
  MaxPeer = 2
SYMMETRY Symmetry
INVARIANTS FlagRestored NoWaitWaitsNot WriteCounts
PROPERTIES PlainAgain
CHECK_DEADLOCK FALSE
