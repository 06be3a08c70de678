SPECIFICATION FairSpec
CONSTANTS
  Procs = {p1, p2, p3}
  NoProc = NoProc
  Count = 2
  Requests = {"block", "timed", "poll", "reset"}
  Killable = {p1, p2}
  MaxCalls = 2
INVARIANTS SatisfiedIffFull EachCallCountsOnce
PROPERTIES OpenReleasesAll GuardReturned ImplementsAbstractBarrier
CHECK_DEADLOCK FALSE
