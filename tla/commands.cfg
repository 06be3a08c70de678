SPECIFICATION Spec
CONSTANTS
  Term = Term
  Files = {f1, f2}
  Kids = {k1}
  Sigs = {s1}
  NoTrap = NoTrap
  Habits = {"jump", "readonly"}
  MaxPrints = 2
  MaxCalls = 3
  MaxEvents = 2
  MaxDepth = 3
SYMMETRY Symmetry
INVARIANTS OutputInPlace CapturedWhole DocsRestored BashRestored SigRunUnblocks
CHECK_DEADLOCK FALSE
