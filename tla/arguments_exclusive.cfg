SPECIFICATION Spec
CONSTANTS
  Base = 6
  Width = 3
  Dash = 1
  LetterH = 2
  Digits = {5}
  Alphas = {2, 3, 4}
  Tables <- TheTables
  Handler <- Handlers4
  Calls <- FewCalls
INVARIANTS DocExclusive
CHECK_DEADLOCK FALSE
