SPECIFICATION UndisturbedSpec
CONSTANTS
  Accounts = {a1, a2}
  Edits = {e1}
  MaxPages = 1
  MaxTurns = 2
  NoAccount = NoAccount
INVARIANT SwitchesStartEmpty
CHECK_DEADLOCK FALSE
