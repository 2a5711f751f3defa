SPECIFICATION SessionSpec
CONSTANTS
  People = {p1, p2}
  Calls = {c1, c2}
  MaxGeneration = 1
  NoOne = NoOne
INVARIANT SignedOutKeepsNoBinding
CHECK_DEADLOCK FALSE
