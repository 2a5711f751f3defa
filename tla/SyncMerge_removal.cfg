SPECIFICATION MergeSpec
CONSTANTS
  fa = fa
  fb = fb
  Fields = {fa, fb}
  Values = {1, 2}
  Numbers = {1, 2}
  Orders <- SomeOrders
  MaxConflictOrder = 2
  Absent = Absent
  None = None
CHECK_DEADLOCK FALSE
INVARIANT ClientOnlyChangesReplace
