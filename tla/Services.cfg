SPECIFICATION Spec
CONSTANTS
  c1 = c1
  c2 = c2
  Customers = {c1, c2}
  Home <- BothInProduction
  Contexts <- SandboxFirst
  Callers = {r1, r2}
  MaxChanges = 1
  MaxClock = 1
  NoSnapshot = NoSnapshot
  free = free
  pro = pro
  max = max
  gold = gold
  i1 = i1
  i2 = i2
  e1 = e1
  Editors = {e1, e2}
  Proposals <- SomeCatalogs
  Declared = TRUE
  Initial = Undefined
  MaxRevision = 2
  Undefined = Undefined
  Entitlements = {gold}
  Items = {i1, i2}
  Requests = {q1, q2}
  Monthly = TRUE
  MaxMonth = 1
  w1 = w1
  w2 = w2
  k1 = k1
  k2 = k2
  Users = {u1}
  Slots = {1, 2}
  Writers = {w1, w2}
  Rotators = {k1, k2}
  BatchLimit = 1
  MaxVersion = 3
  NoKey = NoKey
  Browsers = {b1}
  Attempts = {a1, a2}
  Callbacks = {l1, l2}
  AttemptLife = 2
  SessionLife = 2
  EndOfTime = 3
  Nothing = Nothing
  Tabs = {t1, t2}
  MaxTokens = 4
  NoLogin = NoLogin
  fa = fa
  fb = fb
  Fields = {fa, fb}
  Values = {1, 2}
  Numbers = {1, 2}
  Orders <- SomeOrders
  MaxConflictOrder = 2
  Absent = Absent
  None = None
INVARIANT ServicesTypeOK
INVARIANT EventsReflected
PROPERTY SnapshotsAdvance
PROPERTY CatalogHistory
INVARIANT LimitKept
INVARIANT StoredOpens
INVARIANT AttemptUsedOnce
INVARIANT RefreshTokenUsedOnce
INVARIANT SignedOutStaysOut
INVARIANT BothSidesSurvive
INVARIANT ConflictOrderIgnoresArrival
SYMMETRY Interchangeable
CHECK_DEADLOCK FALSE
