SPECIFICATION Spec
CONSTANTS
  p1 = p1
  p2 = p2
  a1 = a1
  a2 = a2
  app1 = app1
  app2 = app2
  user1 = user1
  user2 = user2
  c1 = c1
  c2 = c2
  t1 = t1
  t2 = t2
  t3 = t3
  People = {p1, p2}
  Calls = {c1, c2}
  MaxGeneration = 3
  NoOne = NoOne
  Accounts = {a1, a2}
  Edits = {e1}
  MaxPages = 1
  MaxTurns = 4
  NoAccount = NoAccount
  Tasks = {t1, t2, t3}
  MaxManagers = 2
  NoTask = NoTask
  Subjects = {user1, user2}
  Resources = {sync, files}
  TokenResource = sync
  Askers = {q1, q2}
  RefreshGrants = TRUE
  Nobody = Nobody
  AppAccounts = {app1, app2}
  MaxSwitches = 4
  Anonymous = Anonymous
INVARIANT DeviceTypeOK
INVARIANT LateOpensDropped
INVARIANT NotRevived
INVARIANT ErasedStaysEmpty
INVARIANT TokensFitTheirResource
INVARIANT AccountsStayApart
INVARIANT BusyHasWork
SYMMETRY Interchangeable
CHECK_DEADLOCK FALSE
