SPECIFICATION LiveSpec
CONSTANTS
  o1 = o1
  o2 = o2
  r1 = r1
  m1 = m1
  m2 = m2
  fa = fa
  d1 = d1
  d2 = d2
  s1 = s1
  a1 = a1
  a2 = a2
  production = production
  sandbox = sandbox
  q1 = q1
  cron = cron
  NoAccount = NoAccount
  NoSubject = NoSubject
  NoDevice = NoDevice
  NoEnvironment = NoEnvironment
  Owners = {o1, o2}
  Records = {r1, r2}
  Mutations = {m1, m2, m3}
  MutationOwner <- TwoOwners
  Readers = {c1}
  ReaderOwner <- ReadersOfOne
  PageSize = 1
  Fields = {fa}
  Values = {1}
  Numbers = {}
  Orders = {}
  MaxConflictOrder = 8
  Absent = Absent
  None = None
INVARIANT LivenessTypeOK
INVARIANT CheckpointCoversReplica
INVARIANT ScheduledIsPending
PROPERTY NoPrematureEnd
PROPERTY WorkSettles
CHECK_DEADLOCK FALSE
