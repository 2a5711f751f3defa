SPECIFICATION Spec
CONSTANTS
  Owners = {o1}
  Records = {r1}
  Mutations = {m1, m2, m3}
  MutationOwner <- OneOwner
  Devices = {d1, d2}
  DeviceOwner <- OneAccount
  MutationDevice <- MostlySecond
  PageSize = 1
  BatchSize = 1
  Fields = {}
  Values = {}
  Numbers = {}
  Orders = {}
  MaxConflictOrder = 8
  Absent = Absent
  None = None
  o1 = o1
  d1 = d1
  d2 = d2
  m1 = m1
  m2 = m2
PROPERTY BaseIsProjected
