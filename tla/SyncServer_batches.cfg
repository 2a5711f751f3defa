SPECIFICATION FairSpec
CONSTANTS
  Owners = {o1}
  Records = {r1}
  Mutations = {m1, m2}
  MutationOwner <- OneOwner
  Workers = {w1, w2}
  MaxBatch = 2
  MaxAttempts = 1
  Fields = {}
  Values = {}
  Numbers = {}
  Orders = {}
  MaxConflictOrder = 8
  Absent = Absent
  None = None
  o1 = o1
INVARIANT TruthfulAcks
PROPERTY EveryMutationAcknowledged
