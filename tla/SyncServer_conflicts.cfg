SPECIFICATION Spec
CONSTANTS
  Owners = {o1}
  Records = {r1}
  Mutations = {m1, m2, m3}
  MutationOwner <- OneOwner
  Workers = {w1, w2}
  MaxBatch = 1
  MaxAttempts = 2
  Fields = {a}
  Values = {1}
  Numbers = {}
  Orders = {}
  MaxConflictOrder = 8
  Absent = Absent
  None = None
  o1 = o1
INVARIANT TypeOK
INVARIANT ExactlyOnce
INVARIANT LinearHistory
INVARIANT MergedOntoPredecessor
INVARIANT TruthfulResults
PROPERTY LogSpec
SYMMETRY Interchangeable
