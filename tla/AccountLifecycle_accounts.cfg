SPECIFICATION Spec
CONSTANTS
  Subjects = {s1, s2}
  Devices = {d1, d2}
  DeviceSubject <- OneDeviceEach
  Accounts = {a1, a2}
  LegacyAccount <- Migrated
  Environments = {production}
  Requests = {q1, q2}
  Crons = {}
  NoAccount = NoAccount
  NoSubject = NoSubject
  NoDevice = NoDevice
  NoEnvironment = NoEnvironment
  s1 = s1
  s2 = s2
  d1 = d1
  d2 = d2
  a1 = a1
INVARIANT DataFenced
INVARIANT CustomersErased
INVARIANT OneLiveAccount
INVARIANT SessionsBelong
PROPERTY ImplementsRegistry
SYMMETRY Interchangeable
