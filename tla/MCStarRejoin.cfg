CONSTANTS
  c1 = c1
  c2 = c2
  e1 = e1
  e2 = e2
  Device = {c1, e1}
  NoDevice = NoDevice
  ConnectionSize = 2
  Short <- MCOwnShort
  Permanent = {}
  Coordinator = {c1}
  SameTwo <- MCOwnShort
  RetryTimes = 2
  RetryModulus = 4
  FailureMax = 1
  Bank <- MCOneBank
  Reenters = FALSE
  Timely = TRUE
  MemoryFails = FALSE
  AttemptMax = 2
  RemovalMax = 0
  ResetMax = 1
  AliveMax = 1
SPECIFICATION Spec
INVARIANTS OneCarrier NoNullCallback RetriesBounded
PROPERTY MembershipSpec
CHECK_DEADLOCK FALSE
