CONSTANTS
  c1 = c1
  c2 = c2
  e1 = e1
  e2 = e2
  Device = {c1, e1, e2}
  NoDevice = NoDevice
  ConnectionSize = 2
  Short <- MCOwnShort
  Permanent = {}
  Coordinator = {c1}
  SameTwo <- MCOwnShort
  RetryTimes = 1
  RetryModulus = 4
  FailureMax = 0
  Bank <- MCOneBank
  Reenters = FALSE
  Timely = TRUE
  MemoryFails = FALSE
  AttemptMax = 1
  RemovalMax = 0
  ResetMax = 0
  AliveMax = 0
SPECIFICATION Spec
SYMMETRY MCEndDevices
INVARIANT IndexAgrees
CHECK_DEADLOCK FALSE
