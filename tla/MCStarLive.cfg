CONSTANTS
  c1 = c1
  c2 = c2
  e1 = e1
  e2 = e2
  Device = {c1, e1}
  NoDevice = NoDevice
  ConnectionSize = 2
  Short <- MCOwnShort
  Permanent = {}
  Coordinator = {c1}
  SameTwo <- MCOwnShort
  RetryTimes = 2
  RetryModulus = 4
  FailureMax = 0
  Bank <- MCOneBank
  Reenters = FALSE
  Timely = TRUE
  MemoryFails = FALSE
  AttemptMax = 1
  RemovalMax = 1
  ResetMax = 0
  AliveMax = 1
SPECIFICATION FairSpec
PROPERTIES ProcedureEnds OrphanLearns
CHECK_DEADLOCK FALSE
