CONSTANTS
  c = c
  e1 = e1
  e2 = e2
  Device = {c, e1, e2}
  Coordinator = c
  Member = {e1, e2}
  Message <- MCMessages
  Buffer = {1, 2}
  Bank <- MCBank
  SwAckTimeout = 1
  MemoryFails = FALSE
SPECIFICATION MCFairSpec
INVARIANTS BuffersOwned HeadsMatch
PROPERTIES ServiceSpec AllConfirmed
CHECK_DEADLOCK FALSE
