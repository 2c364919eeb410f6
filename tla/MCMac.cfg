SPECIFICATION Spec
CONSTANTS
  Null = Null
  Buffer = {b1, b2}
  BankSize = 2
  QueuedMax = 3
  HeardMax = 3
INVARIANTS
  QueueIsFifo
  ConfirmIsOwn
  HeardInOrder
  OnlyOverrunLost
PROPERTY
  EveryFrameConfirmed
