CONSTANTS
  d1 = d1
  d2 = d2
  d3 = d3
  Device = {d1, d2, d3}
  NoDevice = NoDevice
  ConnectionSize = 2
  Short <- MCShort
  Permanent = {d1}
  AliveMax = 1
SYMMETRY MCOrdinary
SPECIFICATION Spec
INVARIANTS
  UsedIsPrefix
  OneEntryPerDevice
  NoStaleInFront
  SilentIsRemoved
  IInv
PROPERTIES
  HeardIsKept
  NoTakeover
  PermanentIsKept
