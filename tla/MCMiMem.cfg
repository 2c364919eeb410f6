CONSTANTS
  HeapSize = 31
  Meta = 2
  Alignment = 2
  Request <- MCRequest
SPECIFICATION Spec
INVARIANTS IInv Disjoint ComesBack Counted FailsOnlyIfFull
