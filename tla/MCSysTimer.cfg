CONSTANTS
  a = a
  b = b
  p = p
  Timer = {a, b, p}
  NoTimer = NoTimer
  Periodic = {p}
  Interval <- MCInterval
  Tick = 2
  PendingMax = 2
  SleepMax = 1
SPECIFICATION Spec
INVARIANTS NeverEarly NeverLate
PROPERTY DeadlineSpec
CHECK_DEADLOCK FALSE
