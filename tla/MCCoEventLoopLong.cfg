\* Condition waits beyond the span of the wheel.
SPECIFICATION Spec
CONSTANTS
  a = a
  b = b
  c = c
  f = f
  Co <- TwoCo
  Fd <- OneFd
  Main = Main
  NULL = NULL
  CondTimeouts = {0, 3}
  PollTimeouts = {1}
  MaxNow = 4
  ClockBacks = 0
  LongCondWaits = TRUE
  SharedFds = FALSE
  iItemSize = 2
  IntSpan = 64
INVARIANTS
  NoSignalLost
