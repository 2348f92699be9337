\* Three coroutines: two can keep the loop busy while the third waits.
SPECIFICATION Spec
CONSTANTS
  a = a
  b = b
  c = c
  f = f
  Co <- ThreeCo
  Fd <- OneFd
  Main = Main
  NULL = NULL
  CondTimeouts = {0, 1}
  PollTimeouts = {2}
  MaxNow = 3
  ClockBacks = 0
  LongCondWaits = FALSE
  SharedFds = FALSE
  iItemSize = 2
  IntSpan = 64
PROPERTIES
  SignalledRuns
  DueRuns
