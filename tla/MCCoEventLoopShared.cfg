\* Two coroutines poll the same descriptor.
SPECIFICATION Spec
CONSTANTS
  a = a
  b = b
  c = c
  f = f
  Co <- TwoCo
  Fd <- OneFd
  Main = Main
  NULL = NULL
  CondTimeouts = {0}
  PollTimeouts = {1, 3}
  MaxNow = 4
  ClockBacks = 0
  LongCondWaits = FALSE
  SharedFds = TRUE
  iItemSize = 2
  IntSpan = 64
PROPERTIES
  EventReachesPoll
