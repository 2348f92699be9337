\* Three coroutines, a wheel of three slots, polls beyond its span, and a
\* clock that is set back once.
SPECIFICATION Spec
CONSTANTS
  a = a
  b = b
  c = c
  f = f
  Co <- ThreeCo
  Fd <- OneFd
  Main = Main
  NULL = NULL
  CondTimeouts = {0, 1}
  PollTimeouts = {4}
  MaxNow = 5
  ClockBacks = 1
  LongCondWaits = FALSE
  SharedFds = FALSE
  iItemSize = 3
  IntSpan = 64
INVARIANTS
  LoopInv
  NoSignalLost
PROPERTIES
  WokenForAReason
  EventReachesPoll
