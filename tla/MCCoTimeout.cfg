\* Timeouts within and beyond the span of the wheel; the clock jumps
\* anywhere, and an int holds every difference.
SPECIFICATION Spec
CONSTANTS
  a = a
  b = b
  Timer <- MCTimer
  Clock = {1, 2, 3, 4, 5, 6}
  Timeouts = {1, 2, 3, 4}
  None = None
  iItemSize = 3
  IntSpan = 64
INVARIANTS
  IInv
  NeverEarly
  NoOverdue
PROPERTIES
  ImplementsTimerSet
SYMMETRY Symmetry
