\* The clock moves further between two rounds than an int holds.
SPECIFICATION Spec
CONSTANTS
  a = a
  b = b
  Timer <- MCTimer
  Clock = {1, 2, 3, 4, 5, 6}
  Timeouts = {1, 2, 3, 4}
  None = None
  iItemSize = 3
  IntSpan = 8
INVARIANTS
  NoOverdue
SYMMETRY Symmetry
