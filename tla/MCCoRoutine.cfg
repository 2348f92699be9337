\* Programs that never take the occupant of a stack from under a coroutine
\* that is saved from it.
SPECIFICATION Spec
CONSTANTS
  a = a
  b = b
  p = p
  Co <- MCCo
  Private <- MCPrivate
  Main = Main
  Val = {0, 1}
  Junk = Junk
  NULL = NULL
  Depth = 2
  Count = 1
  AllocSpan = 2
  CallStackSize = 3
  OccupantMayGo = FALSE
INVARIANTS
  IInv
PROPERTIES
  OnlyOwnerWrites
  ImplementsCoroutines
SYMMETRY Symmetry
