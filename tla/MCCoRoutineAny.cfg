\* Programs that call co_release and co_reset whenever the object is idle.
SPECIFICATION Spec
CONSTANTS
  a = a
  b = b
  p = p
  Co <- MCCo
  Private <- MCPrivate
  Main = Main
  Val = {0, 1}
  Junk = Junk
  NULL = NULL
  Depth = 2
  Count = 1
  AllocSpan = 2
  CallStackSize = 3
  OccupantMayGo = TRUE
PROPERTIES
  OnlyOwnerWrites
SYMMETRY Symmetry
