\* Five coroutines: one holds the lock while four may wait.
SPECIFICATION Spec
CONSTANTS
  a = a
  b = b
  c = c
  d = d
  e = e
  Co <- MCCo
INVARIANTS
  IInv
  MutualExclusion
PROPERTIES
  EveryLockReturns
  ImplementsFifoLock
