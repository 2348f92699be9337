\* Coroutines with and without hooks use the same descriptor.
SPECIFICATION Spec
CONSTANTS
  co1 = co1
  co2 = co2
  fd1 = fd1
  Co <- MCCo
  Fd <- OneFd
  NULL = NULL
  MaxBytes = 2
  Timeouts = {1000, 2000}
  OneSecond = 1000
  MixedHooks = TRUE
INVARIANTS
  OnlyHookedWait
