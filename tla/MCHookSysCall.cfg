\* Two coroutines; descriptors made with the hooks are used with them.
SPECIFICATION Spec
CONSTANTS
  co1 = co1
  co2 = co2
  fd1 = fd1
  Co <- MCCo
  Fd <- OneFd
  NULL = NULL
  MaxBytes = 2
  Timeouts = {1000, 2000}
  OneSecond = 1000
  MixedHooks = FALSE
INVARIANTS
  HookInv
  ThreadsRun
  CallsReport
PROPERTIES
  EveryCallReturns
