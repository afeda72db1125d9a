\* A validate() in flight while deactivate() runs; a store that works.
SPECIFICATION Spec
CONSTANTS
  Threads = {t1, t2}
  Ids = {i1, i2}
  StoreFails <- NeverFails
  MaxRev = 1
  MaxCalls = 2
  None = None
INVARIANT NothingPaidLeft
CHECK_DEADLOCK FALSE
