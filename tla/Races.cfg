SPECIFICATION Spec
CONSTANTS
  Threads = {t1, t2}
  Ids = {i1, i2}
  StoreFails <- MayFail
  MaxRev = 2
  MaxCalls = 2
  None = None
SYMMETRY ThreadSymmetry
INVARIANTS StoreSettles PaidNeedsKey NoEmptyDereference OneIdReported OneForced
CHECK_DEADLOCK FALSE
