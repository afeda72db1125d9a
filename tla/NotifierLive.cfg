\* t2 is the auto-validation worker, t1 the application; one level of re-entrancy,
\* three changes; no symmetry, as liveness is checked.
CONSTANTS
  t1 = t1
  t2 = t2
  l1 = l1
  l2 = l2
  licensed = licensed
  trial = trial
  invalid = invalid
  Threads = {t1, t2}
  Pollers = {t2}
  Listeners = {l1, l2}
  States = {licensed, invalid}
  Invalid = invalid
  MaxDepth = 1
  MaxChanges = 3
  OutOfMemory = FALSE
  Nobody = Nobody
SPECIFICATION LiveSpec
INVARIANTS
  NothingStranded
  DedupeIsCurrent
  ListenersInOrder
  SubscribersAgree
PROPERTIES
  RefinesFairly
  ClockIsReported
  EventuallyAgree
