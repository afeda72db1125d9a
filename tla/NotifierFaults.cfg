\* An allocation inside notify_() may throw.
CONSTANTS
  t1 = t1
  t2 = t2
  l1 = l1
  l2 = l2
  licensed = licensed
  trial = trial
  invalid = invalid
  Threads = {t1, t2}
  Pollers = {}
  Listeners = {l1, l2}
  States = {licensed, trial, invalid}
  Invalid = invalid
  MaxDepth = 1
  MaxChanges = 3
  OutOfMemory = TRUE
  Nobody = Nobody
SPECIFICATION Spec
INVARIANTS
  OneBaton
  DedupeIsPublished
  ListenersNeverBackwards
SYMMETRY Symmetry
