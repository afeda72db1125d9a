\* Two application threads, up to three workers at once, two names for heartbeat
\* threads; no symmetry, as liveness is checked.
CONSTANTS
  h1 = h1
  h2 = h2
  b1 = b1
  b2 = b2
  Hosts = {h1, h2}
  Beats = {b1, b2}
  NoBeat = NoBeat
  MaxEpoch = 5
  HeartbeatOn = TRUE
SPECIFICATION LiveSpec
INVARIANTS
  OnlyLateOnesOutlive
PROPERTIES
  Refines
  StopIsHeeded
  DestructorReturns
