\* A listener that starts the worker again while ~Client() waits for it.
CONSTANTS
  h1 = h1
  h2 = h2
  b1 = b1
  b2 = b2
  Hosts = {h1}
  Beats = {b1}
  NoBeat = NoBeat
  MaxEpoch = 3
  HeartbeatOn = FALSE
SPECIFICATION Spec
INVARIANTS
  NeverTerminates
