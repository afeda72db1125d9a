\* The feature gate of an invalid state.
CONSTANTS
  Skew = 1
  RefreshDebounce = 1
  ClockTolerance = 2
  RefreshStale = 3
  NearExpiry = 4
  Day = 4
  MaxOfflineDays = 1
  TrialDays = 1
  FreeTierEnabled = FALSE
  Offers <- OneOffer
  ServerSettings <- NoSettings
  SaveFails = FALSE
  LoadFails = FALSE
  MaxTime = 6
  MaxSetBacks = 0
  None = None
  Forged = Forged
SPECIFICATION Spec
INVARIANTS
  GateAgrees
