\* A store whose reads and writes may fail.
CONSTANTS
  Skew = 1
  RefreshDebounce = 1
  ClockTolerance = 2
  RefreshStale = 2
  NearExpiry = 3
  Day = 3
  MaxOfflineDays = 1
  TrialDays = 1
  FreeTierEnabled = FALSE
  Offers <- ActiveOffers
  ServerSettings <- NoSettings
  SaveFails = TRUE
  LoadFails = TRUE
  MaxTime = 5
  MaxSetBacks = 0
  None = None
  Forged = Forged
SPECIFICATION Spec
PROPERTIES
  TrialStartKept
  OfflineBound
