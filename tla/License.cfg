\* A working store, crashes inside calls, the clock set back once.
CONSTANTS
  Skew = 1
  RefreshDebounce = 1
  ClockTolerance = 2
  RefreshStale = 3
  NearExpiry = 4
  Day = 4
  MaxOfflineDays = 1
  TrialDays = 1
  FreeTierEnabled = FALSE
  Offers <- EachOffer
  ServerSettings <- OneSetting
  SaveFails = FALSE
  LoadFails = FALSE
  MaxTime = 6
  MaxSetBacks = 1
  None = None
  Forged = Forged
SPECIFICATION Spec
INVARIANTS
  AnswersAgree
  PaidNeedsKey
  LicensedIsGranted
  StoreIsCurrent
  KeylessIsCurrent
PROPERTIES
  BlobsRead
  LeasesVerify
  ReportsAddUp
