\* The host calls from the message thread only, as the header asks.
SPECIFICATION FairSpec
CONSTANTS
  States = {"Licensed", "Trial"}
  Keyless = {"Trial"}
  HostThread = FALSE
  MaxEvents = 2
  MaxCalls = 2
INVARIANTS NoLateUse
PROPERTIES Refines DispatchReturns DestructorReturns
CHECK_DEADLOCK FALSE
