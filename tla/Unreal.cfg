\* Two calls, two Clients; a server that fails and one that answers.
SPECIFICATION Spec
CONSTANTS
  MaxAttempts = 3
  BaseMs = 500
  CapMs = 4000
  MaxSleepMs = 40000
  SecMs = 1000
  UintMax = 944
  NoValue = NoValue
  Headers <- MCHeaders
  Answers <- MCAnswers
  Hosts <- MCHosts
  Ports <- MCPorts
  MaxCalls = 2
  MaxClients = 2
  Statuses = {200, 503}
INVARIANTS NoDanglingClient RequestPolicy
PROPERTIES EveryCallEnds 
CHECK_DEADLOCK FALSE
