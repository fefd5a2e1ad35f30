SPECIFICATION StopFairSpec
CONSTANTS
  Requests <- MCRequests
  Keys = {"k1", "k2", "k3", "k4"}
  Bodies <- MCBodies
  Amenders = {}
  Changes <- NoChanges
  Cancellers = {}
  RiskEnabled = FALSE
  FailOpen = FALSE
  ExpiryBatch = 2
  TenthDecimal = 1
  NoBody = NoBody
  NoCall = NoCall
  Over = Over
  Prices <- MCPrices
  TriggerBatch = 1
PROPERTY EveryDueStopTriggers
CHECK_DEADLOCK FALSE
