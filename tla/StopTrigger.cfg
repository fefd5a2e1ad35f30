SPECIFICATION StopFairSpec
CONSTANTS
  Requests <- MCRequests
  Keys = {"k1", "k2", "k3", "k4"}
  Bodies <- MCBodies
  Amenders = {}
  Changes <- NoChanges
  Cancellers = {c1}
  RiskEnabled = FALSE
  FailOpen = FALSE
  ExpiryBatch = 2
  TenthDecimal = 3
  NoBody = NoBody
  NoCall = NoCall
  Over = Over
  Prices <- MCPrices
  TriggerBatch = 2
INVARIANTS StopTypeOK FillsMatchExecutions TypesFollowTriggers
PROPERTIES OlderStopFirst DueStopsTrigger
CHECK_DEADLOCK FALSE
