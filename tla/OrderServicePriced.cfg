SPECIFICATION Spec
CONSTANTS
  Requests <- MCRequests
  Keys = {"k1", "k2", "k3"}
  Bodies <- MCBodies
  Amenders = {a1}
  Changes <- MCChanges
  Cancellers = {c1}
  RiskEnabled = TRUE
  FailOpen = TRUE
  ExpiryBatch = 2
  TenthDecimal = 2
  NoBody = NoBody
  NoCall = NoCall
  Over = Over
INVARIANT LimitOrdersPriced
CHECK_DEADLOCK FALSE
