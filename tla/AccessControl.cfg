SPECIFICATION FairSpec
CONSTANTS
  c1 = c1
  c2 = c2
  s1 = s1
  g1 = g1
  g2 = g2
  k1 = k1
  k2 = k2
  NoKey = NoKey
  Sessions <- MCSessions
  Callers <- MCCallers
  Requests <- MCRequests
  Kids <- MCKids
  MaxKeys = 2
  MaxFaults = 1
INVARIANTS
  AccessInv
  RejectedForAReason
PROPERTY
  CacheCatchesUp
