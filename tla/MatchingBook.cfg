SPECIFICATION BookSpec
CONSTANTS
  Makers <- MCMakers
  Limits <- MCLimits
  Quantities <- MCQuantities
  Demands <- MCDemands
INVARIANTS PriceTimePriority FillOrKill RestsUncrossed
CHECK_DEADLOCK FALSE
