SPECIFICATION FairSpec
CONSTANTS
  r1 = r1
  r2 = r2
  FirstAssignment <- MCFirstAssignment
  Readers = {r1, r2}
  Publishers = {r1, r2}
  Partitions = {"p1", "p2"}
  Messages <- MCMessages
  MaxRetries = 1
  AsyncCommit = FALSE
  Nothing = Nothing
  MaxAttempts = 1
  BatchSize = 1
  Users = {"ann", "bob"}
  Body <- MCBody
  Feed <- MCFeed
  InitialCash = 10
  One = 2
  TenthDecimal = 1
  EighthDecimal = 2
  InitialHoldings <- MCInitialHoldings
  MaxFaults = 1
INVARIANTS PortfolioInv BooksBalance LastToldPlusSales PassedIsAccountedFor
PROPERTIES ImplementsLedger EveryTradeSettles EveryUpdateLeaves
CHECK_DEADLOCK FALSE
