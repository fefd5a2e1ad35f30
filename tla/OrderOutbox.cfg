SPECIFICATION FairSpec
CONSTANTS
  Rows <- MCRows
  Transactions <- MCTransactions
  Workers = {w1, w2}
  NoWorker = NoWorker
  MaxAttempts = 2
  BatchSize = 2
INVARIANT OutboxInv
PROPERTIES SettledIsFinal ImplementsContract EverySettles
CHECK_DEADLOCK FALSE
