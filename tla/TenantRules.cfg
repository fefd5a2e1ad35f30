SPECIFICATION Spec
CONSTANTS
  Readers = {"s-orders", "s-ticks", "s-risk", "n-created", "n-ack", "a-created", "a-risk"}
  Partitions = {"s-orders", "s-ticks", "s-risk", "n-created", "n-ack", "a-created", "a-risk"}
  ReaderOf <- MCReaderOf
  SurveillanceReaders = {"s-orders", "s-ticks", "s-risk"}
  NotificationReaders = {"n-created", "n-ack"}
  AuditReaders = {"a-created", "a-risk"}
  Subscribed <- MCSubscribed
  MaxRetries = 1
  AsyncCommit = TRUE
  Nothing = Nothing
  Users = {"ann", "bob"}
  NoOne = NoOne
  Tenants = {"default-tenant", "acme"}
  DefaultTenant = "default-tenant"
  Rules <- MCRules
  Managers = {m1, m2}
  Analysts = {a1}
  Fallback <- MCFallback
  Requests <- MCRequests
  Keep = Keep
  Absent = Absent
  Symbols = {"BTC"}
  MaxPosts = 1
  FirstPrefs <- MCFirstPrefs
  Keyless = {"risk.score.updated"}
  PrefRequests <- MCPrefRequests
  Plans <- MCPlans
PROPERTY TenantRulesAreStored
CHECK_DEADLOCK FALSE
