SPECIFICATION FairSessionSpec
CHECK_DEADLOCK FALSE
CONSTANTS
  r1 = r1
  r2 = r2
  Requests = {r1, r2}
  Playground = {r2}
  WalletOpening = 2
  TokenOpening = 2
  TrustQuota = 0
  Quotas = {0, 2}
  Actuals = {1}
  NSubs = 1
  PlanTotal <- PlansOfTwo
  Amounts = {1, 2}
  Deltas = {}
  MaxTotal = 2
  MaxUsed = 3
  MaxAttempts = 2
  MaxResets = 1
  MaxConns = 3
  SQLite = FALSE
  DBMayFail = FALSE
  CommitMayFail = FALSE
INVARIANT
  SubscriptionReconciles

  
  
