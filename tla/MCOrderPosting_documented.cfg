SPECIFICATION Spec
CONSTANTS
  o1 = o1 
  o2 = o2
  o3 = o3
  p1 = p1
  p2 = p2
  p3 = p3
  PageSizes = {1, 2}
  MaxFails = 1
  Callers = {g1, g2}
  Orders = {o1, o2, o3, p1, p2, p3}
  Standing <- MCStanding
  Batches <- MCBatches
  MarketOrders = {o1, o3}
  Configs <- MCConfigs
  Salt <- MCSalt
  Options <- MCOptions
  MaxCalls = 3
  MaxWalkCalls = 1
  MaxTrades = 1
INVARIANTS WalletFitsType ExpirationSent NoPanic
CHECK_DEADLOCK FALSE
