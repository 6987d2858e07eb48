SPECIFICATION Spec
CONSTANTS
  Users = {"u1"}
  MaxGen = 2
  MaxSends = 1
  MaxTicks = 0
  SendCap = 1
  Reconnect = TRUE
  MaxReconnect = 1
  TextHeartbeat = TRUE
INVARIANTS
  NoLeakedSocket
  DownIsNotAlive
  GivesUpOnlyAfterRetries
  SubscriptionNotLost
