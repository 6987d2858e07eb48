SPECIFICATION Spec
CONSTANTS
  Users = {}
  MaxGen = 1
  MaxSends = 0
  MaxTicks = 0
  SendCap = 1
  Reconnect = TRUE
  MaxReconnect = 0
  TextHeartbeat = FALSE
INVARIANT NoCrash
