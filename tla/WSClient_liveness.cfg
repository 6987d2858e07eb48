SPECIFICATION FairSpec
CONSTANTS
  Users = {"u1"}
  MaxGen = 1
  MaxSends = 0
  MaxTicks = 1
  SendCap = 3
  Reconnect = TRUE
  MaxReconnect = 0
  TextHeartbeat = TRUE
PROPERTIES
  CancelStopsRun
  NoGoroutineLeak
  DeadConnectionNoticed
