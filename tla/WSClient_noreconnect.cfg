SPECIFICATION Spec
CONSTANTS
  Users = {}
  MaxGen = 2
  MaxSends = 0
  MaxTicks = 0
  SendCap = 1
  Reconnect = FALSE
  MaxReconnect = 0
  TextHeartbeat = FALSE
PROPERTY NoRedialAfterError
