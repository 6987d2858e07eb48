SPECIFICATION ClientSpec
CONSTANTS
  Callers = {c1, c2}
  PriceOne = 10
  Ticks = {1, 2}
  OddTicks = {3}
  Managed = {"tick", "fee", "neg"}
  Prices = {5, 9}
  MaxCalls = 3
  MaxMoves = 1
INVARIANT MapsUnderLock
CHECK_DEADLOCK FALSE
