SPECIFICATION ClientFairSpec
CONSTANTS
  Callers = {c1, c2}
  PriceOne = 10
  Ticks = {1, 2}
  OddTicks = {3}
  Managed = {"tick"}
  Prices = {5}
  MaxCalls = 3
  MaxMoves = 1
INVARIANTS TickSizeIsReal TickSizeIsCurrent
PROPERTIES CallsEnd
CHECK_DEADLOCK FALSE
