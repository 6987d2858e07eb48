SPECIFICATION Spec
CONSTANTS
  Workers = {w1, w2}
  Bases = {btc}
  MonitorTypes = {"CHAINLINK_TWAP"}
  Markets <- MCMarkets
  EndDates <- MCEndDates
  Month = 30
  PriceCap = 2
  MaxUpdates = 3
INVARIANTS LatestPriceReturned
CHECK_DEADLOCK FALSE
