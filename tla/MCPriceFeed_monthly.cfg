SPECIFICATION Spec
CONSTANTS
  Workers = {w1}
  Bases = {btc, eth}
  MonitorTypes = {"ALL", "BINANCE", "CHAINLINK", "CHAINLINK_TWAP"}
  Markets <- MCMarkets
  EndDates <- MCEndDates
  Month = 30
  PriceCap = 2
  MaxUpdates = 3
INVARIANT EveryPeriodMatches
CHECK_DEADLOCK FALSE
