SPECIFICATION Spec
CONSTANTS
  Workers = {w1, w2}
  Bases = {btc, eth}
  MonitorTypes = {"ALL", "BINANCE", "CHAINLINK", "CHAINLINK_TWAP"}
  Markets <- MCMarkets
  EndDates <- MCEndDates
  Month = 30
  PriceCap = 2
  MaxUpdates = 3
INVARIANTS StalePriceOnlyIfRaced TwapAsRequested PeriodMatchesVariant
SYMMETRY MCSymmetry
CHECK_DEADLOCK FALSE
