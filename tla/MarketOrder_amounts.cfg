SPECIFICATION OrderSpec
CONSTANTS
  Decimals = {1, 2, 3}
  Sizes = {0, 1, 5, 9, 10, 11, 15, 19, 21, 25, 333, 600, 670, 999}
  Margin = 490
  BookPrices = {5, 10, 30, 35, 70, 90}
  BookSizes = {0, 7, 60}
  MaxLevels = 3
INVARIANTS SizeAsAsked AmountsMeanPrice BestSufficientPrice MarketOrderFills
CHECK_DEADLOCK FALSE
