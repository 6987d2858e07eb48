SPECIFICATION OrderSpec
CONSTANTS
  Decimals = {1}
  Sizes = {21}
  Margin = 0
  BookPrices = {30}
  BookSizes = {7}
  MaxLevels = 1
INVARIANTS FeesDeducted ExactFillTaken
CHECK_DEADLOCK FALSE
