SPECIFICATION MCSpec
CONSTANTS
  NumUsers = 3
  Amounts = {}
  FillPrices = {200}
  Marks = {189, 130}
  Sizes = {1}
  Leverages = {400}
  Intervals = {1}
  MaxPositions = 4
  MaxVault = 200
  MaxFundingIdx = 1000
  Quotes <- MCQuotes
  Runs = {1, 2}
  BatchSize = 2
  MaxFailures = 1
PROPERTY AllRuinedAreLiquidated
