SPECIFICATION Spec
CONSTANTS
  NumUsers = 3
  Amounts = {20, 120}
  FillPrices = {200}
  Marks = {100, 190, 220, 400}
  Sizes = {0, 1}
  Leverages = {500, 1000}
  Intervals = {1, 2}
  MaxPositions = 2
  MaxVault = 240
  MaxFundingIdx = 4000
INVARIANT UnderwaterIsLiquidatable
