SPECIFICATION Spec
CONSTANTS
  NumUsers = 2
  Amounts = {120}
  FillPrices = {200}
  Marks = {100, 190, 220}
  Sizes = {1}
  Leverages = {500}
  Intervals = {1}
  MaxPositions = 4
  MaxVault = 240
  MaxFundingIdx = 2000
INVARIANTS TypeOK LockedIsMargin OpenInterestIsOpenSize VaultIsAccountedFor
PROPERTIES LiquidationChargesAtMostCollateral DepositsFallForOwnReasons OnlyUnderwaterCloseUncoversMargin
