SPECIFICATION Spec
CONSTANTS
  t1 = t1
  t2 = t2
  Traders = {t1, t2}
  Prices = {1, 2}
  SizeBands = {0}
  Sizes = {1}
  Leverages = {100}
  MaxLevels = 2
  OrdersPerLevel = 3
  MaxFills = 2
  FillsPerMatch = 2
  MaxOrderId = 4
  TestHarness = TRUE
SYMMETRY TraderSymmetry
INVARIANTS TypeOK BookSorted MatchDrainsBook
PROPERTIES PricePriority QueueOrderKept ImplementsOrderLifecycle
