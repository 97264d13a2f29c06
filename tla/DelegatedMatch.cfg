SPECIFICATION DelegationSpec
CONSTANTS
  Bids = {"bob", "bea"}
  Asks = {"ann"}
  Chunks = 2
  MaxUpdates = 2
  TestHarness = FALSE
PROPERTY DelegatedOrdersMatch
