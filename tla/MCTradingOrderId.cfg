SPECIFICATION TradingSpec
CONSTANTS
  Calls = {1, 2}
  MaxAttempts = 2
  MaxSends <- MCMaxSends
  MaxOthers = 1
  MaxOrders = 2
  MaxFailures = 1
INVARIANT OrderIdIsOwn
CHECK_DEADLOCK FALSE
