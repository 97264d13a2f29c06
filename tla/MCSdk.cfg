SPECIFICATION FairSdkSpec
CONSTANTS
  Calls = {1, 2}
  MaxAttempts = 2
  MaxSends <- MCMaxSends
  MaxOthers = 1
  MaxOrders = 2
  MaxFailures = 1
  MaxReconnects = 3
  Sockets = {1, 2, 3, 4, 5}
INVARIANTS SdkTypeOK OpeningsAccountedFor IdsNeverBehind GivesUpOnlyWhenAllFailed
PROPERTIES CallsEnd ClosingCancels NothingStartsOnceClosed Recovers
CHECK_DEADLOCK FALSE
