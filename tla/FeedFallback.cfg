SPECIFICATION FeedSpec
CONSTANTS
  MaxReconnects = 3
  Sockets = {1, 2, 3, 4, 5}
INVARIANTS FallsBackToHermes
CHECK_DEADLOCK FALSE
