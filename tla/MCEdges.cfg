SPECIFICATION EdgesSpec
CONSTANTS
  Keys = {"SOLUSD", "BTC", "ETH"}
  Wallets = {"alice", "bob"}
  Requests = {1, 2, 3}
  MaxPool = 32
  MaxRestarts = 1
  Chats = {"chat1", "chat2"}
  Owners = {"alice", "bob"}
  Kinds = {"FillRecorded"}
  Forms = {"data", "structured"}
  Events = {1, 2}
  Bids = {"bob", "bea"}
  Asks = {"ann"}
  Chunks = 2
  MaxUpdates = 2
  TestHarness = TRUE
INVARIANTS DashTypeOK ServicesTypeOK OneSuccessPerWindow UnsubscribedForGood
PROPERTIES ShowsWhatIsSelected MarketOrdersAtOwnMark CommitsOnlyMatch PollsSettle
