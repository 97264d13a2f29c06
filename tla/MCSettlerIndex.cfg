SPECIFICATION FairSpec
CONSTANTS
  Users = {"alice", "bob"}
  Runs = {1}
  Formats <- AllPlaintext
  JitoAccepts = FALSE
  Unreliable = FALSE
  MaxFills = 2
  MaxPending = 1
  MaxCopies = 1
PROPERTIES SettledOnceRead
