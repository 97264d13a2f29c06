SPECIFICATION RunSpec
CONSTANTS
  Users = {"alice", "bob"}
  Runs = {1, 2}
  Formats <- OneOfEach
  JitoAccepts = TRUE
  Unreliable = TRUE
  MaxFills = 2
  MaxPending = 1
  MaxCopies = 2
INVARIANTS TypeOK OnePositionPerFill
 
