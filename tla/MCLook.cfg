SPECIFICATION LookSpec
CONSTANTS
  Stats = 3
  Offered = {"all", "failed"}
  Stride = 5
  Rows = 3
  MaxRuns = 2
  MaxAsks = 4
  MaxKeys = 2
  MaxNews = 1
  Heights = {2, 3, 4}
INVARIANTS
  StepsAreItsOwn
CHECK_DEADLOCK FALSE
