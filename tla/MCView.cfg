SPECIFICATION FairSpec
CONSTANTS
  Kept = 4
  Page = 2
  Stride = 6
  NearlyTop = 1
  Past = 3
  MaxId = 9
  MaxInputs = 1
  MaxTwists = 1
INVARIANTS
  EndCorrectsItsOwn
  HistoryIsARun
PROPERTIES
  LoadingEnds
CHECK_DEADLOCK FALSE
