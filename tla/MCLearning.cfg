SPECIFICATION FairSpec
CONSTANTS
  FeelLimit = 1
  LookBack = 3
  NapMax = 1
  NightMax = 2
  Gaps = {1}
  MaxTurns = 2
  MaxGenerations = 1
  MaxMishaps = 1
INVARIANTS
  NothingForgotten
  ComparedIsMerged
PROPERTIES
  DayIsPractised
