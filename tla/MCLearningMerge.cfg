SPECIFICATION Spec
CONSTANTS
  FeelLimit = 1
  LookBack = 3
  NapMax = 1
  NightMax = 2
  Gaps = {1}
  MaxTurns = 2
  MaxGenerations = 0
  MaxMishaps = 1
PROPERTIES
  MergedStays
