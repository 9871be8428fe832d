SPECIFICATION FairSpec
CONSTANTS
  Rows <- MCRows
  Asks <- MCAsks
  MaxSpan = 1
  MaxDays = 1
  PerMonth = 2
  Limit = 1
  Waits = 1
INVARIANTS TypeOK OnlyAsked NoneMissing
PROPERTIES PageComesBack AlwaysAnswered
