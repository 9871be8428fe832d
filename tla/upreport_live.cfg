SPECIFICATION CalmSpec
CONSTANTS
  NSites = 2
  Slots = 3
  LogCap = 1
  Retries = 2
  Openings <- MCOpenings
  MaxChanges = 1
PROPERTIES CycleEnds PlatformFollows
