SPECIFICATION Spec
CONSTANTS
  NSites = 2
  Slots = 5
  LogCap = 1
  Retries = 2
  Openings <- MCFaulty
  MaxChanges = 3
INVARIANTS AlwaysRoomForReport ReportsInOrder BufferBound
PROPERTY OneReportAtATime
