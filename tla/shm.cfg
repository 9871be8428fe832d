SPECIFICATION FairSpec
CONSTANTS
  Procs = {P, Q, R}
  MaxVer = 3
  MaxFaults = 2
INVARIANTS SaveHolds
PROPERTIES NeverBack EverybodyAttached
CHECK_DEADLOCK FALSE
