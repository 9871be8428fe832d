SPECIFICATION FairSpec
CONSTANTS
  Positions <- MCPositions
  Targets <- MCTargets
  Moves <- MCMoves
  Samples = 7
INVARIANTS Interlock OutputsOffAtRest NoOvershoot StallIsReal StuckNoticed SetpointHeld
PROPERTY DriveEnds
