SPECIFICATION Spec
CONSTANTS
  Positions <- MCPositions
  Targets <- MCTargets
  Moves <- MCMoves
  Samples = 3
PROPERTY FaultStopsDrive
