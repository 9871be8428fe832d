SPECIFICATION Spec
CONSTANTS
  NSites = 1
  QCap = 1
  Retries = 2
  Commands <- MCOne
  Readings <- MCZero
  Stored <- MCZero
  Step = 100
PROPERTY SuccessOnlyIfSent
