SPECIFICATION Spec
CONSTANTS
  NSites = 1
  QCap = 1
  Retries = 2
  Commands <- MCOne
  Readings <- MCZero
  Stored <- MCFresh
  Step = 255
INVARIANTS NoCommandForgotten ReportingNotWedged
PROPERTIES ServiceStepsKept
