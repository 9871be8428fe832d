SPECIFICATION CalmSpec
CONSTANTS
  NSites = 1
  QCap = 1
  Retries = 2
  Commands <- MCOne
  Readings <- MCZero
  Stored <- MCOne
  Step = 255
PROPERTIES LastCommandDriven StatusSettles SendersComeBack ServiceKept
