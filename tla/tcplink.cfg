SPECIFICATION FairSpec
CONSTANTS
  NSites = 2
  NFds = 3
INVARIANTS SocketsOwned FlagEarned StraysOnlyIfShut
PROPERTY LinkComesBack
