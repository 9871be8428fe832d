SPECIFICATION FairSpec
CONSTANTS
  NSites = 2
  Cap = 1
  Retries = 2
  Former <- MCFormer
  Switched = {1}
  MaxRequests = 1
INVARIANTS TypeOK MixedOnlyIfMet SuccessKept
PROPERTY QueueRead
