SPECIFICATION FairSpec
CONSTANTS
  N_CPU = 2
  MAX_MESSAGES = 1
  CLICKS = 2
  REQUESTS = 2
INVARIANTS
  TypeOK
  OneBusServesAsReceived
PROPERTIES
  EveryRequestIsAnswered
  StopEndsTheLoops
  CoresAreJoined
CHECK_DEADLOCK FALSE
