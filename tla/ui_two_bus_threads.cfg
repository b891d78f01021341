SPECIFICATION Spec
CONSTANTS
  N_CPU = 2
  MAX_MESSAGES = 2
  CLICKS = 2
  REQUESTS = 2
INVARIANTS
  ServedAsReceived
CHECK_DEADLOCK FALSE
