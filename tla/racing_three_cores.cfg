SPECIFICATION StepsSpec
CONSTANTS
  N_CPU = 3
  PROTOCOL = "MOESI"
  CACHE_SIZE = 1
  Address = {a1}
  MemAddress = {a1}
  NoAddress = NoAddress
  WriteData = {}
  EnteredData = {}
  MemoryData = {0}
  INSTRUCTIONS = 2
  MAX_MESSAGES = 1
  SleepOutlastsBus = TRUE
INVARIANTS
  OneRequestInFlight
PROPERTIES
  HandlersAreAtomic
  SearchFollowsTable
  RevivedByItsCoreOnly
CHECK_DEADLOCK FALSE
