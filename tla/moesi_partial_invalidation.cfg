SPECIFICATION Spec
CONSTANTS
  N_CPU = 3
  PROTOCOL = "MOESI"
  CACHE_SIZE = 1
  Address = {a1}
  MemAddress = {a1}
  NoAddress = NoAddress
  WriteData = {5}
  EnteredData = {}
  MemoryData = {0}
  INSTRUCTIONS = 2
  MAX_MESSAGES = 3
  SleepOutlastsBus = TRUE
PROPERTIES
  EveryCopyIsInvalidated
CHECK_DEADLOCK FALSE
