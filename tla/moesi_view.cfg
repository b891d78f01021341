SPECIFICATION Spec
CONSTANTS
  N_CPU = 2
  PROTOCOL = "MOESI"
  CACHE_SIZE = 2
  Address = {a1}
  MemAddress = {a1}
  NoAddress = NoAddress
  WriteData = {5}
  EnteredData = {}
  MemoryData = {0}
  INSTRUCTIONS = 3
  MAX_MESSAGES = 2
  SleepOutlastsBus = TRUE
INVARIANTS
  ConsistentView
CHECK_DEADLOCK FALSE
