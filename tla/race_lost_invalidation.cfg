SPECIFICATION StepsSpec
CONSTANTS
  N_CPU = 2
  PROTOCOL = "MOESI"
  CACHE_SIZE = 1
  Address = {a1}
  MemAddress = {a1}
  NoAddress = NoAddress
  WriteData = {5}
  EnteredData = {}
  MemoryData = {0}
  INSTRUCTIONS = 2
  MAX_MESSAGES = 1
  SleepOutlastsBus = TRUE
PROPERTIES
  InvalidationTakesEffect
CHECK_DEADLOCK FALSE
