SPECIFICATION Spec
CONSTANTS
  N_CPU = 2
  PROTOCOL = "MESI"
  CACHE_SIZE = 1
  Address = {a1}
  MemAddress = {a1}
  NoAddress = NoAddress
  WriteData = {5}
  EnteredData = {}
  MemoryData = {0}
  INSTRUCTIONS = 2
  MAX_MESSAGES = 2
  SleepOutlastsBus = TRUE
PROPERTIES
  MemoryIsReadIfNoOneHasIt
CHECK_DEADLOCK FALSE
