SPECIFICATION Spec
CONSTANTS
  N_CPU = 3
  PROTOCOL = "MOESI"
  CACHE_SIZE = 2
  Address = {a1}
  MemAddress = {a1}
  NoAddress = NoAddress
  WriteData = {}
  EnteredData <- MinusOne
  MemoryData = {0}
  INSTRUCTIONS = 2
  MAX_MESSAGES = 1
  SleepOutlastsBus = TRUE
PROPERTIES
  ReadFillIsCoherent
  StoreTakesTheOnlyCopy
  ImplementsMoesiLines
CHECK_DEADLOCK FALSE
