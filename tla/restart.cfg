SPECIFICATION FairRestartSpec
CONSTANTS
  N_CPU = 2
  PROTOCOL = "MESI"
  CACHE_SIZE = 1
  Address = {a1}
  MemAddress = {a1}
  NoAddress = NoAddress
  WriteData = {}
  EnteredData = {}
  MemoryData = {0}
  INSTRUCTIONS = 2
  MAX_MESSAGES = 2
  SleepOutlastsBus = FALSE
  RESTARTS = 1
INVARIANTS
  InheritedStoresAccounted
PROPERTIES
  ReadFillIsCoherent
  CoresFinishForGood
  QueueDrains
CHECK_DEADLOCK FALSE
