SPECIFICATION FairStepsSpec
CONSTANTS
  N_CPU = 2
  PROTOCOL = "MESI"
  CACHE_SIZE = 1
  Address = {a1, a2}
  MemAddress = {a1, a2}
  NoAddress = NoAddress
  WriteData = {5}
  EnteredData = {}
  MemoryData = {0}
  INSTRUCTIONS = 2
  MAX_MESSAGES = 1
  SleepOutlastsBus = TRUE
INVARIANTS
  StepsTypeOK
  AnsweredLineIsKept
PROPERTIES
  HandlersAreAtomic
  CoresFinish
  BusComesToRest
CHECK_DEADLOCK FALSE
