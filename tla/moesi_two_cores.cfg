SPECIFICATION Spec
CONSTANTS
  N_CPU = 2
  PROTOCOL = "MOESI"
  CACHE_SIZE = 2
  Address = {a1, a2}
  MemAddress = {a1, a2}
  NoAddress = NoAddress
  WriteData = {5}
  EnteredData = {}
  MemoryData = {0}
  INSTRUCTIONS = 3
  MAX_MESSAGES = 2
  SleepOutlastsBus = TRUE
SYMMETRY Symmetry
INVARIANTS
  TypeOK
  OneRequestPerCore
  VictimStillJustified
  ServedLineIsKept
  InvalidationsAccounted
PROPERTIES
  ReadFillIsCoherent
  DuplicatesComeFromReads
  ImplementsMoesiLines
CHECK_DEADLOCK FALSE
