SPECIFICATION Spec
CONSTANTS
  p1 = p1
  Procs = {p1}
  MaxChainEntries = 4
  MaxHeld = 3
  MaxLogRecords = 4
  MaxKeys = 4
  Absent = Absent
  Existing = TRUE
  PowerLoss = TRUE
CHECK_DEADLOCK FALSE
INVARIANTS
  SentStaysReadable
  ErasedStaysErased
  StoreRestores
