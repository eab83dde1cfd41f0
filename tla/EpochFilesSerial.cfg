SPECIFICATION Spec
CONSTANTS
  p1 = p1
  Procs = {p1}
  MaxChainEntries = 4
  MaxHeld = 3
  MaxLogRecords = 3
  MaxKeys = 4
  Absent = Absent
  Existing = FALSE
  PowerLoss = FALSE
CHECK_DEADLOCK FALSE
INVARIANTS
  CurrentIsHeld
PROPERTIES
  DisagreementIsFrozen
  ImplementsLedger
