SPECIFICATION Spec
CONSTANTS
  Objects = {o1, o2}
  Openers = {p1, p2}
  Bodies = {x, y}
  CHUNK_LEN = 2
  MAX_CHUNKS = 2
  MaxBytes = 4
  Growing = {o2}
  Absent = Absent
CHECK_DEADLOCK FALSE
INVARIANTS
  PublishedIsWhole
  NonceUsedOnce
  SteadyContainersOpen
