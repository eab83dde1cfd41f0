\* Two devices, one of whose keys gets stolen; two commands that may overlap;
\* a log that can grow one entry past what the commands read.
CONSTANTS
  Devices = {a, b}
  Processes = {p1, p2}
  Founders = {a}
  MAX_LOG_FILE = 3
  MAX_COMMANDS = 5
  Clients = {a}
  Peers = {b}
  Stealable = {b}
  Outsider = x
SYMMETRY ProcessSymmetry
SPECIFICATION Spec
INVARIANTS
  FileVerifies
  AckedIsKept
  RosterIsVouched
  RevokedStaysOut
CHECK_DEADLOCK FALSE
