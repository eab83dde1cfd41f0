SPECIFICATION Spec
CONSTANTS
  MAX_PROOF_LEN = 3
  Origins = {"log", "other"}
  Entries <- MCEntries
  Origin = "log"
  LogKey = "log key"
  Witnesses <- MCWitnesses
  threshold = 2
  Honest = {"honest key"}
  MAX_SIGNATURES = 3
  MAX_ACCEPTED = 2
  MAX_SHOWN = 2
INVARIANTS
  NoSplitView
  ShownNeverMoves
  ProofsMeanTheTruth
CHECK_DEADLOCK FALSE
