SPECIFICATION Spec
CONSTANTS
  Workers = {w1}
  Exclusive = TRUE
  LastTime = 4
  Horizon = 4
  Windows = {0, 1, 4}
  MaxChallenges = 2
INVARIANTS
  AcceptedOnce
  AliveWhenIssued
