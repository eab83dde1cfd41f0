SPECIFICATION SpecAgent
CONSTANTS
  Clients = {c1, c2}
  MAX_REQUESTS = 3
  MAX_AHEAD = 1
INVARIANTS
  OneYesOneSignature
  AnswersMatch

  
CHECK_DEADLOCK FALSE
