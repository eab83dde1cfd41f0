SPECIFICATION Spec
CONSTANTS
  Signers = {s1}
  Recipients = {v, m}
  Rogues = {m}
  Names = {n}
  Texts = {t1, t2}
  MAX_RECIPIENTS = 2
  MaxObjects = 1
  Nobody = Nobody
CHECK_DEADLOCK FALSE
INVARIANTS
  AuthorIsBound
  OutsidersAlterNothing
  WrittenOpens
