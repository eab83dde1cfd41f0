SPECIFICATION Spec
CONSTANTS
  Words = {"word", "s"}
  ShortWords = {"s"}
  MAX_ENTRIES = 2
  Processes = {p1, p2}
  MAX_SEEDS = 2
  PasswdOn = {"sealed"}
  Heads = {h1, h2}
  MAX_SEALS = 2
  Seeds = {s1, s2}
  Octets = {0, 1}
  RESERVED_CONTEXT_PREFIX <- MCReserved
  MAX_CONTEXT = 2
  MAX_MESSAGE = 2
  MAX_ISSUED = 2
  Addresses = {a1, a2, a3, a4}
  Objects = {o1, o2}
  Goroutines = {g1, g2}
  MAX_OUTS = 3
INVARIANTS
  PublicHasItsSecret
  AnySpellingOpens
  SameKeyEverywhere
  StoreOpensAsSealed
  
  
  OwnedOnce
  OnlyWhatWasSigned
PROPERTY
  CliNeverOverwrites
CHECK_DEADLOCK FALSE
