SPECIFICATION Spec
CONSTANTS
  alice = alice
  bob = bob
  laptop = laptop
  phone = phone
  offline = offline
  Keys = {laptop, phone, offline}
  Holders = {alice, bob}
  KeysOf <- MCKeysOf
  Rogues = {phone}
  RecoveryKeys = {offline}
  MaxRogue = 1
  MaxEntries = 3
  MaxSigned = 3
INVARIANTS
  MembershipIsHistory
  LocalIsRemote
  AuthorityIsCurrent
  HeadIsHistory
