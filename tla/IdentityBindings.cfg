SPECIFICATION SpecBindings
CONSTANTS
  alice = alice
  laptop = laptop
  phone = phone
  offline = offline
  chain1 = chain1
  Keys = {laptop, phone, offline}
  Holders = {alice}
  HeldKeys = {laptop, offline}
  KeysOf <- MCKeysOf
  Rogues = {phone}
  RecoveryKeys = {offline, phone}
  MaxEntries = 2
  MaxSigned = 2
  MaxRogue = 1
  Chains = {chain1}
  MaxBindings = 1
INVARIANTS
  RecoveryIsFounders
  ChainIsVouched
