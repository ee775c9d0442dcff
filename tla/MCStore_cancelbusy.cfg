SPECIFICATION Spec
CONSTANTS
  BUNDLE_DOMAIN <- MCDomain
  ByteBase = 2
  LamportBytes = 2
  Handlers = {h1, h2}
  Cancellable = {h1}
  Pruner = pruner
  Devices = {}
  KeyPackages = {}
  Accounts = {a}
  AccountPayloads <- MCTwoPayloads
  Logs = {}
  Entries = {}
  NoRow = NoRow
  None = None
  is_memory = FALSE
  retention = 1
  max_per_identity = 1
  MaxTime = 1
  Faults = {}
INVARIANT NoUpgradeRace
