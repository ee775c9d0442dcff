SPECIFICATION Spec
CONSTANTS
  BUNDLE_DOMAIN <- MCDomain
  ByteBase = 2
  LamportBytes = 2
  Handlers = {h1, h2}
  Cancellable = {}
  Pruner = pruner
  Devices = {d}
  KeyPackages = {k1, k2}
  Accounts = {}
  AccountPayloads = {}
  Logs = {}
  Entries = {}
  NoRow = NoRow
  None = None
  is_memory = FALSE
  retention = 1
  max_per_identity = 2
  MaxTime = 2
  Faults = {}
INVARIANT ValidKeyPackageStored
