SPECIFICATION FairSpec
CONSTANTS
  BUNDLE_DOMAIN <- MCDomain
  ByteBase = 2
  LamportBytes = 2
  Handlers = {h1, h2}
  Cancellable = {h1}
  Pruner = pruner
  Devices = {d}
  KeyPackages = {k1}
  Accounts = {a}
  AccountPayloads <- MCOnePayload
  Logs = {}
  Entries = {}
  NoRow = NoRow
  None = None
  is_memory = TRUE
  retention = 0
  max_per_identity = 1
  MaxTime = 1
  Faults = {"clock"}
INVARIANT NoBusy
PROPERTIES CallsReturn ExpiredRowsGo
