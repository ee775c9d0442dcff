SPECIFICATION Spec
CONSTANTS
  BUNDLE_DOMAIN <- MCDomain
  ByteBase = 2
  LamportBytes = 2
  Handlers = {h1, h2}
  Cancellable = {}
  Pruner = pruner
  Devices = {d}
  KeyPackages = {k1}
  Accounts = {a}
  AccountPayloads = {}
  Logs <- MCTwoLogs
  Entries = {"x", "y"}
  NoRow = NoRow
  None = None
  is_memory = FALSE
  retention = 1
  max_per_identity = 1
  MaxTime = 2
  Faults = {"crash", "io"}
INVARIANTS AckedKeyPackageServed LatestIsLastInserted PruneBoundsHistory NoBusy MutexInv
PROPERTY ImplementsRegistry
