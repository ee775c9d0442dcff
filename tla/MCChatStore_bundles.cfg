SPECIFICATION ServiceSpec
CONSTANTS
  BUNDLE_DOMAIN <- MCDomain
  ByteBase = 2
  LamportBytes = 2
  Handlers = {h1, ingest}
  Cancellable = {h1}
  Pruner = pruner
  Ingest = ingest
  Devices = {"d"}
  KeyPackages = {"k1", "k2"}
  Accounts = {"a"}
  AccountPayloads <- MCBundles
  Logs = {}
  Entries = {}
  Submissions <- MCBundlePosts
  Messages <- MCBundleMessages
  no_delivery = FALSE
  MaxInbound = 1
  NoRow = NoRow
  None = None
  is_memory = FALSE
  retention = 1
  max_per_identity = 1
  MaxTime = 2
  Faults = {"crash"}
INVARIANTS ServiceTypeOK OnlyAuthenticStored
PROPERTIES ImplementsStore ResultsHonest
