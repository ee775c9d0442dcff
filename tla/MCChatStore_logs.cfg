SPECIFICATION ServiceSpec
CONSTANTS
  BUNDLE_DOMAIN <- MCDomain
  ByteBase = 2
  LamportBytes = 2
  Handlers = {h1, h2, ingest}
  Cancellable = {h1}
  Pruner = pruner
  Ingest = ingest
  Devices = {}
  KeyPackages = {}
  Accounts = {"a"}
  AccountPayloads = {}
  Logs <- MCLogs
  Entries = {"x", "y", "z"}
  Submissions <- MCLogPosts
  Messages = {}
  no_delivery = TRUE
  MaxInbound = 0
  NoRow = NoRow
  None = None
  is_memory = FALSE
  retention = 1
  max_per_identity = 1
  MaxTime = 1
  Faults = {"crash", "clock"}
INVARIANTS OnlyAuthenticStored AckedLogExtended ReadStillHolds
PROPERTIES ResultsHonest LogAppendOnly
