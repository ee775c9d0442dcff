SPECIFICATION ServiceSpec
CONSTANTS
  BUNDLE_DOMAIN <- MCDomain
  ByteBase = 2
  LamportBytes = 2
  Handlers = {h1, ingest}
  Cancellable = {}
  Pruner = pruner
  Ingest = ingest
  Devices = {"d"}
  KeyPackages = {"k1"}
  Accounts = {}
  AccountPayloads = {}
  Logs = {}
  Entries = {}
  Submissions <- MCUppercasePosts
  Messages = {}
  no_delivery = TRUE
  MaxInbound = 0
  NoRow = NoRow
  None = None
  is_memory = FALSE
  retention = 1
  max_per_identity = 1
  MaxTime = 0
  Faults = {}
INVARIANT AcceptedIsServed
