SPECIFICATION FairServiceSpec
CONSTANTS
  BUNDLE_DOMAIN <- MCDomain
  ByteBase = 2
  LamportBytes = 2
  Handlers = {h1, ingest}
  Cancellable = {h1}
  Pruner = pruner
  Ingest = ingest
  Devices = {}
  KeyPackages = {}
  Accounts = {"a"}
  AccountPayloads <- MCBundles
  Logs = {}
  Entries = {}
  Submissions <- MCAccountPosts
  Messages <- MCAccountMessages
  no_delivery = FALSE
  MaxInbound = 2
  NoRow = NoRow
  None = None
  is_memory = FALSE
  retention = 1
  max_per_identity = 1
  MaxTime = 0
  Faults = {"node", "io"}
PROPERTIES InboundIngested PruneGoesOn ShutdownCompletes
