SPECIFICATION BenchmarkSpec
CONSTANTS
  BUNDLE_DOMAIN <- MCDomain
  ByteBase = 2
  LamportBytes = 2
  Handlers = {0, 1, ingest}
  Cancellable = {}
  Pruner = pruner
  Ingest = ingest
  Devices <- MCDevices
  KeyPackages <- MCKeyPackages
  Accounts <- MCAccounts
  AccountPayloads <- MCPayloads
  Logs = {}
  Entries = {}
  Submissions <- MCSubmissions
  Messages <- MCMessages
  no_delivery = FALSE
  MaxInbound = 1
  NoRow = NoRow
  None = None
  is_memory = FALSE
  retention = 1
  max_per_identity = 1
  MaxTime = 1
  Faults = {"crash", "io"}
  Arguments <- MCArguments
  MaxConcurrency = 2
  SequenceShift = 4
  UnknownKey = 98
INVARIANTS FlowsFailOnlyWithServer ReportIsTrue LeavesNothingBehind
