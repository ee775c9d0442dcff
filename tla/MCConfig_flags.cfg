SPECIFICATION ConfigSpec
CONSTANTS
  Word = 16
  SecsPerDay = 2
  MsPerSec = 2
  RetentionDays <- MCRetentionDays
  MaxPerIdentity <- MCMaxPerIdentity
  PruneIntervals <- MCPruneIntervals
  MaxRows = 2
  MaxTime = 7
  NoRow = NoRow
INVARIANT PrunedInTime
PROPERTY PrunesOnlyWhatIsDue
