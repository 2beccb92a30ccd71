SPECIFICATION Spec
CONSTANTS
  NumCollectors = 2
  Scope <- TwoScopes
  HealthKey <- TwoHealthKeys
  Unrecordable <- TooLong
  Confirmation = 1
  BatchLimit = 2
  MaxRows = 3
  Retention = 2
  PruneLimit = 1
  SummaryLimit = 1
  SilenceDurations = {}
  DigestIntervals = {}
  MaxTime = 1
  MaxId = 2
  MaxFaults = 1
  MaxUnpairs = 0
INVARIANTS
  CollectorsAreIsolated
