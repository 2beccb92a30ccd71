SPECIFICATION FairSpec
CONSTANTS
  NumCollectors = 1
  Scope <- RejectingScope
  HealthKey <- OneHealthKey
  Unrecordable <- TooLong
  Confirmation = 1
  BatchLimit = 1
  MaxRows = 3
  Retention = 2
  PruneLimit = 1
  SummaryLimit = 1
  SilenceDurations = {1}
  DigestIntervals = {1}
  MaxTime = 2
  MaxId = 2
  MaxFaults = 1
  MaxUnpairs = 1
INVARIANTS
  DigestsAreSpaced
PROPERTIES
  EventuallySettled
  SilenceEnds
