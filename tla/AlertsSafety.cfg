SPECIFICATION Spec
CONSTANTS
  NumCollectors = 1
  Scope <- OneScope
  HealthKey <- OneHealthKey
  Unrecordable = {}
  Confirmation = 2
  BatchLimit = 2
  MaxRows = 3
  Retention = 1
  PruneLimit = 1
  SummaryLimit = 1
  SilenceDurations = {1}
  DigestIntervals = {}
  MaxTime = 2
  MaxId = 4
  MaxFaults = 1
  MaxUnpairs = 1
INVARIANTS
  SilencedStaysSilent
  SentWasDelivered
  DeliveredOnce
  OutboxMatchesIncidents
  OwnerIsInformed
PROPERTIES
  DeliveredInOrder
  NothingDroppedSilently
