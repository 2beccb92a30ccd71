SPECIFICATION LogSpec
CONSTANTS
    AuditRetention = 2
    AuditMax = 3
    HistoryRetention = 3
    HistoryMax = 3
    Chunk = 1
    MaxTime = 5
    MaxEvents = 5
    MaxRecoveries = 2
PROPERTIES EventsAreKept OldEventsGo
CHECK_DEADLOCK FALSE
