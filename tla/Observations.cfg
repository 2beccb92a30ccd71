SPECIFICATION Spec
CONSTANTS
    Confirmation = 2
    CpuWarning = 90
    LoadWarning = 150
    MemoryWarning = 90
    SwapWarning = 80
    DiskWarning = 85
    WarningDays = 1
    StatusMin = 200
    StatusMax = 399
    Day = 3
    Mounts <- TwoDisks
    LoadReadings = {149}
    DiskReadings <- DiskPairs
    Statuses = {200}
    SecondsLeft <- CertificateSeconds
INVARIANTS ScreensTellIncidents NoGapBeforeExpiry LastingTroubleIsCounted
