SPECIFICATION FairTelemetrySpec
CONSTANTS
    MaxEvents = 3
    MaxInbox = 2
    MaxQueueSize = 2
    MaxQueueBytes = 2
    MaxBodyBytes = 3
    MaxEventsPerBatch = 2
    MaxRecent = 1
    DrainSize = 1
    TokensAgree = TRUE
    FaultSets <- AllOrNone
CHECK_DEADLOCK FALSE
INVARIANTS
    LoggedOnce
    ReportedWasRefused
    QueueBounded
    WindowIsLatest
PROPERTIES
    AcceptedOrReported
    AdmissionRecovers
