SPECIFICATION FairWorkerSpec
CONSTANTS
    MaxEvents = 4
    MaxInbox = 3
CHECK_DEADLOCK FALSE
INVARIANTS
    WorkerTypeOK
    TerminatingWaits
PROPERTIES
    BufferDrains
