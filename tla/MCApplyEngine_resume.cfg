SPECIFICATION ResumeSpec
CONSTANTS
    Procs = {p1}
    RouteOrder <- TwoRoutes
    MaxRecord = 2
    InitialSources <- AllSources
    Relations <- CrossLinks
    References <- WaitingReferences
    BatchSize = 2
    ConflictPolicy = "update_existing"
    MaxWriteAttempts = 1
    BatchWrites = FALSE
    ReturnsId = {TRUE}
    LinksFail = FALSE
    LedgerShort = FALSE
    MaxFaults = 2
    MaxCrashes = 1
    MaxInserts = 0
    MaxDeletes = 0
    MayCancel = FALSE
PROPERTIES
    ApplyTerminates
    ResumeConverges
