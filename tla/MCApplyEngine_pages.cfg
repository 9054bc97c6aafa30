SPECIFICATION Spec
CONSTANTS
    Procs = {p1}
    RouteOrder <- TwoRoutes
    MaxRecord = 3
    InitialSources <- ThreeAndOne
    Relations <- CrossLinks
    References <- SelfReference
    BatchSize = 2
    ConflictPolicy = "skip_existing"
    MaxWriteAttempts = 2
    BatchWrites = TRUE
    ReturnsId = {TRUE, FALSE}
    LinksFail = TRUE
    LedgerShort = FALSE
    MaxFaults = 1
    MaxCrashes = 1
    MaxInserts = 0
    MaxDeletes = 1
    MayCancel = FALSE
INVARIANTS
    PagesTrue
