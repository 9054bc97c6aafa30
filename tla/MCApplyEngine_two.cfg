SPECIFICATION Spec
CONSTANTS
    Procs = {p1, p2}
    RouteOrder <- OneRoute
    MaxRecord = 2
    InitialSources <- FullSource
    Relations <- NoTargets
    References <- NoTargets
    BatchSize = 1
    ConflictPolicy = "update_existing"
    MaxWriteAttempts = 1
    BatchWrites = FALSE
    ReturnsId = {TRUE}
    LinksFail = FALSE
    LedgerShort = FALSE
    MaxFaults = 1
    MaxCrashes = 1
    MaxInserts = 0
    MaxDeletes = 1
    MayCancel = TRUE
SYMMETRY ProcessSymmetry
INVARIANTS
    SharedRunTrue
PROPERTIES
    LedgerMonotone
