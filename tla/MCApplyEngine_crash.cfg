SPECIFICATION Spec
CONSTANTS
    Procs = {p1}
    RouteOrder <- TwoRoutes
    MaxRecord = 2
    InitialSources <- AllSources
    Relations <- NoTargets
    References <- ForwardReference
    BatchSize = 1
    ConflictPolicy = "update_existing"
    MaxWriteAttempts = 2
    BatchWrites = FALSE
    ReturnsId = {TRUE}
    LinksFail = FALSE
    LedgerShort = TRUE
    MaxFaults = 1
    MaxCrashes = 1
    MaxInserts = 1
    MaxDeletes = 1
    MayCancel = TRUE
INVARIANTS
    TypeOK
    CompletedCovered
    AppliedCovered
    ProgressTrue
    CountsTrue
PROPERTIES
    NoRewriteOfTerminal
    ImplementsExactApply
