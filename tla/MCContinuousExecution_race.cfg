CONSTANTS
    w1 = w1  w2 = w2
    a1 = a1  a2 = a2
    Workers = {w1, w2}
    Attempts = {a1, a2}
    NumberOf <- Numbers
    Assignments <- RetryOrTwin
    RouteOrder <- OneRoute
    MaxRecord = 2
    InitialSources <- EverySource
    UnknownTotals = {}
    InitialScopes = {"same", "other"}
    BatchSize = 1
    MaxBatches = 2
    MaxCalls = 3
    MaxMishaps = 1
    MaxDeletes = 1
    MayCancel = TRUE
    MayRequeue = TRUE
SPECIFICATION Spec
\* Every call may have been spent.
CHECK_DEADLOCK FALSE
INVARIANTS RowBacked LoopReconciles
 
