CONSTANTS
    Callers = {c1, c2}
    MaxRoute = 2
    MaxRecord = 2
    InitialSources <- LastRouteOnly
    BatchSize = 1
    MaxRuns = 1
    MaxPlans = 2
    MaxChanges = 1
    MaxMishaps = 1
    Handles = TRUE
SPECIFICATION Spec
SYMMETRY CallerSymmetry
INVARIANTS OnlyApprovedRuns AppliedRoutesCovered FirstPlanCovered
