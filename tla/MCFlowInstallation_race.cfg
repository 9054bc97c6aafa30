\* Two hosts, two plans, one creation a plan and its removal.
SPECIFICATION Spec
CONSTANTS
    Callers = {h1, h2}
    NoAttempt = NoAttempt
    MaxPlans = 2
    MaxCreates = 1
    MaxClaims = 4
    MaxMishaps = 1
SYMMETRY CallerSymmetry
INVARIANTS NoOrphans LedgerKnows
PROPERTIES ActivatesInstalled EvidenceStable
CHECK_DEADLOCK FALSE
