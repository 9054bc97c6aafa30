SPECIFICATION Spec
CONSTANTS
    Callers = {c1, c2}
    MaxRequests = 3
    MaxProcesses = 4
    MaxFaults = 2
CHECK_DEADLOCK FALSE
INVARIANTS
    AnswersInStep
PROPERTIES
    RequestsReturn
