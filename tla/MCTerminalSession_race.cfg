SPECIFICATION SessionSpec
CONSTANTS
    Jobs = {j1}
    MaxPlans = 2
    MaxWorkers = 2
    MaxScreens = 3
CHECK_DEADLOCK FALSE
INVARIANTS
    OneChosenStage
PROPERTY BusyClears
