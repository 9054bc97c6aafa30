SPECIFICATION HostedSpec
CONSTANTS
    c1 = c1
    c2 = c2
    v1 = v1
    v2 = v2
    Commands = {c1, c2}
    Versions = {v1, v2}
    Configurations = {k1}
    NoFile = NoFile
    Inputs = {orm}
    Endpoints = {e1}
    Selections = {{e1}}
    AllEndpoints = AllEndpoints
    Existing = {"absent", "old"}
    MaxOperations = 3
    MaxEdits = 1
    MaxFaults = 1
SYMMETRY Alike
CHECK_DEADLOCK FALSE
INVARIANTS
    StageAsReviewed
    SelectionHonored
    StagesOverOneInput
    RepairProven
