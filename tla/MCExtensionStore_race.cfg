SPECIFICATION Spec
CONSTANTS
    p1 = p1
    p2 = p2
    A = A
    x = x
    y = y
    z = z
    dep = dep
    Procs = {p1, p2}
    Projects = {A}
    ProjectOf <- OneProject
    Extensions = {x, y, z}
    System <- Systems
    Order <- Aliases
    Snapshots = {1, 2}
    Version <- Versions
    Incompatible = {}
    Shared = dep
    Default = z
    Starts = {"empty", "installed"}
    Pinned <- PinnedXZ
    MaxOperations = 3
    MaxFaults = 1
SYMMETRY Workers
CHECK_DEADLOCK FALSE
INVARIANTS
    StoreWhole
    PinnedResolvable
    RunsWhatIsPinned
PROPERTIES
    AddMeansResolvable
