SPECIFICATION Spec
CONSTANTS
    Router = {1, 2, 3}
    MaxAddress = 3
    Priority <- Rising
    Heard = TRUE
    DDFirst = FALSE
    FaultKinds = {}
    MaxFaults = 0
INVARIANTS
    AdjacencyFollowsRoles
PROPERTIES
    NoPreemption
