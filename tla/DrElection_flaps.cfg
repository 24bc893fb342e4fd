SPECIFICATION Spec
CONSTANTS
    Router = {1, 2}
    MaxAddress = 3
    Priority <- Rising
    Heard = FALSE
    DDFirst = TRUE
    FaultKinds = {"down", "loop", "silence", "loss"}
    MaxFaults = 3
INVARIANTS
    ElectedAreHeard
    AdjacencyFollowsRoles
