SPECIFICATION Spec
CONSTANTS
    a = a
    b = b
    NoKey = NoKey
    Keys <- MCKeys
    HashOrder <- MCHashOrder
    Own <- SlaveHasBoth
    MaxInst = 1
    Connect = {TRUE, FALSE}
    StartSeq = {0, 10}
    SlavePage = 1
    MasterPage = 1
    Reorder = TRUE
    PromptEnd = FALSE
    MaxInFlight = 2
    FaultKinds = {"reelect", "timeout", "restart", "loss"}
    MaxFaults = 1
INVARIANTS
    Roles
    Driver
    ChildAsksFront
    CleanStart
    Synchronised
PROPERTIES
    RequestsNotForgotten
    PromiseKept
