SPECIFICATION Spec
CONSTANTS
    a = a
    b = b
    NoKey = NoKey
    Keys <- MCKeys
    HashOrder <- MCHashOrder
    Own <- OneNewer
    MaxInst = 2
    Connect = {TRUE}
    StartSeq = {7}
    SlavePage = 1
    MasterPage = 1
    Reorder = FALSE
    PromptEnd = TRUE
    MaxInFlight = 2
    FaultKinds = {"young"}
    MaxFaults = 1
INVARIANTS
    Synchronised
