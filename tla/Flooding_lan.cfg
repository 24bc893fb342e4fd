SPECIFICATION FairSpec
CONSTANTS
    A = A
    B = B
    C = C
    x = x
    y = y
    k = k
    NoRouter = NoRouter
    Router = {A, B, C}
    Net = {x}
    On <- Lan
    DR <- LanDR
    BDR <- LanBDR
    Key = {k}
    Origin <- OriginC
    HashOrder <- Order1
    RxmtPage = 8
    MinLSArrival = 0
    Spaced = FALSE
    MaxInst = 1
    FaultKinds = {"loss"}
    MaxFaults = 1
INVARIANTS
    UnackedListed
    NoFalseAck
PROPERTIES
    Reaches
    ComesToRest
CHECK_DEADLOCK FALSE
