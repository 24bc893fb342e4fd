SPECIFICATION Spec
CONSTANTS
    A = A
    B = B
    C = C
    x = x
    y = y
    k = k
    NoRouter = NoRouter
    Router = {A, B, C}
    Net = {x, y}
    On <- Chain
    DR <- ChainDR
    BDR <- ChainBDR
    Key = {k}
    Origin <- OriginA
    HashOrder <- Order1
    RxmtPage = 8
    MinLSArrival = 1
    Spaced = TRUE
    MaxInst = 2
    FaultKinds = {}
    MaxFaults = 0
INVARIANTS
    UnackedListed
CHECK_DEADLOCK FALSE
