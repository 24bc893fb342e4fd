SPECIFICATION FairSpec
CONSTANTS
    A = A
    B = B
    C = C
    x = x
    y = y
    k = k
    NoRouter = NoRouter
    Router = {A, B}
    Net = {x}
    On <- Lan
    DR <- LanDR
    BDR <- LanBDR
    Key = {k}
    Origin <- OriginA
    HashOrder <- Order1
    RxmtPage = 8
    MinLSArrival = 1
    Spaced = FALSE
    MaxInst = 1
    FaultKinds = {"restart", "expire"}
    MaxFaults = 2
INVARIANTS
    TypeOK
PROPERTIES
    Forward
    FallsSilent
CHECK_DEADLOCK FALSE
