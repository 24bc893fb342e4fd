SPECIFICATION Spec
CONSTANTS
    Router = {1, 2, 3}
    Network = {4, 5}
    Stub = {6}
    Self = 1
    Databases <- MCDatabases
INVARIANTS
    TypeOK
    NeverCloser
    ShortestWhenDone
    OwnLinksOnly
    Shortest
    HopsLeadCloser
CHECK_DEADLOCK FALSE
