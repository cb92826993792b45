SPECIFICATION Spec
CONSTANTS
    n1 = n1
    n2 = n2
    n3 = n3
    n4 = n4
    n5 = n5
    Node = {n1, n2, n3, n4, n5}
    Request = {r1}
    r1 = r1
    None = None
    DefaultId = DefaultId
    BatchSizes = {1}
    MaxBatch = 500
    CanTimeout = {n1, n2}
    CanStop = {n1}
    Lossy = FALSE
    MaxTerm = 2
    MaxLogLen = 1
    MaxBacklog = 0
    MaxRestarts = 1
SYMMETRY Symmetry
INVARIANTS
    TallyWasGranted
    WaitingIsOwed
PROPERTIES
    ElectedUpToTerm
CHECK_DEADLOCK FALSE
