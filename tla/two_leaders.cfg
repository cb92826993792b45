SPECIFICATION Spec
CONSTANTS
    n1 = n1
    n2 = n2
    n3 = n3
    r1 = r1
    Node = {n1, n2, n3}
    Request = {r1}
    None = None
    DefaultId = DefaultId
    BatchSizes = {1}
    MaxBatch = 500
    CanTimeout = {n1, n2}
    CanStop = {}
    Lossy = FALSE
    MaxTerm = 2
    MaxLogLen = 1
    MaxBacklog = 0
    MaxRestarts = 0
SYMMETRY Symmetry
INVARIANTS
    ElectionSafety
CHECK_DEADLOCK FALSE
