SPECIFICATION FairSpec
CONSTANTS
    n1 = n1
    n2 = n2
    n3 = n3
    r1 = r1
    r2 = r2
    Node = {n1, n2, n3}
    Request = {r1, r2}
    None = None
    DefaultId = DefaultId
    BatchSizes = {1}
    MaxBatch = 500
    CanTimeout = {n1}
    CanStop = {}
    Lossy = FALSE
    MaxTerm = 1
    MaxLogLen = 4
    MaxBacklog = 1
    MaxRestarts = 0
PROPERTIES
    CallsAreAnswered
CHECK_DEADLOCK FALSE
