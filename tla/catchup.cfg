SPECIFICATION FairSpec
CONSTANTS
    n1 = n1
    n2 = n2
    n3 = n3
    r1 = r1
    Node = {n1, n2, n3}
    Request = {r1}
    None = None
    DefaultId = DefaultId
    BatchSizes = {1, 2}
    MaxBatch = 1
    CanTimeout = {n1}
    CanStop = {n2, n3}
    Lossy = FALSE
    MaxTerm = 2
    MaxLogLen = 3
    MaxBacklog = 0
    MaxRestarts = 1
PROPERTIES
    CallsAreAnswered
    FollowersCatchUp
CHECK_DEADLOCK FALSE
