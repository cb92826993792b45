SPECIFICATION Spec
CONSTANTS
    n1 = n1
    n2 = n2
    n3 = n3
    r1 = r1
    r2 = r2
    r3 = r3
    Node = {n1, n2, n3}
    Request = {r1, r2, r3}
    None = None
    DefaultId = DefaultId
    BatchSizes = {1, 2}
    MaxBatch = 500
    CanTimeout = {n1, n2, n3}
    CanStop = {}
    Lossy = FALSE
    MaxTerm = 4
    MaxLogLen = 6
    MaxBacklog = 0
    MaxRestarts = 0
SYMMETRY Symmetry
CONSTRAINT IndicesAscend
INVARIANTS
    CacheMatchesLog
    LeaderHoldsInflights
    ConfirmedEverywhere
PROPERTIES
    EverywhereIsForever
CHECK_DEADLOCK FALSE
