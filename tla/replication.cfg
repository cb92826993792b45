SPECIFICATION Spec
CONSTANTS
    n1 = n1
    n2 = n2
    n3 = n3
    r1 = r1
    Node = {n1, n2, n3}
    Request = {r1}
    None = None
    DefaultId = DefaultId
    BatchSizes = {3}
    MaxBatch = 1
    CanTimeout = {n1}
    CanStop = {}
    Lossy = TRUE
    MaxTerm = 1
    MaxLogLen = 4
    MaxBacklog = 1
    MaxRestarts = 0
SYMMETRY Symmetry
INVARIANTS
    TypeOK
    MatchIsReplicated
    ConfirmedEverywhere
    CommittedEverywhere
CHECK_DEADLOCK FALSE
