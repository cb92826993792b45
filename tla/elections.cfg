SPECIFICATION Spec
CONSTANTS
    n1 = n1
    n2 = n2
    n3 = n3
    Node = {n1, n2, n3}
    Request = {r1}
    r1 = r1
    None = None
    DefaultId = DefaultId
    BatchSizes = {1}
    MaxBatch = 500
    CanTimeout = {n1, n2}
    CanStop = {n3}
    Lossy = FALSE
    MaxTerm = 2
    MaxLogLen = 1
    MaxBacklog = 1
    MaxRestarts = 1
SYMMETRY Symmetry
INVARIANTS
    TermsAreOpened
    EntryTermBound
    VotesOnceUntilLed
PROPERTIES
    ElectedByMajority
    ElectionsAsPromised
    CallsAsPromised
CHECK_DEADLOCK FALSE
