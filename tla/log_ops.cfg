SPECIFICATION Spec
CONSTANTS
    r1 = r1
    Request = {r1}
    Indices = {1, 2, 3}
    Terms = {1, 2}
    MaxLen = 4
INVARIANTS
    ContainsAsLoop
    RemoveAsLoop
    PreviousAsLoop
    ReadAsLoop
    BatchStartsAtNext
CHECK_DEADLOCK FALSE
