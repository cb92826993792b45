SPECIFICATION FairSpec
CONSTANTS
    MaxNodes = 2
    Sizes = {1, 2}
    ProcTypes = {"managed", "binary", "external"}
    Nobody = Nobody
    Outsider = Outsider
    Visited = {1}
    MaxCommands = 3
    MaxEvents = 1
INVARIANTS
    TypeOK
    ManagedIsOwned
    EventsNameNodes
PROPERTIES
    ShownIsTrue
    StopTakesEffect
    LeavingEnds
CHECK_DEADLOCK FALSE
