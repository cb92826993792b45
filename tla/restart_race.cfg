SPECIFICATION FairSpec
CONSTANTS
    MaxNodes = 1
    Sizes = {1}
    ProcTypes = {"managed"}
    Nobody = Nobody
    Outsider = Outsider
    Visited = {}
    MaxCommands = 2
    MaxEvents = 1
PROPERTIES
    StartsANode
CHECK_DEADLOCK FALSE
