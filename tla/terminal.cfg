SPECIFICATION Spec
CONSTANTS
    Wide = {"w"}
    Lines <- TypedLines
    Screen <- Popup
    MaxEntries = 2
    MaxCalls = 1
    MaxAppends = 2
INVARIANTS
    TypeOK
    OffsetInHistory
    FileHoldsHistory
    ScrollWithinText
    StreamsReadBack
PROPERTIES
    RestartLosesOnlyTheEnd
    DraftComesBack
CHECK_DEADLOCK FALSE
