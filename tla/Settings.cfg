SPECIFICATION Spec
CONSTANTS
    Keys <- MCKeys
    Values <- MCValues
    Bad = Bad
    Defaults <- MCDefaults
    Missing = Missing
    Commands = {"c1"}
    Requests <- MCRequests
    Drafts <- MCDrafts
    CloseWhileSaving = FALSE
    Apart = TRUE
CHECK_DEADLOCK FALSE
INVARIANTS
    NoChangeMissed
    EditsLand
PROPERTIES
    SetKeepsRest
    CatchesUp
