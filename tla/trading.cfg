SPECIFICATION Spec
CONSTANTS
    None = None
    Callers = {c1, c2}
    Changes <- MCChanges
    Placements <- MCPlacements
    Values <- MCValues
    Side = "buy"
INVARIANTS
    TypeOK
    WriteFollowsLook
    EachFieldIsItsSelectors
    OnlyUncoupledChangesBreak
PROPERTY
    AsPromised
CHECK_DEADLOCK FALSE
