SPECIFICATION Spec
CONSTANTS
    event = event
    stand = stand
    Nodes = {event, stand}
    EventNode = event
    Above <- MCAbove
INVARIANTS
    EditsReachTheRow
PROPERTIES
    SavedAsEntered
CHECK_DEADLOCK FALSE
