SPECIFICATION Spec
CONSTANTS
    MaxHandovers = 2
    MaxOrdered = 1
    MaxBarriers <- Barriers
    UnreadTimeouts = FALSE
    Refusals = TRUE
    Runtimes = {"electron-utility", "node-sea"}
INVARIANTS
    TypeOK
    CallableIdsAreLive
    AdoptedHasAnOwner
PROPERTIES
    OrphansAreReclaimed
CHECK_DEADLOCK FALSE
