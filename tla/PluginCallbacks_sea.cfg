SPECIFICATION Spec
CONSTANTS
    MaxHandovers = 2
    MaxOrdered = 2
    MaxBarriers <- Barriers
    UnreadTimeouts = FALSE
    Refusals = FALSE
    Runtimes = {"node-sea"}
INVARIANTS
    SweptIdsAreOrphans
CHECK_DEADLOCK FALSE
