SPECIFICATION Spec
CONSTANTS
    MaxHandovers = 1
    MaxOrdered = 1
    MaxBarriers <- Barriers
    UnreadTimeouts = TRUE
    Refusals = TRUE
    Runtimes = {"electron-utility"}
INVARIANTS
    CallableIdsAreLive
\* or instead, with the same instance:
\*  PolledIdIsLive
CHECK_DEADLOCK FALSE
