SPECIFICATION FairDispatcherSpec
CONSTANTS
    a1 = a1
    a2 = a2
    t1 = t1
    t2 = t2
    b1 = b1
    b2 = b2
    None = None
    Agents = {a1}
    MastraAgents = {}
    Tasks = {t1, t2}
    MaxSessions = 0
    MaxRetries = 0
    MaxRestarts = 0
    MaxReviews = 0
    ReviewableTasks = {}
    UserStatuses = {"blocked"}
    AssessesComplexity = FALSE
    Bodies = {b1}
    MaxConcurrentAgents = 1
    AiScored = TRUE
    AssignsReviewers = TRUE
    Unblocks = TRUE
    MaxAttempts = 1
    InitialSettings = {TRUE}
    MaxSwitches = 0
INVARIANTS
    DispatcherTypeOK
PROPERTIES
    GuardIsReleased
CHECK_DEADLOCK FALSE
