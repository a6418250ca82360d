SPECIFICATION DispatcherSpec
CONSTANTS
    a1 = a1
    a2 = a2
    t1 = t1
    t2 = t2
    b1 = b1
    b2 = b2
    None = None
    Agents = {a1}
    MastraAgents = {}
    Tasks = {t1}
    MaxSessions = 1
    MaxRetries = 0
    MaxRestarts = 0
    MaxReviews = 1
    ReviewableTasks = {}
    UserStatuses = {"todo", "in_progress", "ai_review", "human_review", "done", "blocked"}
    AssessesComplexity = FALSE
    Bodies = {b1}
    MaxConcurrentAgents = 1
    AiScored = TRUE
    AssignsReviewers = FALSE
    Unblocks = FALSE
    MaxAttempts = 1
    InitialSettings = {TRUE}
    MaxSwitches = 0
PROPERTIES
    DispatchesWhatWaits
CHECK_DEADLOCK FALSE
