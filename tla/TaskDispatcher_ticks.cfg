SPECIFICATION DispatcherSpec
CONSTANTS
    a1 = a1
    a2 = a2
    t1 = t1
    t2 = t2
    b1 = b1
    b2 = b2
    None = None
    Agents = {a1}
    MastraAgents = {a1}
    Tasks = {t1}
    MaxSessions = 1
    MaxRetries = 0
    MaxRestarts = 1
    MaxReviews = 0
    ReviewableTasks = {}
    UserStatuses = {"todo", "in_progress", "ai_review", "human_review", "done", "blocked"}
    AssessesComplexity = FALSE
    Bodies = {b1, b2}
    MaxConcurrentAgents = 1
    AiScored = TRUE
    AssignsReviewers = FALSE
    Unblocks = FALSE
    MaxAttempts = 1
    InitialSettings = {TRUE, None}
    MaxSwitches = 2
SYMMETRY AgentSymmetry
INVARIANTS
    OneTickBody
    NeverStalls
    PointersAgree
CHECK_DEADLOCK FALSE
