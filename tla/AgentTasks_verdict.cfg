SPECIFICATION Spec
CONSTANTS
    a1 = a1
    a2 = a2
    t1 = t1
    t2 = t2
    None = None
    Agents = {a1}
    MastraAgents = {a1}
    Tasks = {t1}
    MaxSessions = 1
    MaxRetries = 0
    MaxRestarts = 0
    MaxReviews = 1
    ReviewableTasks = {t1}
    UserStatuses = {"todo", "in_progress", "ai_review", "human_review", "done", "blocked"}
    AssessesComplexity = FALSE
PROPERTIES
    VerdictIsForAReview
CHECK_DEADLOCK FALSE
