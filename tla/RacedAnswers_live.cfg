SPECIFICATION FairSpec
CONSTANTS
    q1 = q1
    q2 = q2
    None = None
    Questions = {q1}
    MaxTurns = 3
    MaxRetries = 1
    MaxStops = 1
    MaxFailures = 1
    MaxExpiries = 1
PROPERTIES
    AnswersAreUsed
CHECK_DEADLOCK FALSE
