SPECIFICATION Spec
CONSTANTS
    None = None
    Events = {e1, e2, e3}
    Alerts = {a1}
    Recovered = {r1}
    ContinueBudget = 1
    MaxAnswers = 2
    MaxPrompts = 4
    MaxRetries = 1
    MaxFaults = 1
    MaxDeskTurns = 1
    MaxCrashes = 1
INVARIANTS
    TypeOK
    OneAnswerPerAlert
    RecoveredIsRecorded
    AnswersAreNotOvertaken
    FollowUpsAreKept
SYMMETRY Symmetry
CHECK_DEADLOCK FALSE
