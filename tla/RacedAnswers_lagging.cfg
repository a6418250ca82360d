SPECIFICATION Spec
CONSTANTS
    q1 = q1
    q2 = q2
    None = None
    Questions = {q1, q2}
    MaxTurns = 4
    MaxRetries = 0
    MaxStops = 1
    MaxFailures = 0
    MaxExpiries = 0
SYMMETRY QuestionSymmetry
INVARIANTS
    NoUnrelatedTurnIsGivenAnAnswer
CHECK_DEADLOCK FALSE
