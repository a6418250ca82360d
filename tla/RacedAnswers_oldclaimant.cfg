SPECIFICATION Spec
CONSTANTS
    q1 = q1
    q2 = q2
    None = None
    Questions = {q1, q2}
    MaxTurns = 3
    MaxRetries = 1
    MaxStops = 1
    MaxFailures = 1
    MaxExpiries = 1
INVARIANTS
    FreshAnswersAreHeld
\* or instead, with the same instance, the PROPERTY
\*  NothingAfterAStop
CHECK_DEADLOCK FALSE
