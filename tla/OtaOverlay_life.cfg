SPECIFICATION Spec
CONSTANTS
    MaxVersion = 3
    MinBase <- MCMinBase
    MaxCrashes = 3
    MaxFaults = 2
    MaxBoots = 4
    NoOverlay = NoOverlay
INVARIANTS
    TypeOK
    CrashLoopBounded
    RollbackEarned
    WithdrawnStaysAway
PROPERTIES
    FailedApplyKeepsOverlay
    ImplementsLifecycle
CHECK_DEADLOCK FALSE
