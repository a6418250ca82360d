SPECIFICATION Spec
CONSTANTS
    MaxVersion = 3
    MinBase <- MCMinBase
    MaxCrashes = 3
    MaxFaults = 1
    MaxBoots = 4
    NoOverlay = NoOverlay
PROPERTY
    FailedApplyInstallsNothing
CHECK_DEADLOCK FALSE
