SPECIFICATION Spec
CONSTANTS
    MaxVersion = 3
    MinBase <- MCMinBase
    MaxCrashes = 3
    MaxFaults = 0
    MaxBoots = 4
    NoOverlay = NoOverlay
INVARIANT
    WipedAfterMaxCrashes
\* or instead, with the same instance:
\*  WipedOverlayWasTried
\*  ReportNamesWipedVersion
\* or, as a PROPERTY:
\*  AppliesOnlyNewVersions
CHECK_DEADLOCK FALSE
