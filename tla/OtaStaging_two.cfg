SPECIFICATION FairSpec
CONSTANTS
    d1 = d1
    d2 = d2
    Downloads = {d1, d2}
    MaxVersion = 3
    Shell = 1
    MaxFailures = 2
    MaxUserCalls = 2
    MaxRestarts = 2
INVARIANTS
    TypeOK
    InstalledIsWhole
PROPERTIES
    InstallsOnlyNewer
    OfferIsStaged
CHECK_DEADLOCK FALSE
