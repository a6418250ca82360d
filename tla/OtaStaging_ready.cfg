SPECIFICATION Spec
CONSTANTS
    d1 = d1
    d2 = d2
    Downloads = {d1, d2}
    MaxVersion = 3
    Shell = 1
    MaxFailures = 1
    MaxUserCalls = 1
    MaxRestarts = 1
SYMMETRY DownloadSymmetry
INVARIANT
    ReadyMeansStaged
CHECK_DEADLOCK FALSE
