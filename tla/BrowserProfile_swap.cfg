SPECIFICATION FairSpec
CONSTANTS
    r1 = r1
    None = None
    Configs <- MCStrictConfigs
    Runs = {r1}
    MaxWrites = 2
    MaxWindows = 2
    MaxFaults = 2
INVARIANTS
    TypeOK
    NoOperationInAnotherProfile
    TurnStaysInItsProfile
    ResetProfilesAreClosed
    ToolsServeTheNewestSettings
PROPERTIES
    SettingsTakeEffect
CHECK_DEADLOCK FALSE
