SPECIFICATION FairSpec
CONSTANTS
    plain = plain
    rotated = rotated
    Cameras = {1, 2, 3}
    Configs <- MCConfigs
    ShapeKey <- MCShapeKey
    Off = Off
    Starts <- MCStarts
    GroupMax = 2
    NoEntry = NoEntry
    Edited = {1, 3}
    MaxEdits = 2
    MaxDeaths = 3
    MaxAccidents = 1
    MaxTrouble = 4
INVARIANTS EarnedQuarantine OneWorkerPerCamera PlanPacksGroups
PROPERTIES EventuallyRecovers
