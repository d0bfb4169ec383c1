SPECIFICATION FairSpec
CONSTANTS
    MinDim = 2
    MaxDim = 6
    MaxScale = 1
    Boot = 4
    Requests = {1, 5, 9}
    Scales = {0, 2}
    Targets = {t1, t2}
    Pool = 2
    MaxChanges = 3
INVARIANTS
    TypeOK
    SizesAgree
    KnowsItRuns
    SurvivesResize
    NothingLost
PROPERTIES
    ShowsTarget
