SPECIFICATION FairSpec
CONSTANTS
    Initial = Initial
    Others = {t1}
    None = None
    Dead = Dead
    Attempts = 2
    MaxReloads = 1
    MaxPosted = 2
    Requests <- MCRequests
INVARIANTS
    FollowsPicture
    NavHeals
    ParamsHonoured
PROPERTIES
    SwapSettles
CHECK_DEADLOCK FALSE
