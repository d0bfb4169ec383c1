SPECIFICATION FairSpec
CONSTANTS
    b1 = b1
    c1 = c1
    c2 = c2
    c3 = c3
    k1 = k1
    k2 = k2
    NoConn = NoConn
    RoleOf <- MCRoleOf
    Conns = {b1, c1}
    Keys = {k1}
    KeyOf <- MCKeyOf
    FirstFrames = {"unknown", "eoc"}
    Frames = {"offer", "ice", "bye"}
    SendBuffer = 1
    IceReplayMaxPerSender = 1
    IceReplayMaxAge = 0
    CanShutDown = TRUE
    MaxDials = 2
    MaxFrames = 2
    MaxNow = 1
PROPERTIES
    CleanupEnds
