SPECIFICATION Spec
CONSTANTS
    b1 = b1
    c1 = c1
    c2 = c2
    c3 = c3
    k1 = k1
    k2 = k2
    NoConn = NoConn
    RoleOf <- MCRoleOf
    Conns = {b1, c1, c2, c3}
    Keys = {k1, k2}
    KeyOf <- MCKeyOf
    FirstFrames = {"eoc"}
    Frames = {"offer", "bye"}
    SendBuffer = 1
    IceReplayMaxPerSender = 1
    IceReplayMaxAge = 0
    CanShutDown = FALSE
    MaxDials = 3
    MaxFrames = 2
    MaxNow = 0
INVARIANTS
    TypeOK
    Isolation
    NoSessionLeak
    BufferedSenderAlive
    HandedOver
    HandedOnce
SYMMETRY Viewers
