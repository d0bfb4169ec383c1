CONSTANTS
    MaxEvents = 3
    MaxTasks = 3
    VideoMayFail = FALSE
SPECIFICATION FairSpec
INVARIANTS
    NeverMute
    LiveOffer
    NoSelfRearm
PROPERTIES
    AskedIsOffered
